------------------------- MODULE DriverTransaction -------------------------
(* Transaction functions of the driver (wrapTransaction in driver/database.ts) *)
(* under withValidation (src/hooks.ts).  SQLite's side is the open             *)
(* transaction, its savepoints, all of which the driver gives one name, and    *)
(* what has landed.  Uses a program may make beyond what the documentation     *)
(* describes:                                                                  *)
(*   "catches"    a function goes on after SQLite lost its transaction         *)
(*   "iterating"  a writing statement is left half way through by iter()       *)
(*   "script"     SQL text begins, commits or rolls back by itself             *)
EXTENDS Naturals, Sequences

CONSTANTS Rows,      \* rows a behaviour may write, each once
          MaxDepth,  \* nested transaction functions, and savepoints left behind
          Programs   \* sets of uses a behaviour may draw on

ASSUME BoundsAssumption == MaxDepth \in Nat \ {0}

VARIABLES autocommit,  \* sqlite3_get_autocommit
          dirty,       \* rows of the open transaction
          savepoints,  \* what `dirty' was at each SAVEPOINT, oldest first
          stepping,    \* a writing statement is between two steps
          landed,      \* rows that are in the database for good
          rejection,   \* whether withValidation remembers one
          calls,       \* transaction functions under way, outermost first
          wrong,       \* rows written that the validator refuses
          shown,       \* rows the hooks reported since the transaction began
          masked,      \* an exception of the clean-up replaced the function's
          uses

sqlite == <<autocommit, dirty, savepoints, landed>>
vars == <<sqlite, stepping, rejection, calls, wrong, shown, masked, uses>>

Verdicts == {"nothing", "true", "false", "text", "throws", "promise"}
Frames == [nested : BOOLEAN, phase : {"body", "catch"}]

TypeOK ==
    /\ autocommit \in BOOLEAN /\ stepping \in BOOLEAN
    /\ rejection \in BOOLEAN /\ masked \in BOOLEAN
    /\ dirty \subseteq Rows /\ landed \subseteq Rows
    /\ wrong \subseteq Rows /\ shown \subseteq Rows
    /\ savepoints \in Seq(SUBSET Rows) /\ Len(savepoints) <= MaxDepth
    /\ uses = {} => Len(savepoints) < MaxDepth
    /\ calls \in Seq(Frames) /\ Len(calls) <= MaxDepth
    /\ uses \in Programs

Last(s) == s[Len(s)]
Front(s) == SubSeq(s, 1, Len(s) - 1)

inTransaction == ~autocommit
InBody == calls # <<>> => Last(calls).phase = "body"
Lost == calls # <<>> /\ autocommit

\* Where the program's own code runs and may use the connection.
Free == InBody /\ (Lost => uses \cap {"catches", "script"} # {})
Idle == autocommit => ~stepping

-----------------------------------------------------------------------------
(* Validation.                                                                 *)

Rejects(verdict) == verdict \in {"false", "text", "throws", "promise"}

\* The preupdate event of a row: the first rejection in a transaction wins.
Preupdate(refused) == rejection \/ refused

\* Is a commit refused, given what was remembered before it.
Precommit(remembered) == remembered

\* The rejection after the rollback event.
\* Mutant: the rollback event does not forget it.
RollbackKeeps == rejection
RollbackForgets == FALSE

-----------------------------------------------------------------------------
(* SQLite ending a transaction, with the hooks it calls.                       *)

Discard ==
    /\ autocommit' = TRUE /\ dirty' = {} /\ savepoints' = <<>> /\ shown' = {}
    /\ rejection' = RollbackForgets
    /\ UNCHANGED landed

CommitLands ==
    /\ inTransaction /\ ~stepping /\ ~Precommit(rejection)
    /\ landed' = landed \cup dirty
    /\ autocommit' = TRUE /\ dirty' = {} /\ savepoints' = <<>> /\ shown' = {}
    /\ rejection' = FALSE

CommitVetoed ==
    /\ inTransaction /\ ~stepping /\ Precommit(rejection)
    /\ Discard

\* Refused before it began (busy, a deferred constraint, a statement in
\* progress, no transaction), or rolled back by an I/O error.
CommitFails ==
    \/ UNCHANGED <<sqlite, rejection, shown>>
    \/ inTransaction /\ ~stepping /\ ~Precommit(rejection) /\ Discard

\* RELEASE needs a savepoint of that name and no write in progress.
\* Mutant: an inner call commits.
ReleaseCommits ==
    /\ savepoints # <<>> /\ ~stepping
    /\ CommitLands
Release ==
    /\ savepoints # <<>> /\ ~stepping
    /\ savepoints' = Front(savepoints)
    /\ UNCHANGED <<autocommit, dirty, landed, rejection, shown>>
ReleaseFails ==
    /\ savepoints = <<>> \/ stepping
    /\ UNCHANGED <<sqlite, rejection, shown>>

-----------------------------------------------------------------------------
(* Statements of the program.                                                  *)

Record(r, refused) ==
    wrong' = IF refused THEN wrong \cup {r} ELSE wrong

\* In autocommit mode the statement is a transaction and commits at its end.
WriteAlone(r, refused) ==
    /\ autocommit
    /\ landed' = IF Precommit(Preupdate(refused)) THEN landed ELSE landed \cup {r}
    /\ rejection' = FALSE
    /\ UNCHANGED <<autocommit, dirty, savepoints, shown>>

WriteWithin(r, refused) ==
    /\ inTransaction
    /\ dirty' = dirty \cup {r}
    /\ shown' = shown \cup {r}
    /\ rejection' = Preupdate(refused)
    /\ UNCHANGED <<autocommit, savepoints, landed>>

\* A statement that fails after its row was shown: the row is undone, and the
\* transaction with it if the conflict clause or the error says so.
FailWithin(r, refused) ==
    /\ inTransaction
    /\ \/ Discard
       \/ /\ shown' = shown \cup {r}
          /\ rejection' = Preupdate(refused)
          /\ UNCHANGED sqlite

Write(r, refused) ==
    /\ Free /\ Idle
    /\ r \notin dirty \cup landed \cup wrong \cup shown
    /\ Record(r, refused)
    /\ WriteAlone(r, refused) \/ WriteWithin(r, refused) \/ FailWithin(r, refused)
    /\ UNCHANGED <<stepping, calls, masked, uses>>

StartStepping ==
    /\ "iterating" \in uses /\ Free /\ inTransaction /\ ~stepping
    /\ stepping' = TRUE
    /\ UNCHANGED <<sqlite, rejection, calls, wrong, shown, masked, uses>>

StopStepping ==
    /\ stepping /\ InBody
    /\ stepping' = FALSE
    /\ UNCHANGED <<sqlite, rejection, calls, wrong, shown, masked, uses>>

Script ==
    /\ "script" \in uses /\ Free
    /\ \/ /\ autocommit /\ Idle /\ autocommit' = FALSE
          /\ UNCHANGED <<dirty, savepoints, landed, rejection, shown>>
       \/ CommitLands
       \/ CommitVetoed
       \/ inTransaction /\ Discard
    /\ UNCHANGED <<stepping, calls, wrong, masked, uses>>

-----------------------------------------------------------------------------
(* wrapTransaction.                                                            *)

\* before.run(): BEGIN, or SAVEPOINT inside a transaction.  A failing one
\* throws before the try block and changes nothing.
Enter ==
    /\ Free /\ ~stepping /\ Len(calls) < MaxDepth /\ Len(savepoints) < MaxDepth
    /\ calls' = Append(calls, [nested |-> inTransaction, phase |-> "body"])
    /\ savepoints' = IF inTransaction THEN Append(savepoints, dirty) ELSE savepoints
    /\ autocommit' = FALSE
    /\ UNCHANGED <<dirty, landed, stepping, rejection, wrong, shown, masked, uses>>

Running == calls # <<>> /\ Last(calls).phase = "body"
Catches == calls' = [calls EXCEPT ![Len(calls)].phase = "catch"]

\* The function returns and after.run() succeeds.
Returns ==
    /\ Running
    /\ IF Last(calls).nested THEN Release ELSE CommitLands
    /\ calls' = Front(calls)
    /\ UNCHANGED <<stepping, wrong, masked, uses>>

\* The function throws, or after.run() does.
Throws ==
    /\ Running
    /\ \/ UNCHANGED <<sqlite, rejection, shown>>
       \/ ~Last(calls).nested /\ (CommitVetoed \/ CommitFails)
       \/ Last(calls).nested /\ ReleaseFails
    /\ Catches
    /\ UNCHANGED <<stepping, wrong, masked, uses>>

\* The catch block: nothing to undo when SQLite already rolled back.
\* Mutant: the undo is tried without looking at autocommit, and throws.
UndoNeverSkipped == autocommit /\ UNCHANGED <<sqlite, rejection, shown>> /\ masked' = TRUE
UndoSkipped == autocommit /\ UNCHANGED <<sqlite, rejection, shown, masked>>

UndoOutermost == inTransaction /\ ~Last(calls).nested /\ Discard /\ UNCHANGED masked

\* ROLLBACK TO, then RELEASE; either may throw in its turn.
\* Mutant: the savepoint is not released after rolling back to it.
UndoNestedKeepsSavepoint ==
    /\ inTransaction /\ Last(calls).nested
    /\ IF savepoints = <<>>
          THEN UNCHANGED <<dirty, savepoints>> /\ masked' = TRUE
          ELSE dirty' = Last(savepoints) /\ UNCHANGED <<savepoints, masked>>
    /\ UNCHANGED <<autocommit, landed, rejection, shown>>
\* Mutant: ROLLBACK TO forgets the rejection too.
UndoNestedForgets ==
    /\ inTransaction /\ Last(calls).nested /\ savepoints # <<>>
    /\ dirty' = Last(savepoints) /\ savepoints' = Front(savepoints)
    /\ rejection' = FALSE
    /\ UNCHANGED <<autocommit, landed, shown, masked>>
UndoNested ==
    /\ inTransaction /\ Last(calls).nested
    /\ IF savepoints = <<>>
          THEN UNCHANGED <<dirty, savepoints>> /\ masked' = TRUE
          ELSE /\ dirty' = Last(savepoints)
               /\ savepoints' = IF stepping THEN savepoints ELSE Front(savepoints)
               /\ masked' = (masked \/ stepping)
    /\ UNCHANGED <<autocommit, landed, rejection, shown>>

Catch ==
    /\ calls # <<>> /\ Last(calls).phase = "catch"
    /\ UndoSkipped \/ UndoOutermost \/ UndoNested
    /\ calls' = Front(calls)
    /\ UNCHANGED <<stepping, wrong, uses>>

-----------------------------------------------------------------------------
Init ==
    /\ autocommit = TRUE /\ dirty = {} /\ savepoints = <<>> /\ landed = {}
    /\ stepping = FALSE /\ rejection = FALSE /\ calls = <<>>
    /\ wrong = {} /\ shown = {} /\ masked = FALSE
    /\ uses \in Programs

Next ==
    \/ \E r \in Rows, refused \in {Rejects(v) : v \in Verdicts} : Write(r, refused)
    \/ StartStepping \/ StopStepping \/ Script
    \/ Enter \/ Returns \/ Throws \/ Catch

Spec == Init /\ [][Next]_vars

-----------------------------------------------------------------------------
(* Properties.                                                                 *)

\* A row that the validator refuses never lands, whatever is undone, caught,
\* nested or committed by text around it (withValidation, hooks.ts:2222).
NoRefusedRowLands == landed \cap wrong = {}

\* What is remembered is about the open transaction and no other: a commit is
\* refused exactly when a row of that transaction was (hooks.ts:2284, :2300).
RemembersThisTransaction == rejection <=> shown \cap wrong # {}

\* The exception a caller sees is the one its function threw: the clean-up
\* after it does not fail (database.ts:834).
CauseIsKept == uses \cap {"iterating", "script"} = {} => ~masked

\* A call holds what was written since its savepoint.
Base == <<{}>> \o savepoints
Held(i) == (IF i < Len(Base) THEN Base[i + 1] ELSE dirty) \ Base[i]
Calls == INSTANCE AtomicCalls WITH
            done <- [i \in 1..Len(calls) |-> IF autocommit THEN {} ELSE Held(i)],
            doomed <- Lost

\* Transaction functions are atomic at every depth: one that returns keeps what
\* it wrote, one that throws keeps nothing, and none lands a part (database.ts:494).
CallsAreAtomic ==
    Calls!Init /\ [][uses = {} => Calls!Next \/ UNCHANGED Calls!vars]_vars

-----------------------------------------------------------------------------
(* The inductive invariant behind these properties.                            *)

\* Nothing is held of a transaction that is over.
OverInv == autocommit => dirty = {} /\ savepoints = <<>> /\ shown = {}

\* What a transaction holds, at each savepoint, is among what was shown.
ShownInv ==
    /\ dirty \subseteq shown
    /\ \A i \in 1..Len(savepoints) : savepoints[i] \subseteq shown

\* A savepoint holds what the earlier ones hold.
ChainInv ==
    \A i \in 1..Len(savepoints) :
       /\ savepoints[i] \subseteq dirty
       /\ \A j \in 1..i : savepoints[j] \subseteq savepoints[i]

\* Call o began the open transaction, and each call above it set a savepoint.
Began(o) ==
    /\ ~calls[o].nested
    /\ \A j \in (o + 1)..Len(calls) : calls[j].nested
    /\ Len(savepoints) = Len(calls) - o
SavepointInv ==
    uses \cap {"iterating", "script"} = {} =>
       /\ ~stepping
       /\ inTransaction => \E o \in 1..Len(calls) : Began(o)

\* Under the documented use only the outermost call begins a transaction.
NestingInv ==
    uses = {} => \A i \in 1..Len(calls) : calls[i].nested <=> i > 1

IInv ==
    /\ TypeOK /\ OverInv /\ ShownInv /\ ChainInv /\ SavepointInv /\ NestingInv
    /\ NoRefusedRowLands /\ RemembersThisTransaction /\ CauseIsKept

=============================================================================
