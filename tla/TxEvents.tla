------------------------------ MODULE TxEvents ------------------------------
(***************************************************************************)
(* The event core of one registration (`attach` in src/hooks.ts): how the  *)
(* transactions SQLite runs become precommit, postcommit and rollback      *)
(* events.                                                                 *)
(*                                                                         *)
(* SQLite calls the update, commit and rollback handlers while a driver    *)
(* method is on the JavaScript stack; the commit handler stashes a batch,  *)
(* and the wrapper around the outermost driver method drains the stash     *)
(* into postcommit events once SQLite has returned.  The wrapper is        *)
(* re-entrant: a postcommit listener may use the connection, so a drain    *)
(* can start inside a drain.  `stack' holds what is on the JavaScript      *)
(* stack, one frame per driver call, innermost last.                       *)
(*                                                                         *)
(* A row is abstracted to the id of the transaction that touched it.  The  *)
(* SQLite side (variables tx, txid, wlock, engine) is external: it is      *)
(* modelled from what the code and its comments rely on.                   *)
(***************************************************************************)
EXTENDS Naturals, Sequences, Functions

CONSTANTS
  N,               \* listeners, numbered in the order they were registered
  MaxChanges,      \* options.maxChangesPerTransaction
  MaxEndsPerCall,  \* transactions one outermost driver call may end
  IterWrites,      \* whether the program steps a writing statement by iter()
  MaxTx,           \* bound: transactions in a behaviour
  MaxRows,         \* bound: rows touched by one transaction
  MaxNest,         \* bound: frames on the stack
  MaxErrors        \* bound: listener errors waiting at once

ASSUME ListenersAssumption == N \in Nat \ {0}
ASSUME RetentionAssumption == MaxChanges \in Nat \ {0}
ASSUME RegimeAssumption == MaxEndsPerCall \in Nat /\ IterWrites \in BOOLEAN
ASSUME BoundsAssumption ==
  MaxTx \in Nat /\ MaxRows \in Nat /\ MaxNest \in Nat /\ MaxErrors \in Nat

VARIABLES
  \* SQLite's connection
  tx,            \* "none", "implicit" (autocommit statement) or "explicit"
  txid,          \* the transaction open now, or the last one
  wlock,         \* it holds the write lock, so its commit calls the hook
  engine,        \* "idle", or inside COMMIT: "approved", "failing"
  iterating,     \* an iter() over a writing statement is half consumed
  \* the closure of attach()
  pending, pendingCount, committed, depth, errors, closed,
  stack,         \* driver calls on the JavaScript stack
  \* history
  ended,         \* transactions the current outermost call has ended
  seen, hidden,  \* rows of a transaction the update hook did / did not report
  log,           \* transactions that landed, in order
  discarded,     \* transactions rolled back
  silent,        \* transactions that landed after the hooks were removed
  told,          \* transactions announced by postcommit, in order
  rolled,        \* batches announced by rollback, in order
  heard          \* what each listener heard of endings, in order

sqlite == <<tx, txid, wlock, engine, iterating>>
closure == <<pending, pendingCount, committed, depth, errors, closed>>
history == <<ended, seen, hidden, log, discarded, silent, told, rolled, heard>>
vars == <<sqlite, closure, stack, history>>

TxIds == 1..MaxTx
Coverages == {"complete", "truncated", "unknown"}
Batches == [changes : Seq(TxIds), count : Nat, coverage : Coverages, of : TxIds]
Notices == [type : {"postcommit", "rollback"}, of : TxIds]
NoBatch == [changes |-> <<>>, count |-> 0, coverage |-> "unknown", of |-> 0]

\* A driver call: whether its method is still running ("sql") or its wrapper
\* is draining; the batch being dispatched and the listener it is at; and, for
\* the record, the value of `depth' when it was entered.
Frames == [kind : {"call", "transaction", "close"}, phase : {"sql", "drain"},
           ev : Batches \union {NoBatch}, at : Nat \ {0}, running : BOOLEAN,
           base : Nat]

-----------------------------------------------------------------------------
(* The batch the closure would report now; `of' is history, not code.      *)

Coverage(changes, count) ==
  IF count = 0 THEN "unknown"
  ELSE IF count > Len(changes) THEN "truncated" ELSE "complete"

Batch == [changes |-> pending, count |-> pendingCount,
          coverage |-> Coverage(pending, pendingCount), of |-> txid]

\* Mutant: batch() hands its rows out without starting a new list.
ForgetPendingNever == UNCHANGED <<pending, pendingCount>>
ForgetPending == pending' = <<>> /\ pendingCount' = 0

\* Mutant: rows past the limit are not even counted.
RecordUpToLimit(row) ==
  IF Len(pending) < MaxChanges
    THEN pendingCount' = pendingCount + 1 /\ pending' = Append(pending, row)
    ELSE UNCHANGED <<pending, pendingCount>>
Record(row) ==
  /\ pendingCount' = pendingCount + 1
  /\ pending' = IF Len(pending) < MaxChanges THEN Append(pending, row) ELSE pending

\* One event dispatched to every listener from inside a hook, where no
\* listener may use the connection: only what they returned matters.
Verdicts == [thrown : 0..N, refused : BOOLEAN]
Vetoes(v) == v.refused \/ v.thrown > 0
Raise(n) == errors + n <= MaxErrors /\ errors' = errors + n

HearEverywhere(type, of) ==
  heard' = [l \in 1..N |-> Append(heard[l], [type |-> type, of |-> of])]

-----------------------------------------------------------------------------
(* Where control is.                                                       *)

Top == stack[Len(stack)]
Push(kind, phase) ==
  stack' = Append(stack, [kind |-> kind, phase |-> phase, ev |-> NoBatch,
                          at |-> N + 1, running |-> FALSE, base |-> depth])
Pop == stack' = SubSeq(stack, 1, Len(stack) - 1)
SetTop(frame) == stack' = [stack EXCEPT ![Len(stack)] = frame]

\* reg.inListener: dispose() and close() are refused.
InListener == \E i \in 1..Len(stack) : stack[i].running

\* The caller's own code runs: between calls, in the function given to
\* db.transaction(), or in a postcommit listener.
ProgramRuns ==
  /\ engine = "idle"
  /\ stack # <<>> => Top.running \/ (Top.phase = "sql" /\ Top.kind = "transaction")

\* SQLite may step a statement: under a driver call, or under iter().  A
\* transaction function steps none itself; it makes calls.
SqlRuns ==
  /\ engine = "idle" /\ ~closed
  /\ ~(iterating /\ ProgramRuns) =>
       stack # <<>> /\ Top.phase = "sql" /\ Top.kind = "call"

-----------------------------------------------------------------------------
(* SQLite and the handlers it calls.                                       *)

\* The regime: an outermost call ends at most MaxEndsPerCall transactions.
CallBudget == depth = 0 \/ ended < MaxEndsPerCall
CountEnd == ended' = IF depth = 0 THEN 0 ELSE ended + 1

OpenTx(kind) ==
  /\ txid < MaxTx
  /\ txid' = txid + 1
  /\ tx' = kind

\* BEGIN, or BEGIN IMMEDIATE when it takes the write lock at once.
Begin(immediate) ==
  /\ SqlRuns /\ tx = "none"
  /\ OpenTx("explicit")
  /\ wlock' = immediate
  /\ UNCHANGED <<engine, iterating, closure, stack, history>>

\* One row touched.  The update handler sees it unless SQLite does not report
\* that kind of write (DDL, blob I/O without preupdate, WITHOUT ROWID, ...).
Write(reported, thrown) ==
  /\ SqlRuns
  /\ \/ tx # "none" /\ UNCHANGED <<tx, txid>>
     \/ tx = "none" /\ CallBudget /\ OpenTx("implicit")
  /\ seen[txid'] + hidden[txid'] < MaxRows
  /\ wlock' = TRUE
  /\ IF reported
       THEN /\ seen' = [seen EXCEPT ![txid'] = @ + 1]
            /\ Record(txid')
            /\ Raise(thrown)
            /\ UNCHANGED hidden
       ELSE /\ thrown = 0
            /\ hidden' = [hidden EXCEPT ![txid'] = @ + 1]
            /\ UNCHANGED <<seen, pending, pendingCount, errors>>
  /\ UNCHANGED <<engine, iterating, committed, depth, closed, stack,
                 ended, log, discarded, silent, told, rolled, heard>>

\* A transaction that never took the write lock ends without any hook.
CommitReadOnly ==
  /\ SqlRuns /\ tx = "explicit" /\ ~wlock
  /\ tx' = "none"
  /\ UNCHANGED <<txid, wlock, engine, iterating, closure, stack, history>>

\* The commit handler: precommit goes to every listener, and any throw,
\* thenable or `false' vetoes.  A veto leaves `pending' for the rollback hook.
CommitHook(v) ==
  /\ SqlRuns /\ tx # "none" /\ wlock
  /\ CallBudget
  /\ Raise(v.thrown)
  /\ IF Vetoes(v)
       THEN /\ engine' = "failing"
            /\ UNCHANGED <<pending, pendingCount, committed>>
       ELSE /\ engine' = "approved"
            /\ committed' = Append(committed, Batch)
            /\ ForgetPending
  /\ UNCHANGED <<tx, txid, wlock, iterating, depth, closed, stack, history>>

\* The approved commit reaches the disk ...
Land ==
  /\ engine = "approved"
  /\ engine' = "idle" /\ tx' = "none" /\ wlock' = FALSE
  /\ log' = Append(log, txid)
  /\ CountEnd
  /\ UNCHANGED <<txid, iterating, closure, stack,
                 seen, hidden, discarded, silent, told, rolled, heard>>

\* ... or fails after the hook approved it, and SQLite rolls it back.
FailCommit ==
  /\ engine = "approved"
  /\ engine' = "failing"
  /\ UNCHANGED <<tx, txid, wlock, iterating, closure, stack, history>>

\* The batch a rollback reports: the newest stashed one, on the assumption
\* that it is the one whose commit just failed, or else the open one.
\* Mutant: the stash is not looked at.
RolledBackOpen == Batch
RolledBack == IF committed = <<>> THEN Batch ELSE committed[Len(committed)]

\* Mutants: the stash keeps that batch, or is emptied altogether.
UnstashNothing == UNCHANGED committed
UnstashAll == committed' = <<>>
Unstash ==
  committed' = IF committed = <<>> THEN <<>>
               ELSE SubSeq(committed, 1, Len(committed) - 1)

\* The rollback handler: after a veto or a failed commit, for ROLLBACK, and
\* for an autocommit statement that failed.
RollbackHook(thrown) ==
  /\ \/ engine = "failing"
     \/ SqlRuns /\ tx # "none" /\ CallBudget
  /\ rolled' = Append(rolled, RolledBack)
  /\ HearEverywhere("rollback", RolledBack.of)
  /\ Unstash
  /\ ForgetPending
  /\ Raise(thrown)
  /\ engine' = "idle" /\ tx' = "none" /\ wlock' = FALSE
  /\ discarded' = discarded \union {txid}
  /\ CountEnd
  /\ UNCHANGED <<txid, iterating, depth, closed, stack,
                 seen, hidden, log, silent, told>>

-----------------------------------------------------------------------------
(* The wrapper around a driver method (instrument), drain and flush.       *)

\* Entering exec, run, a transaction function, ...: the guard lets it pass.
BeginCall(kind) ==
  /\ ProgramRuns /\ ~closed /\ Len(stack) < MaxNest
  /\ depth' = depth + 1
  /\ Push(kind, "sql")
  /\ UNCHANGED <<sqlite, pending, pendingCount, committed, errors, closed, history>>

\* At depth zero on a live connection the frame goes on to drain.
\* Mutant: not when the method threw.
AfterCallThatReturned(d) ==
  \/ Pop
  \/ d = 0 /\ ~closed /\ SetTop([Top EXCEPT !.phase = "drain"])
AfterCall(d) ==
  IF d = 0 /\ ~closed THEN SetTop([Top EXCEPT !.phase = "drain"]) ELSE Pop

\* The driver method returns or throws; either way depth drops.  An autocommit
\* statement is over by then unless an iter() still holds it open.
EndCall ==
  /\ engine = "idle" /\ stack # <<>> /\ Top.phase = "sql"
  /\ closed \/ tx # "implicit" \/ iterating
  /\ depth' = depth - 1
  /\ ended' = IF depth' = 0 THEN 0 ELSE ended
  /\ AfterCall(depth')
  /\ UNCHANGED <<sqlite, pending, pendingCount, committed, errors, closed,
                 seen, hidden, log, discarded, silent, told, rolled, heard>>

DispatchDone == Top.at > N

\* drain(): take the oldest batch and start dispatching its postcommit.
DrainNext ==
  /\ engine = "idle" /\ stack # <<>> /\ Top.phase = "drain"
  /\ DispatchDone /\ committed # <<>>
  /\ SetTop([Top EXCEPT !.ev = Head(committed), !.at = 1])
  /\ committed' = Tail(committed)
  /\ told' = Append(told, Head(committed).of)
  /\ UNCHANGED <<sqlite, pending, pendingCount, depth, errors, closed,
                 ended, seen, hidden, log, discarded, silent, rolled, heard>>

\* dispatch() calls the next listener, which may use the connection.
Notify ==
  /\ engine = "idle" /\ stack # <<>> /\ Top.phase = "drain"
  /\ ~DispatchDone /\ ~Top.running
  /\ SetTop([Top EXCEPT !.running = TRUE])
  /\ heard' = [heard EXCEPT ![Top.at] =
                 Append(@, [type |-> "postcommit", of |-> Top.ev.of])]
  /\ UNCHANGED <<sqlite, closure, ended, seen, hidden, log, discarded, silent,
                 told, rolled>>

\* It returns, or throws: one error more, caught by dispatch().
ListenerReturns(thrown) ==
  /\ engine = "idle" /\ stack # <<>> /\ Top.running
  /\ SetTop([Top EXCEPT !.running = FALSE, !.at = @ + 1])
  /\ Raise(thrown)
  /\ UNCHANGED <<sqlite, pending, pendingCount, committed, depth, closed, history>>

Drained == Top.phase = "drain" /\ DispatchDone /\ committed = <<>>

\* Mutant: the catch block drops depth again when flush() itself threw.
FinishCallTwice ==
  /\ engine = "idle" /\ stack # <<>> /\ Drained /\ Top.kind # "close"
  /\ errors' = 0
  /\ depth' = IF errors > 0 THEN depth - 1 ELSE depth
  /\ Pop
  /\ UNCHANGED <<sqlite, pending, pendingCount, committed, closed, history>>

\* flush(): every error is spliced off and surfaced; the call returns.
FinishCall ==
  /\ engine = "idle" /\ stack # <<>> /\ Drained /\ Top.kind # "close"
  /\ errors' = 0
  /\ Pop
  /\ UNCHANGED <<sqlite, pending, pendingCount, committed, depth, closed, history>>

-----------------------------------------------------------------------------
(* close(), which drains before anything else.                             *)

BeginClose ==
  /\ ProgramRuns /\ ~closed /\ ~InListener /\ Len(stack) < MaxNest
  /\ Push("close", "drain")
  /\ UNCHANGED <<sqlite, closure, history>>

\* An open transaction is reported as rolled back from JavaScript, the hooks
\* are removed, and the driver closes the handle.  What an unfinished iter()
\* wrote is committed by the finalizer, after the hooks are gone.
FinishClose ==
  /\ engine = "idle" /\ stack # <<>> /\ Drained /\ Top.kind = "close"
  /\ CASE tx = "explicit" ->
            /\ rolled' = Append(rolled, Batch)
            /\ HearEverywhere("rollback", txid)
            /\ ForgetPending
            /\ discarded' = discarded \union {txid}
            /\ UNCHANGED silent
       [] tx = "implicit" ->
            /\ silent' = silent \union {txid}
            /\ UNCHANGED <<rolled, heard, pending, pendingCount, discarded>>
       [] tx = "none" ->
            UNCHANGED <<rolled, heard, pending, pendingCount, discarded, silent>>
  /\ closed' = TRUE
  /\ errors' = 0
  /\ tx' = "none" /\ wlock' = FALSE /\ iterating' = FALSE
  /\ Pop
  /\ UNCHANGED <<txid, engine, committed, depth, ended, seen, hidden, log, told>>

-----------------------------------------------------------------------------
(* iter() is not instrumented: its steps are nobody's call.                *)

StartIter ==
  /\ IterWrites /\ ProgramRuns /\ ~closed /\ ~iterating
  /\ iterating' = TRUE
  /\ UNCHANGED <<tx, txid, wlock, engine, closure, stack, history>>

EndIter ==
  /\ ProgramRuns /\ iterating /\ tx # "implicit"
  /\ iterating' = FALSE
  /\ UNCHANGED <<tx, txid, wlock, engine, closure, stack, history>>

-----------------------------------------------------------------------------
\* Attaching is possible with a transaction already open, whose earlier rows
\* nobody recorded.
Init ==
  /\ \E rows \in 0..MaxRows, open \in BOOLEAN :
       /\ (open => MaxTx > 0) /\ (~open => rows = 0)
       /\ tx = IF open THEN "explicit" ELSE "none"
       /\ txid = IF open THEN 1 ELSE 0
       /\ wlock = (rows > 0)
       /\ hidden = [t \in TxIds |-> IF t = 1 THEN rows ELSE 0]
  /\ engine = "idle" /\ iterating = FALSE
  /\ pending = <<>> /\ pendingCount = 0 /\ committed = <<>>
  /\ depth = 0 /\ errors = 0 /\ closed = FALSE
  /\ stack = <<>>
  /\ ended = 0
  /\ seen = [t \in TxIds |-> 0]
  /\ log = <<>> /\ discarded = {} /\ silent = {}
  /\ told = <<>> /\ rolled = <<>>
  /\ heard = [l \in 1..N |-> <<>>]

SqliteStep ==
  \/ \E immediate \in BOOLEAN : Begin(immediate)
  \/ \E reported \in BOOLEAN, thrown \in 0..1 : Write(reported, thrown)
  \/ CommitReadOnly
  \/ \E v \in Verdicts : CommitHook(v)
  \/ Land
  \/ FailCommit
  \/ \E thrown \in 0..1 : RollbackHook(thrown)

ClosureStep ==
  \/ EndCall
  \/ DrainNext
  \/ Notify
  \/ \E thrown \in 0..1 : ListenerReturns(thrown)
  \/ FinishCall
  \/ FinishClose

ProgramStep ==
  \/ \E kind \in {"call", "transaction"} : BeginCall(kind)
  \/ BeginClose
  \/ StartIter
  \/ EndIter

Next == SqliteStep \/ ClosureStep \/ ProgramStep

Spec == Init /\ [][Next]_vars

\* What the code's scheduling justifies: everything is synchronous, so SQLite
\* finishes what it started, the wrappers run to their end, and the caller's
\* functions return however many calls they make first.
StatementEnds ==
  tx = "implicit" /\ (CommitHook([thrown |-> 0, refused |-> FALSE]) \/ RollbackHook(0))
Fairness ==
  /\ WF_vars(StatementEnds)
  /\ WF_vars(Land \/ FailCommit)
  /\ WF_vars(engine = "failing" /\ RollbackHook(0))
  /\ \A d \in 1..MaxNest : SF_vars(depth = d /\ EndCall)
  /\ WF_vars(DrainNext)
  /\ WF_vars(Notify)
  /\ SF_vars(ListenerReturns(0))
  /\ WF_vars(FinishCall)
  /\ WF_vars(FinishClose)

FairSpec == Spec /\ Fairness

-----------------------------------------------------------------------------
(* Properties.                                                             *)

TypeOK ==
  /\ tx \in {"none", "implicit", "explicit"}
  /\ txid \in 0..MaxTx
  /\ wlock \in BOOLEAN
  /\ engine \in {"idle", "approved", "failing"}
  /\ iterating \in BOOLEAN
  /\ pending \in Seq(TxIds)
  /\ pendingCount \in Nat
  /\ committed \in Seq(Batches)
  /\ depth \in Nat
  /\ errors \in Nat
  /\ closed \in BOOLEAN
  /\ stack \in Seq(Frames)
  /\ ended \in Nat
  /\ seen \in [TxIds -> Nat] /\ hidden \in [TxIds -> Nat]
  /\ log \in Seq(TxIds)
  /\ discarded \subseteq TxIds /\ silent \subseteq TxIds
  /\ told \in Seq(TxIds)
  /\ rolled \in Seq(Batches)
  /\ heard \in [1..N -> Seq(Notices)]

\* Re-entrancy is balanced: however calls, drains, throws and close() nest,
\* `depth' counts the driver methods still running, so it is zero exactly when
\* the outermost one is over and its wrapper has to drain.
InnerDepth(f) == f.base + (IF f.phase = "sql" THEN 1 ELSE 0)
DepthBalanced ==
  /\ depth = IF stack = <<>> THEN 0 ELSE InnerDepth(Top)
  /\ \A i \in 1..Len(stack) :
       stack[i].base = IF i = 1 THEN 0 ELSE InnerDepth(stack[i - 1])

Landed == Range(log)
Told == Range(told)

AtRest == stack = <<>> /\ engine = "idle" /\ ~closed

\* Batches the closure holds or is dispatching: their transactions were
\* approved by every precommit listener.
HeldBatches ==
  Range(committed) \union {stack[i].ev : i \in {j \in 1..Len(stack) : stack[j].at <= N}}

\* "After the commit has definitely landed" (postcommit): a postcommit is
\* only ever dispatched for a transaction that has landed by then, however
\* many commits failed after precommit approved them.
PostcommitOnlyLanded == Told \subseteq Landed

\* Whatever the interleaving of calls, vetoes, failed commits, iter() steps
\* and re-entrant drains, a row waits in `pending' only while the transaction
\* that touched it is open: no batch can carry another transaction's rows.
PendingIsTheOpenTransaction ==
  /\ \A i \in 1..Len(pending) : pending[i] = txid
  /\ ~closed /\ (tx = "none" \/ engine = "approved") => pendingCount = 0

\* A batch accounts for its transaction exactly: its count is the number of
\* rows the update hook reported, it retains all of them up to the limit, they
\* are all that transaction's, and coverage says which case it is.
BatchAccounts(b) ==
  /\ b.count = seen[b.of]
  /\ Len(b.changes) = (IF b.count < MaxChanges THEN b.count ELSE MaxChanges)
  /\ \A i \in 1..Len(b.changes) : b.changes[i] = b.of
  /\ b.coverage = (IF b.count = 0 THEN "unknown"
                   ELSE IF b.count > MaxChanges THEN "truncated" ELSE "complete")
BatchesAccount == \A b \in HeldBatches : BatchAccounts(b)

\* A landed transaction is never forgotten, even when several transactions end
\* in one call: it is announced, by one event or the other, or still queued.
Queued == {committed[i].of : i \in 1..Len(committed)}
Rolled == {rolled[i].of : i \in 1..Len(rolled)}
EndsOnce ==
  \A l \in 1..N : \A i, j \in 1..Len(heard[l]) :
    heard[l][i].of = heard[l][j].of => i = j

\* A landed transaction is never forgotten, even when several transactions end
\* in one call: it is announced, by one event or the other, or still queued; and
\* no listener hears two postcommits, two rollbacks or one of each for it.
LandedIsAccountedFor == Landed \subseteq Told \union Queued \union Rolled /\ EndsOnce

\* "A transaction was discarded" (rollback): the rollback event is only
\* dispatched for a transaction that was discarded, with its own rows.
RollbackOnlyDiscarded ==
  \A i \in 1..Len(rolled) : rolled[i].of \in discarded /\ BatchAccounts(rolled[i])

-----------------------------------------------------------------------------
(* The inductive invariant behind PostcommitOnlyLanded and                 *)
(* PendingIsTheOpenTransaction.                                            *)

OpenInv ==
  /\ tx # "none" => txid \in TxIds /\ ~closed
  /\ engine # "idle" => tx # "none"

\* A batch being dispatched is one whose transaction landed.
FrameInv(f) ==
  /\ f.running => f.at <= N
  /\ f.at <= N => f.ev \in Batches /\ f.ev.of \in Landed
  /\ f.phase = "sql" => f.at > N
FramesInv == \A i \in 1..Len(stack) : FrameInv(stack[i])

\* A stashed batch is one whose transaction landed, except that the newest may
\* be the one SQLite is still committing, or has just failed to commit.
StashInv ==
  /\ \A i \in 1..Len(committed) :
       \/ committed[i].of \in Landed
       \/ i = Len(committed) /\ engine # "idle" /\ committed[i].of = txid
  /\ engine = "approved" =>
       committed # <<>> /\ committed[Len(committed)].of = txid

\* Rows wait only while the write lock is held, so a transaction that ends
\* without any hook leaves none behind.
PendingInv ==
  /\ PendingIsTheOpenTransaction
  /\ ~closed /\ ~wlock => pendingCount = 0
  /\ Len(pending) <= pendingCount

IInv ==
  /\ TypeOK /\ DepthBalanced /\ OpenInv /\ FramesInv /\ StashInv
  /\ PostcommitOnlyLanded /\ PendingInv

-----------------------------------------------------------------------------
(* The invariants behind BatchesAccount and LandedIsAccountedFor, which IInv   *)
(* supports.                                                                   *)

\* The open transaction has not ended yet.
LogInv ==
  /\ \A t \in Landed \union discarded : t <= txid
  /\ tx # "none" => txid \notin Landed \union discarded

\* What waits in `pending' accounts for the open transaction, until it is stashed.
PendingAccounts ==
  /\ pendingCount = seen[txid]
  /\ Len(pending) = IF pendingCount < MaxChanges THEN pendingCount ELSE MaxChanges
AccountInv ==
  /\ \A t \in TxIds : t > txid => seen[t] = 0
  /\ tx # "none" /\ txid \notin Queued => PendingAccounts
  /\ BatchesAccount

\* What listener l has heard of, and whether frame f will still call it.
HeardOf(l) == {heard[l][i].of : i \in 1..Len(heard[l])}
Awaits(f, l) == f.at <= N /\ (l > f.at \/ (l = f.at /\ ~f.running))

\* Nobody has heard of a transaction that is open, stashed, or in a frame that
\* will still call him, and no two of these are the same one.
QueueInv ==
  /\ \A i, j \in 1..Len(committed) : committed[i].of = committed[j].of => i = j
  /\ \A i \in 1..Len(stack) : stack[i].at <= N =>
        /\ stack[i].ev.of \notin Queued
        /\ \A j \in 1..Len(stack) :
              stack[j].at <= N /\ stack[j].ev.of = stack[i].ev.of => j = i
HeardInv ==
  /\ EndsOnce
  /\ \A l \in 1..N :
       /\ \A t \in HeardOf(l) : t <= txid
       /\ tx # "none" => txid \notin HeardOf(l)
       /\ HeardOf(l) \intersect Queued = {}
       /\ \A i \in 1..Len(stack) : Awaits(stack[i], l) => stack[i].ev.of \notin HeardOf(l)

\* The regime of the documented use: one ending per call, no writing iter().
Single == MaxEndsPerCall = 1 /\ ~IterWrites

\* In it the stash holds one batch at most, the one of the transaction that just
\* ended, until the wrapper of that call drains it.
SingleInv ==
  /\ ~iterating
  /\ Len(committed) <= 1
  /\ closed => committed = <<>>
  /\ engine # "idle" => depth > 0 /\ (committed # <<>> => committed[1].of = txid)
  /\ engine = "idle" /\ committed # <<>> =>
        \/ stack # <<>> /\ Top.phase = "drain" /\ DispatchDone
        \/ depth > 0 /\ ended > 0
FeedInv ==
  IF engine = "idle" /\ committed # <<>> THEN log = Append(told, committed[1].of) ELSE log = told

\* The promise, with the history variables of this module as its state: where
\* an outermost call ends at most one transaction and no iter() writes, every
\* step here is a step of CommitFeed or leaves its state alone.
Feed == INSTANCE CommitFeed WITH
  Ids <- TxIds, undone <- [i \in 1..Len(rolled) |-> rolled[i].of]

KeepsThePromise == Feed!Spec
AnnouncesEveryCommit == Feed!FairSpec

=============================================================================
