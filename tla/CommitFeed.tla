----------------------------- MODULE CommitFeed -----------------------------
(***************************************************************************)
(* What withEvents promises a listener about the endings of transactions,  *)
(* without hooks, stashes, calls or re-entrancy (the event documentation   *)
(* of DbEvent in src/hooks.ts): a transaction either lands, and is then    *)
(* announced by one postcommit, in commit order; or is discarded, and is   *)
(* announced by one rollback at that moment.                               *)
(***************************************************************************)
EXTENDS Naturals, Sequences, Functions

CONSTANT Ids

VARIABLES log,        \* transactions that landed, in order
          told,       \* transactions announced by postcommit, in order
          discarded,  \* transactions that were discarded
          undone      \* transactions announced by rollback, in order

vars == <<log, told, discarded, undone>>

Init == log = <<>> /\ told = <<>> /\ discarded = {} /\ undone = <<>>

Land(t) ==
  /\ t \notin Range(log) \union discarded
  /\ log' = Append(log, t)
  /\ UNCHANGED <<told, discarded, undone>>

\* After the commit has definitely landed, in the order the commits landed.
Tell ==
  /\ Len(told) < Len(log)
  /\ told' = Append(told, log[Len(told) + 1])
  /\ UNCHANGED <<log, discarded, undone>>

\* A transaction is discarded, and that is announced at once.
Discard(t) ==
  /\ t \notin Range(log) \union discarded
  /\ discarded' = discarded \union {t}
  /\ undone' = Append(undone, t)
  /\ UNCHANGED <<log, told>>

Next == (\E t \in Ids : Land(t) \/ Discard(t)) \/ Tell

Spec == Init /\ [][Next]_vars

\* Every landed transaction is eventually announced.
FairSpec == Spec /\ WF_vars(Tell)

=============================================================================
