---------------------------- MODULE AtomicCalls ----------------------------
(* What Database.transaction() promises (driver/database.ts:493), without      *)
(* BEGIN, SAVEPOINT or SQLite: nested calls, each of which keeps everything it *)
(* wrote when it returns and nothing when it throws, and an engine that may    *)
(* lose the transaction as a whole, after which every call still under way     *)
(* throws.                                                                     *)
EXTENDS Naturals, Sequences

CONSTANT Rows

VARIABLES landed,  \* rows that are in the database for good
          done,    \* per call under way, outermost first: the rows it holds
          doomed   \* the transaction of the calls under way is lost

vars == <<landed, done, doomed>>

Depth == Len(done)

Init == landed = {} /\ done = <<>> /\ doomed = FALSE

Call ==
    /\ ~doomed
    /\ done' = Append(done, {})
    /\ UNCHANGED <<landed, doomed>>

\* A row written outside every call is a transaction of its own.
Do(r) ==
    /\ ~doomed
    /\ IF done = <<>> THEN /\ landed' = landed \cup {r}
                           /\ UNCHANGED done
                      ELSE /\ done' = [done EXCEPT ![Depth] = @ \cup {r}]
                           /\ UNCHANGED landed
    /\ UNCHANGED doomed

Return ==
    /\ done # <<>> /\ ~doomed
    /\ IF Depth = 1
          THEN landed' = landed \cup done[1] /\ done' = <<>>
          ELSE /\ done' = [i \in 1..(Depth - 1) |->
                              IF i = Depth - 1 THEN done[i] \cup done[Depth] ELSE done[i]]
               /\ UNCHANGED landed
    /\ UNCHANGED doomed

Throw ==
    /\ done # <<>>
    /\ done' = SubSeq(done, 1, Depth - 1)
    /\ doomed' = (doomed /\ Depth > 1)
    /\ UNCHANGED landed

Lose ==
    /\ done # <<>>
    /\ done' = [i \in 1..Depth |-> {}]
    /\ doomed' = TRUE
    /\ UNCHANGED landed

Next == Call \/ (\E r \in Rows : Do(r)) \/ Return \/ Throw \/ Lose

Spec == Init /\ [][Next]_vars
=============================================================================
