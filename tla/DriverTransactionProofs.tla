----------------------- MODULE DriverTransactionProofs -----------------------
(* Proofs about DriverTransaction for every set of rows, every depth of        *)
(* nesting and every program.                                                  *)
EXTENDS DriverTransaction, SequenceTheorems, TLAPS

-----------------------------------------------------------------------------
(* Stacks, innermost last, in the shapes the actions use them.                 *)

\* Leaving a transaction function takes the innermost call, or its savepoint, off.
LEMMA DropLast ==
  ASSUME NEW S, NEW s \in Seq(S), s # <<>>
  PROVE  LET r == SubSeq(s, 1, Len(s) - 1)
         IN /\ r \in Seq(S)
            /\ Len(r) = Len(s) - 1
            /\ \A i \in 1..Len(r) : r[i] = s[i]
<1>1. Len(s) \in Nat \ {0}
  BY EmptySeq
<1>2. PICK m \in Nat : Len(s) - 1 = m
  BY <1>1
<1>3. \A i \in 1..m : s[i] \in S
  BY <1>1, <1>2, ElementOfSeq
<1>4. SubSeq(s, 1, m) \in Seq(S) /\ Len(SubSeq(s, 1, m)) = m /\ \A i \in 1..m : SubSeq(s, 1, m)[i] = s[i]
  BY <1>3, SubSeqProperties
<1>. QED
  BY <1>2, <1>4

\* A step of the innermost call.
LEMMA ReplaceLast ==
  ASSUME NEW S, NEW s \in Seq(S), s # <<>>, NEW x \in S
  PROVE  LET r == [s EXCEPT ![Len(s)] = x]
         IN /\ r \in Seq(S)
            /\ Len(r) = Len(s)
            /\ r[Len(s)] = x
            /\ \A i \in 1..(Len(s) - 1) : r[i] = s[i]
            /\ r # <<>>
<1>1. Len(s) \in Nat /\ Len(s) # 0 /\ s[Len(s)] \in S
  BY LenProperties, EmptySeq, ElementOfSeq
<1>2. QED
  BY <1>1, ExceptSeq, LenProperties, EmptySeq

\* The innermost of the calls there are.
LEMMA LastElement ==
  ASSUME NEW S, NEW s \in Seq(S), s # <<>>
  PROVE  Len(s) \in Nat \ {0} /\ s[Len(s)] \in S /\ Len(s) \in 1..Len(s)
BY ElementOfSeq, EmptySeq, LenProperties

-----------------------------------------------------------------------------
(* What the actions do to the stacks.                                          *)

\* Entering a transaction function puts one call on the stack.
LEMMA EnterPushes ==
  ASSUME TypeOK, Enter
  PROVE  /\ calls' \in Seq(Frames) /\ Len(calls') = Len(calls) + 1
         /\ calls'[Len(calls')] = [nested |-> inTransaction, phase |-> "body"]
         /\ \A i \in 1..Len(calls) : calls'[i] = calls[i]
         /\ savepoints' \in Seq(SUBSET Rows)
         /\ inTransaction => /\ Len(savepoints') = Len(savepoints) + 1
                             /\ savepoints'[Len(savepoints')] = dirty
                             /\ \A i \in 1..Len(savepoints) : savepoints'[i] = savepoints[i]
         /\ ~inTransaction => savepoints' = savepoints
<1>1. [nested |-> inTransaction, phase |-> "body"] \in Frames
  BY DEF TypeOK, Frames, inTransaction
<1>2. dirty \in SUBSET Rows /\ savepoints \in Seq(SUBSET Rows) /\ calls \in Seq(Frames)
  BY DEF TypeOK
<1>3. /\ calls' = Append(calls, [nested |-> inTransaction, phase |-> "body"])
      /\ savepoints' = IF inTransaction THEN Append(savepoints, dirty) ELSE savepoints
  BY DEF Enter
<1>4. /\ calls' \in Seq(Frames) /\ Len(calls') = Len(calls) + 1
      /\ calls'[Len(calls')] = [nested |-> inTransaction, phase |-> "body"]
      /\ \A i \in 1..Len(calls) : calls'[i] = calls[i]
  BY <1>1, <1>2, <1>3, AppendProperties
<1>5. /\ savepoints' \in Seq(SUBSET Rows)
      /\ inTransaction => /\ Len(savepoints') = Len(savepoints) + 1
                          /\ savepoints'[Len(savepoints')] = dirty
                          /\ \A i \in 1..Len(savepoints) : savepoints'[i] = savepoints[i]
      /\ ~inTransaction => savepoints' = savepoints
  BY <1>2, <1>3, AppendProperties
<1>. QED
  BY <1>4, <1>5

\* The innermost call ends, by Returns or by Catch.
LEMMA CallEnds ==
  ASSUME TypeOK, calls # <<>>, calls' = Front(calls)
  PROVE  /\ calls' \in Seq(Frames) /\ Len(calls') = Len(calls) - 1
         /\ Len(calls) \in Nat \ {0} /\ Len(calls) \in 1..Len(calls)
         /\ \A i \in 1..Len(calls') : calls'[i] = calls[i]
<1>1. calls \in Seq(Frames)
  BY DEF TypeOK
<1>. QED
  BY <1>1, DropLast, LastElement DEF Front

\* RELEASE drops the newest savepoint and keeps the older ones.
LEMMA SavepointEnds ==
  ASSUME TypeOK, savepoints # <<>>
  PROVE  /\ Front(savepoints) \in Seq(SUBSET Rows)
         /\ Len(Front(savepoints)) = Len(savepoints) - 1
         /\ Len(savepoints) \in Nat \ {0} /\ Len(savepoints) \in 1..Len(savepoints)
         /\ \A i \in 1..(Len(savepoints) - 1) : Front(savepoints)[i] = savepoints[i]
         /\ Last(savepoints) = savepoints[Len(savepoints)] /\ Last(savepoints) \subseteq Rows
<1>1. savepoints \in Seq(SUBSET Rows)
  BY DEF TypeOK
<1>. QED
  BY <1>1, DropLast, LastElement DEF Front, Last

\* Control that passes to the catch block changes only where its call is.
LEMMA CatchesMarks ==
  ASSUME TypeOK, calls # <<>>, Catches
  PROVE  /\ calls' \in Seq(Frames) /\ Len(calls') = Len(calls) /\ calls' # <<>>
         /\ \A i \in 1..Len(calls) : calls'[i].nested = calls[i].nested
<1>1. calls \in Seq(Frames) /\ Last(calls) \in Frames
  BY LastElement DEF TypeOK, Last
<1>2. [Last(calls) EXCEPT !.phase = "catch"] \in Frames
      /\ [Last(calls) EXCEPT !.phase = "catch"].nested = Last(calls).nested
  BY <1>1 DEF Frames
<1>3. calls' = [calls EXCEPT ![Len(calls)] = [Last(calls) EXCEPT !.phase = "catch"]]
  BY DEF Catches, Last
<1>. HIDE DEF Last
<1>4. /\ calls' \in Seq(Frames) /\ Len(calls') = Len(calls) /\ calls' # <<>>
      /\ calls'[Len(calls)] = [Last(calls) EXCEPT !.phase = "catch"]
      /\ \A i \in 1..(Len(calls) - 1) : calls'[i] = calls[i]
  BY <1>1, <1>2, <1>3, ReplaceLast
<1>5. Len(calls) \in Nat /\ Last(calls) = calls[Len(calls)]
  BY <1>1 DEF Last
<1>6. \A i \in 1..Len(calls) : i \in 1..(Len(calls) - 1) \/ i = Len(calls)
  BY <1>5
<1>. QED
  BY <1>2, <1>4, <1>5, <1>6

-----------------------------------------------------------------------------
(* Every step keeps the types.                                                 *)

\* SQLite's side and what is known of it.
FlagTypes == autocommit \in BOOLEAN /\ rejection \in BOOLEAN
RowTypes ==
  /\ dirty \subseteq Rows /\ landed \subseteq Rows /\ shown \subseteq Rows
  /\ savepoints \in Seq(SUBSET Rows)

\* Losing the transaction keeps the types.
LEMMA DiscardTypes ==
  ASSUME TypeOK, Discard PROVE FlagTypes' /\ RowTypes' /\ Len(savepoints') = 0
<1>1. FlagTypes'
  BY DEF TypeOK, Discard, RollbackForgets, FlagTypes
<1>2. RowTypes'
  BY EmptySeq DEF TypeOK, Discard, RowTypes
<1>. QED
  BY <1>1, <1>2, EmptySeq DEF Discard

\* Committing it keeps the types.
LEMMA CommitTypes ==
  ASSUME TypeOK, CommitLands PROVE FlagTypes' /\ RowTypes' /\ Len(savepoints') = 0
<1>1. FlagTypes'
  BY DEF TypeOK, CommitLands, FlagTypes
<1>2. RowTypes'
  BY EmptySeq DEF TypeOK, CommitLands, RowTypes
<1>. QED
  BY <1>1, <1>2, EmptySeq DEF CommitLands

\* A step that changes nothing keeps the types.
LEMMA NoChangeTypes ==
  ASSUME TypeOK, UNCHANGED <<sqlite, rejection, shown>>
  PROVE  FlagTypes' /\ RowTypes' /\ savepoints' = savepoints
BY DEF TypeOK, FlagTypes, RowTypes, sqlite

\* Writing a row keeps the types.
LEMMA WriteTypes ==
  ASSUME TypeOK, NEW r \in Rows, NEW refused \in BOOLEAN, Write(r, refused)
  PROVE  /\ FlagTypes' /\ RowTypes' /\ wrong' \subseteq Rows
         /\ Len(savepoints') = 0 \/ savepoints' = savepoints
<1>1. wrong' \subseteq Rows
  BY DEF Write, Record, TypeOK
<1>2. CASE WriteAlone(r, refused)
  <2>1. FlagTypes'
    BY <1>2 DEF WriteAlone, TypeOK, FlagTypes
  <2>2. RowTypes' /\ savepoints' = savepoints
    BY <1>2 DEF WriteAlone, TypeOK, RowTypes
  <2>. QED
    BY <1>1, <2>1, <2>2
<1>3. CASE WriteWithin(r, refused)
  <2>1. FlagTypes'
    BY <1>3 DEF WriteWithin, Preupdate, TypeOK, FlagTypes
  <2>2. RowTypes' /\ savepoints' = savepoints
    BY <1>3 DEF WriteWithin, TypeOK, RowTypes
  <2>. QED
    BY <1>1, <2>1, <2>2
<1>4. CASE shown' = shown \cup {r} /\ rejection' = Preupdate(refused) /\ UNCHANGED sqlite
  <2>1. FlagTypes'
    BY <1>4 DEF Preupdate, sqlite, TypeOK, FlagTypes
  <2>2. RowTypes' /\ savepoints' = savepoints
    BY <1>4 DEF sqlite, TypeOK, RowTypes
  <2>. QED
    BY <1>1, <2>1, <2>2
<1>5. CASE Discard
  BY <1>1, <1>5, DiscardTypes
<1>. QED
  BY <1>2, <1>3, <1>4, <1>5 DEF Write, FailWithin

\* The cases of Next, and how they read: a write of a row that is refused or not.
LEMMA NextActions ==
  ASSUME Next
  PROVE  \/ \E r \in Rows, refused \in BOOLEAN : Write(r, refused)
         \/ StartStepping \/ StopStepping \/ Script
         \/ Enter \/ Returns \/ Throws \/ Catch
<1>1. \A v : Rejects(v) \in BOOLEAN
  BY DEF Rejects
<1>2. {Rejects(v) : v \in Verdicts} \subseteq BOOLEAN
  BY <1>1
<1>. QED
  BY <1>2 DEF Next

\* Every step of a call, of its program and of SQLite keeps the types.
LEMMA StepTypeOK == IInv /\ [Next]_vars => TypeOK'
<1>. SUFFICES ASSUME IInv, [Next]_vars PROVE TypeOK'
  OBVIOUS
<1>1. TypeOK /\ SavepointInv
  BY DEF IInv
<1>. DEFINE Bounded == Len(savepoints) <= MaxDepth /\ (uses = {} => Len(savepoints) < MaxDepth)
            Stack == calls \in Seq(Frames) /\ Len(calls) <= MaxDepth
            Marks == stepping \in BOOLEAN /\ masked \in BOOLEAN
            Fixed == wrong \subseteq Rows /\ uses \in Programs
<1>2. SUFFICES FlagTypes' /\ RowTypes' /\ Bounded' /\ Stack' /\ Marks' /\ Fixed'
  BY DEF TypeOK, FlagTypes, RowTypes
<1>3. Stack /\ Marks /\ Fixed /\ Bounded
  BY <1>1 DEF TypeOK
<1>4. ASSUME uses' = uses, Len(savepoints') = 0 \/ savepoints' = savepoints PROVE Bounded'
  BY <1>3, <1>4, BoundsAssumption
<1>5. CASE UNCHANGED vars
  <2>1. FlagTypes' /\ RowTypes' /\ savepoints' = savepoints
    BY <1>1, <1>5, NoChangeTypes DEF vars
  <2>. QED
    BY <1>3, <1>4, <1>5, <2>1 DEF vars
<1>6. ASSUME NEW r \in Rows, NEW refused \in BOOLEAN, Write(r, refused)
      PROVE  FlagTypes' /\ RowTypes' /\ Bounded' /\ Stack' /\ Marks' /\ Fixed'
  <2>1. UNCHANGED <<stepping, calls, masked, uses>>
    BY <1>6 DEF Write
  <2>. QED
    BY <1>1, <1>3, <1>4, <1>6, <2>1, WriteTypes
<1>7. CASE StartStepping \/ StopStepping
  <2>1. UNCHANGED <<sqlite, rejection, shown>> /\ UNCHANGED <<calls, wrong, masked, uses>>
        /\ stepping' \in BOOLEAN
    BY <1>7 DEF StartStepping, StopStepping
  <2>. QED
    BY <1>1, <1>3, <1>4, <2>1, NoChangeTypes
<1>8. CASE Script
  <2>1. UNCHANGED <<stepping, calls, wrong, masked, uses>>
    BY <1>8 DEF Script
  <2>2. CASE CommitLands \/ CommitVetoed \/ Discard
    BY <1>1, <1>3, <1>4, <2>1, <2>2, CommitTypes, DiscardTypes DEF CommitVetoed
  <2>3. CASE autocommit' = FALSE /\ UNCHANGED <<dirty, savepoints, landed, rejection, shown>>
    <3>1. FlagTypes' /\ RowTypes'
      BY <1>1, <2>3 DEF TypeOK, FlagTypes, RowTypes
    <3>. QED
      BY <1>3, <1>4, <2>1, <2>3, <3>1
  <2>. QED
    BY <1>8, <2>2, <2>3 DEF Script
<1>9. CASE Enter
  <2>1. /\ autocommit' = FALSE /\ Len(calls) < MaxDepth /\ Len(savepoints) < MaxDepth
        /\ UNCHANGED <<dirty, landed, stepping, rejection, wrong, shown, masked, uses>>
    BY <1>9 DEF Enter
  <2>2. FlagTypes' /\ RowTypes'
    BY <1>1, <1>9, <2>1, EnterPushes DEF FlagTypes, RowTypes, TypeOK
  <2>3. Stack'
    BY <1>1, <1>3, <1>9, <2>1, EnterPushes, BoundsAssumption
  <2>4. Bounded'
    <3>1. CASE ~inTransaction
      BY <1>1, <1>4, <1>9, <2>1, <3>1, EnterPushes
    <3>2. CASE inTransaction
      <4>1. Len(savepoints') = Len(savepoints) + 1
        BY <1>1, <1>9, <3>2, EnterPushes
      <4>2. ASSUME uses = {} PROVE Len(savepoints) < Len(calls)
        BY <1>1, <1>3, <3>2, <4>2 DEF SavepointInv, Began, TypeOK
      <4>. QED
        BY <1>1, <1>3, <2>1, <4>1, <4>2, BoundsAssumption DEF TypeOK
    <3>. QED
      BY <3>1, <3>2
  <2>. QED
    BY <1>3, <2>1, <2>2, <2>3, <2>4
<1>10. CASE Returns
  <2>1. calls # <<>> /\ calls' = Front(calls) /\ UNCHANGED <<stepping, wrong, masked, uses>>
    BY <1>10 DEF Returns, Running
  <2>2. Stack'
    BY <1>1, <1>3, <2>1, CallEnds, BoundsAssumption
  <2>3. CASE CommitLands
    BY <1>1, <1>3, <1>4, <2>1, <2>2, <2>3, CommitTypes
  <2>4. CASE Release
    <3>1. /\ savepoints # <<>> /\ savepoints' = Front(savepoints)
          /\ UNCHANGED <<autocommit, dirty, landed, rejection, shown>>
      BY <2>4 DEF Release
    <3>2. FlagTypes' /\ RowTypes'
      BY <1>1, <3>1, SavepointEnds DEF FlagTypes, RowTypes, TypeOK
    <3>3. Bounded'
      BY <1>1, <1>3, <2>1, <3>1, SavepointEnds, BoundsAssumption
    <3>. QED
      BY <1>3, <2>1, <2>2, <3>2, <3>3
  <2>. QED
    BY <1>10, <2>3, <2>4 DEF Returns
<1>11. CASE Throws
  <2>1. calls # <<>> /\ Catches /\ UNCHANGED <<stepping, wrong, masked, uses>>
    BY <1>11 DEF Throws, Running
  <2>2. Stack'
    BY <1>1, <1>3, <2>1, CatchesMarks
  <2>3. UNCHANGED <<sqlite, rejection, shown>> \/ Discard
    BY <1>11 DEF Throws, CommitVetoed, CommitFails, ReleaseFails
  <2>. QED
    BY <1>1, <1>3, <1>4, <2>1, <2>2, <2>3, NoChangeTypes, DiscardTypes
<1>12. CASE Catch
  <2>1. calls # <<>> /\ calls' = Front(calls) /\ UNCHANGED <<stepping, wrong, uses>>
    BY <1>12 DEF Catch
  <2>2. Stack'
    BY <1>1, <1>3, <2>1, CallEnds, BoundsAssumption
  <2>3. CASE UndoSkipped \/ UndoOutermost
    <3>1. UNCHANGED masked /\ (UNCHANGED <<sqlite, rejection, shown>> \/ Discard)
      BY <2>3 DEF UndoSkipped, UndoOutermost
    <3>. QED
      BY <1>1, <1>3, <1>4, <2>1, <2>2, <3>1, NoChangeTypes, DiscardTypes
  <2>4. CASE UndoNested
    <3>1. UNCHANGED <<autocommit, landed, rejection, shown>>
      BY <2>4 DEF UndoNested
    <3>2. Marks'
      BY <1>3, <2>1, <2>4 DEF UndoNested
    <3>3. CASE savepoints = <<>>
      <4>1. UNCHANGED <<dirty, savepoints>>
        BY <2>4, <3>3 DEF UndoNested
      <4>2. FlagTypes' /\ RowTypes'
        BY <1>1, <3>1, <4>1 DEF FlagTypes, RowTypes, TypeOK
      <4>. QED
        BY <1>3, <1>4, <2>1, <2>2, <3>2, <4>1, <4>2
    <3>4. CASE savepoints # <<>>
      <4>1. /\ dirty' = Last(savepoints)
            /\ savepoints' = savepoints \/ savepoints' = Front(savepoints)
        BY <2>4, <3>4 DEF UndoNested
      <4>2. FlagTypes' /\ RowTypes'
        BY <1>1, <3>1, <3>4, <4>1, SavepointEnds DEF FlagTypes, RowTypes, TypeOK
      <4>3. Bounded'
        BY <1>1, <1>3, <2>1, <3>4, <4>1, SavepointEnds, BoundsAssumption
      <4>. QED
        BY <1>3, <2>1, <2>2, <3>2, <4>2, <4>3
    <3>. QED
      BY <3>3, <3>4
  <2>. QED
    BY <1>12, <2>3, <2>4 DEF Catch
<1>. QED
  BY <1>5, <1>6, <1>7, <1>8, <1>9, <1>10, <1>11, <1>12, NextActions

-----------------------------------------------------------------------------
(* What any step does to the transaction: one of eight things.                 *)

Untouched == UNCHANGED <<sqlite, rejection, shown, wrong>>
Rest == UNCHANGED <<landed, rejection, shown, wrong>>
Begins == autocommit /\ ~autocommit' /\ UNCHANGED <<dirty, savepoints>> /\ Rest
SetsSavepoint ==
  /\ inTransaction /\ UNCHANGED <<autocommit, dirty>> /\ Rest
  /\ savepoints' \in Seq(SUBSET Rows)
  /\ Len(savepoints') = Len(savepoints) + 1 /\ savepoints'[Len(savepoints')] = dirty
  /\ \A i \in 1..Len(savepoints) : savepoints'[i] = savepoints[i]
Drops ==
  /\ UNCHANGED autocommit /\ Rest
  /\ savepoints # <<>> /\ savepoints' \in {savepoints, Front(savepoints)}
  /\ dirty' \in {dirty, Last(savepoints)}
Discards == Discard /\ UNCHANGED wrong
Lands == CommitLands /\ UNCHANGED wrong

\* What a step can do to the transaction and its savepoints.
LEMMA Effects ==
  ASSUME IInv, [Next]_vars
  PROVE  \/ Untouched \/ Begins \/ SetsSavepoint \/ Drops \/ Discards \/ Lands
         \/ \E r \in Rows, refused \in BOOLEAN : Write(r, refused)
<1>1. TypeOK /\ OverInv
  BY DEF IInv
<1>2. CASE UNCHANGED vars \/ StartStepping \/ StopStepping
  BY <1>2 DEF vars, StartStepping, StopStepping, Untouched
<1>3. CASE Script
  BY <1>3 DEF Script, CommitVetoed, Discards, Lands, Begins, Rest
<1>4. CASE Enter
  <2>1. CASE inTransaction
    BY <1>1, <1>4, <2>1, EnterPushes DEF Enter, SetsSavepoint, Rest, inTransaction, TypeOK
  <2>2. CASE ~inTransaction
    BY <1>1, <1>4, <2>2, EnterPushes DEF Enter, Begins, Rest, inTransaction
  <2>. QED
    BY <2>1, <2>2
<1>5. CASE Returns
  BY <1>5 DEF Returns, Release, Lands, Drops, Rest
<1>6. CASE Throws
  BY <1>6 DEF Throws, CommitVetoed, CommitFails, ReleaseFails, Discards, Untouched
<1>7. CASE Catch
  BY <1>7 DEF Catch, UndoSkipped, UndoOutermost, UndoNested, Discards, Untouched, Drops, Rest, sqlite
<1>. QED
  BY <1>2, <1>3, <1>4, <1>5, <1>6, <1>7, NextActions

\* OverInv is kept.
LEMMA StepOverInv == IInv /\ [Next]_vars => OverInv'
<1>. SUFFICES ASSUME IInv, [Next]_vars PROVE OverInv'
  OBVIOUS
<1>1. OverInv /\ TypeOK
  BY DEF IInv
<1>2. CASE Untouched \/ Begins \/ SetsSavepoint \/ Drops \/ Discards \/ Lands
  BY <1>1, <1>2 DEF OverInv, Untouched, Begins, SetsSavepoint, Drops, Discards, Lands, Rest,
     Discard, CommitLands, sqlite, inTransaction
<1>3. ASSUME NEW r \in Rows, NEW refused \in BOOLEAN, Write(r, refused)
      PROVE  OverInv'
  BY <1>1, <1>3 DEF OverInv, Write, WriteAlone, WriteWithin, FailWithin, Discard, inTransaction, sqlite
<1>. QED
  BY <1>2, <1>3, Effects

\* ShownInv is kept.
LEMMA StepShownInv == IInv /\ [Next]_vars => ShownInv'
<1>. SUFFICES ASSUME IInv, [Next]_vars PROVE ShownInv'
  OBVIOUS
<1>1. OverInv /\ ShownInv /\ TypeOK
  BY DEF IInv
<1>2. CASE Untouched \/ Begins
  BY <1>1, <1>2 DEF ShownInv, Untouched, Begins, Rest, sqlite
<1>3. CASE SetsSavepoint
  BY <1>1, <1>3 DEF ShownInv, SetsSavepoint, Rest, TypeOK
<1>4. CASE Drops
  BY <1>1, <1>4, SavepointEnds DEF ShownInv, Drops, Rest
<1>5. CASE Discards \/ Lands
  BY <1>5, EmptySeq DEF ShownInv, Discards, Lands, Discard, CommitLands
<1>6. ASSUME NEW r \in Rows, NEW refused \in BOOLEAN, Write(r, refused)
      PROVE  ShownInv'
  BY <1>1, <1>6, EmptySeq DEF ShownInv, Write, WriteAlone, WriteWithin, FailWithin, Discard, sqlite
<1>. QED
  BY <1>2, <1>3, <1>4, <1>5, <1>6, Effects

\* ChainInv is kept.
LEMMA StepChainInv == IInv /\ [Next]_vars => ChainInv'
<1>. SUFFICES ASSUME IInv, [Next]_vars PROVE ChainInv'
  OBVIOUS
<1>1. ChainInv /\ TypeOK
  BY DEF IInv
<1>2. CASE Untouched \/ Begins
  BY <1>1, <1>2 DEF ChainInv, Untouched, Begins, Rest, sqlite
<1>3. CASE SetsSavepoint
  BY <1>1, <1>3 DEF ChainInv, SetsSavepoint, Rest, TypeOK
<1>4. CASE Drops
  BY <1>1, <1>4, SavepointEnds DEF ChainInv, Drops, Rest
<1>5. CASE Discards \/ Lands
  BY <1>5, EmptySeq DEF ChainInv, Discards, Lands, Discard, CommitLands
<1>6. ASSUME NEW r \in Rows, NEW refused \in BOOLEAN, Write(r, refused)
      PROVE  ChainInv'
  BY <1>1, <1>6, EmptySeq DEF ChainInv, Write, WriteAlone, WriteWithin, FailWithin, Discard, sqlite
<1>. QED
  BY <1>2, <1>3, <1>4, <1>5, <1>6, Effects

-----------------------------------------------------------------------------
(* The rows: what lands, what is remembered.                                   *)

\* The two invariants about rows, which need each other.
RowsInv == NoRefusedRowLands /\ RemembersThisTransaction

\* A commit goes through only when nothing shown is wrong, and what lands was
\* shown; whatever ends a transaction forgets both the rows and the rejection.
LEMMA StepRowsInv == IInv /\ [Next]_vars => RowsInv'
<1>. SUFFICES ASSUME IInv, [Next]_vars PROVE RowsInv'
  OBVIOUS
<1>1. TypeOK /\ OverInv /\ ShownInv /\ NoRefusedRowLands /\ RemembersThisTransaction
  BY DEF IInv
<1>2. CASE Untouched \/ Begins \/ SetsSavepoint \/ Drops
  BY <1>1, <1>2 DEF RowsInv, NoRefusedRowLands, RemembersThisTransaction, Untouched, Begins,
     SetsSavepoint, Drops, Rest, sqlite
<1>3. CASE Discards
  BY <1>1, <1>3 DEF RowsInv, NoRefusedRowLands, RemembersThisTransaction, Discards, Discard,
     RollbackForgets
<1>4. CASE Lands
  <2>1. shown \cap wrong = {} /\ dirty \subseteq shown
    BY <1>1, <1>4 DEF Lands, CommitLands, Precommit, RemembersThisTransaction, ShownInv
  <2>. QED
    BY <1>1, <1>4, <2>1 DEF RowsInv, NoRefusedRowLands, RemembersThisTransaction, Lands, CommitLands
<1>5. ASSUME NEW r \in Rows, NEW refused \in BOOLEAN, Write(r, refused)
      PROVE  RowsInv'
  <2>1. r \notin landed /\ r \notin wrong /\ r \notin shown
        /\ wrong' = IF refused THEN wrong \cup {r} ELSE wrong
    BY <1>5 DEF Write, Record
  <2>2. CASE WriteAlone(r, refused)
    <3>1. shown = {} /\ ~rejection
      BY <1>1, <2>2 DEF WriteAlone, OverInv, RemembersThisTransaction
    <3>. QED
      BY <1>1, <2>1, <2>2, <3>1 DEF RowsInv, NoRefusedRowLands, RemembersThisTransaction,
         WriteAlone, Precommit, Preupdate
  <2>3. ASSUME shown' = shown \cup {r}, rejection' = Preupdate(refused), landed' = landed
        PROVE  RowsInv'
    BY <1>1, <2>1, <2>3 DEF RowsInv, NoRefusedRowLands, RemembersThisTransaction, Preupdate
  <2>4. CASE Discard
    BY <1>1, <2>1, <2>4 DEF RowsInv, NoRefusedRowLands, RemembersThisTransaction, Discard,
       RollbackForgets
  <2>. QED
    BY <1>5, <2>2, <2>3, <2>4 DEF Write, WriteWithin, FailWithin, sqlite
<1>. QED
  BY <1>2, <1>3, <1>4, <1>5, Effects

-----------------------------------------------------------------------------
(* The stack of calls against the stack of savepoints.                         *)

\* A nested call that ends under the documented use has a savepoint to undo to.
LEMMA NestedHasSavepoint ==
  ASSUME TypeOK, SavepointInv, uses \cap {"iterating", "script"} = {}, inTransaction,
         calls # <<>>, Last(calls).nested
  PROVE  /\ ~stepping /\ savepoints # <<>>
         /\ \E o \in 1..(Len(calls) - 1) : Began(o)
<1>1. PICK o \in 1..Len(calls) : Began(o)
  BY DEF SavepointInv
<1>2. o # Len(calls) /\ ~stepping
  BY <1>1 DEF Began, Last, SavepointInv
<1>3. Len(calls) \in Nat
  BY LastElement DEF TypeOK
<1>4. o \in 1..(Len(calls) - 1) /\ Len(savepoints) # 0
  BY <1>1, <1>2, <1>3 DEF Began
<1>. QED
  BY <1>1, <1>2, <1>4, EmptySeq

\* A call that began the open transaction under the documented use is the
\* innermost one, and there is no savepoint.
LEMMA OutermostIsAlone ==
  ASSUME TypeOK, SavepointInv, uses \cap {"iterating", "script"} = {}, inTransaction,
         calls # <<>>, ~Last(calls).nested
  PROVE  ~stepping /\ savepoints = <<>>
<1>1. PICK o \in 1..Len(calls) : Began(o)
  BY DEF SavepointInv
<1>2. Len(calls) \in Nat \ {0} /\ savepoints \in Seq(SUBSET Rows)
  BY LastElement DEF TypeOK
<1>3. o = Len(calls)
  BY <1>1, <1>2 DEF Began, Last
<1>. QED
  BY <1>1, <1>2, <1>3, EmptySeq DEF Began, SavepointInv

\* The error that a caller sees stays the one its function threw.
LEMMA StepCauseIsKept == IInv /\ [Next]_vars => CauseIsKept'
<1>. SUFFICES ASSUME IInv, [Next]_vars, uses' \cap {"iterating", "script"} = {}
              PROVE  ~masked'
  BY DEF CauseIsKept
<1>0. uses' = uses
  BY NextActions DEF vars, Write, StartStepping, StopStepping, Script, Enter, Returns, Throws, Catch
<1>1. /\ TypeOK /\ SavepointInv /\ ~masked
      /\ uses \cap {"iterating", "script"} = {}
  BY <1>0 DEF IInv, CauseIsKept
<1>2. CASE masked' = masked
  BY <1>1, <1>2
<1>3. CASE Catch
  <2>1. CASE UndoNested
    BY <1>1, <1>3, <2>1, NestedHasSavepoint DEF Catch, UndoNested
  <2>. QED
    BY <1>1, <1>3, <2>1 DEF Catch, UndoSkipped, UndoOutermost
<1>. QED
  BY <1>2, <1>3, NextActions DEF vars, Write, StartStepping, StopStepping, Script, Enter, Returns, Throws

\* Calls and savepoints are pushed and popped together, as long as the program
\* neither begins, commits nor iterates by itself.
LEMMA StepSavepointInv == IInv /\ [Next]_vars => SavepointInv'
<1>. SUFFICES ASSUME IInv, [Next]_vars, uses' \cap {"iterating", "script"} = {}
              PROVE  ~stepping' /\ (inTransaction' => \E o \in 1..Len(calls') : Began(o)')
  BY DEF SavepointInv
<1>0. uses' = uses
  BY NextActions DEF vars, Write, StartStepping, StopStepping, Script, Enter, Returns, Throws, Catch
<1>1. /\ TypeOK /\ SavepointInv /\ ~stepping /\ OverInv
      /\ uses \cap {"iterating", "script"} = {}
      /\ calls \in Seq(Frames) /\ savepoints \in Seq(SUBSET Rows)
      /\ Len(calls) \in Nat /\ Len(savepoints) \in Nat
  BY <1>0 DEF IInv, SavepointInv, TypeOK
<1>2. inTransaction => \E o \in 1..Len(calls) : Began(o)
  BY <1>1 DEF SavepointInv
<1>3. ASSUME stepping' = stepping, calls' = calls,
             ~autocommit' => ~autocommit /\ savepoints' = savepoints
      PROVE  ~stepping' /\ (inTransaction' => \E o \in 1..Len(calls') : Began(o)')
  <2>1. CASE autocommit'
    BY <1>1, <1>3, <2>1 DEF inTransaction
  <2>2. CASE ~autocommit'
    <3>1. savepoints' = savepoints /\ inTransaction
      BY <1>3, <2>2 DEF inTransaction
    <3>2. PICK o \in 1..Len(calls) : Began(o)
      BY <1>2, <3>1
    <3>3. Began(o)'
      BY <1>3, <3>1, <3>2 DEF Began
    <3>. QED
      BY <1>1, <1>3, <3>2, <3>3
  <2>. QED
    BY <2>1, <2>2
<1>4. CASE UNCHANGED vars
  BY <1>3, <1>4 DEF vars, sqlite
<1>5. ASSUME NEW r \in Rows, NEW refused \in BOOLEAN, Write(r, refused)
      PROVE  ~stepping' /\ (inTransaction' => \E o \in 1..Len(calls') : Began(o)')
  <2>1. UNCHANGED <<stepping, calls>>
    BY <1>5 DEF Write
  <2>2. UNCHANGED <<autocommit, savepoints>> \/ (inTransaction /\ autocommit' = TRUE)
    BY <1>5 DEF Write, WriteAlone, WriteWithin, FailWithin, Discard, sqlite
  <2>. QED
    BY <1>1, <1>3, <2>1, <2>2 DEF inTransaction
<1>6. CASE StartStepping \/ StopStepping \/ Script
  BY <1>1, <1>6 DEF StartStepping, StopStepping, Script
<1>7. CASE Enter
  <2>1. /\ calls' \in Seq(Frames) /\ Len(calls') = Len(calls) + 1
        /\ calls'[Len(calls')].nested = inTransaction
        /\ \A i \in 1..Len(calls) : calls'[i] = calls[i]
    BY <1>1, <1>7, EnterPushes
  <2>0. ~stepping'
    BY <1>1, <1>7 DEF Enter
  <2>2. CASE inTransaction
    <3>1. PICK o \in 1..Len(calls) : Began(o)
      BY <1>2, <2>2
    <3>2. Len(savepoints') = Len(savepoints) + 1
      BY <1>1, <1>7, <2>2, EnterPushes
    <3>3. ~calls'[o].nested
      BY <2>1, <3>1 DEF Began
    <3>4. ASSUME NEW j \in (o + 1)..Len(calls') PROVE calls'[j].nested
      <4>1. CASE j = Len(calls')
        BY <2>1, <2>2, <4>1
      <4>2. CASE j # Len(calls')
        <5>1. j \in (o + 1)..Len(calls) /\ j \in 1..Len(calls)
          <6>1. Len(calls) \in Nat /\ Len(calls') = Len(calls) + 1
            BY <1>1, <2>1
          <6>. QED
            BY <3>4, <4>2, <6>1
        <5>. QED
          BY <2>1, <3>1, <5>1 DEF Began
      <4>. QED
        BY <4>1, <4>2
    <3>5. Len(savepoints') = Len(calls') - o /\ o \in 1..Len(calls')
      BY <1>1, <2>1, <3>1, <3>2 DEF Began
    <3>. QED
      BY <2>0, <3>3, <3>4, <3>5 DEF Began
  <2>3. CASE ~inTransaction
    <3>1. Len(savepoints') = 0
      BY <1>1, <1>7, <2>3, EnterPushes, EmptySeq DEF OverInv, inTransaction
    <3>2. Len(calls') \in 1..Len(calls') /\ ~calls'[Len(calls')].nested
      BY <1>1, <2>1, <2>3
    <3>. QED
      BY <1>1, <2>0, <2>1, <3>1, <3>2 DEF Began
  <2>. QED
    BY <2>2, <2>3
<1>8. ASSUME calls # <<>>, calls' = Front(calls), ~stepping',
             autocommit' = autocommit, Last(calls).nested, inTransaction, savepoints' = Front(savepoints)
      PROVE  ~stepping' /\ (inTransaction' => \E o \in 1..Len(calls') : Began(o)')
  <2>1. PICK o \in 1..(Len(calls) - 1) : Began(o)
    BY <1>1, <1>8, NestedHasSavepoint
  <2>2. savepoints # <<>>
    BY <1>1, <1>8, NestedHasSavepoint
  <2>3. Len(savepoints') = Len(savepoints) - 1
    BY <1>1, <1>8, <2>2, SavepointEnds
  <2>4. /\ Len(calls') = Len(calls) - 1
        /\ \A i \in 1..Len(calls') : calls'[i] = calls[i]
    BY <1>1, <1>8, CallEnds
  <2>5. o \in 1..Len(calls') /\ ~calls'[o].nested
    BY <1>1, <2>1, <2>4 DEF Began
  <2>6. ASSUME NEW j \in (o + 1)..Len(calls') PROVE calls'[j].nested
    <3>1. j \in (o + 1)..Len(calls) /\ j \in 1..Len(calls')
      BY <1>1, <2>1, <2>4, <2>6
    <3>. QED
      BY <2>1, <2>4, <3>1 DEF Began
  <2>7. Len(savepoints') = Len(calls') - o
    BY <1>1, <2>1, <2>3, <2>4 DEF Began
  <2>. QED
    BY <1>8, <2>5, <2>6, <2>7 DEF Began
<1>9. CASE Returns
  <2>1. calls # <<>> /\ calls' = Front(calls) /\ ~stepping'
    BY <1>1, <1>9 DEF Returns, Running
  <2>2. CASE ~Last(calls).nested
    BY <1>9, <2>1, <2>2 DEF Returns, CommitLands, inTransaction
  <2>3. CASE Last(calls).nested
    <3>1. autocommit' = autocommit /\ savepoints' = Front(savepoints) /\ inTransaction
      BY <1>1, <1>9, <2>3 DEF Returns, Release, OverInv, inTransaction
    <3>. QED
      BY <1>8, <2>1, <2>3, <3>1
  <2>. QED
    BY <2>2, <2>3
<1>10. CASE Throws
  <2>1. calls # <<>> /\ Catches /\ ~stepping'
    BY <1>1, <1>10 DEF Throws, Running
  <2>2. UNCHANGED sqlite \/ autocommit'
    BY <1>10 DEF Throws, CommitVetoed, CommitFails, ReleaseFails, Discard
  <2>3. CASE autocommit'
    BY <2>1, <2>3 DEF inTransaction
  <2>4. CASE UNCHANGED sqlite /\ ~autocommit'
    <3>1. PICK o \in 1..Len(calls) : Began(o)
      BY <1>2, <2>4 DEF sqlite, inTransaction
    <3>2. Len(calls') = Len(calls) /\ \A i \in 1..Len(calls) : calls'[i].nested = calls[i].nested
      BY <1>1, <2>1, CatchesMarks
    <3>3. Began(o)'
      BY <1>1, <2>4, <3>1, <3>2 DEF Began, sqlite
    <3>. QED
      BY <2>1, <3>1, <3>2, <3>3
  <2>. QED
    BY <2>2, <2>3, <2>4
<1>11. CASE Catch
  <2>1. calls # <<>> /\ calls' = Front(calls) /\ ~stepping'
    BY <1>1, <1>11 DEF Catch
  <2>2. CASE UndoSkipped \/ UndoOutermost
    BY <2>1, <2>2 DEF UndoSkipped, UndoOutermost, Discard, inTransaction, sqlite
  <2>3. CASE UndoNested
    <3>1. inTransaction /\ Last(calls).nested /\ autocommit' = autocommit
      BY <2>3 DEF UndoNested
    <3>2. savepoints # <<>>
      BY <1>1, <2>1, <3>1, NestedHasSavepoint
    <3>3. savepoints' = Front(savepoints)
      BY <1>1, <2>3, <3>2 DEF UndoNested
    <3>. QED
      BY <1>8, <2>1, <3>1, <3>3
  <2>. QED
    BY <1>11, <2>2, <2>3 DEF Catch
<1>. QED
  BY <1>4, <1>5, <1>6, <1>7, <1>9, <1>10, <1>11, NextActions

\* Under the documented use a function that goes on cannot have lost its
\* transaction, so only the first call finds autocommit mode.
LEMMA StepNestingInv == IInv /\ [Next]_vars => NestingInv'
<1>. SUFFICES ASSUME IInv, [Next]_vars, uses' = {}
              PROVE  \A i \in 1..Len(calls') : calls'[i].nested <=> i > 1
  BY DEF NestingInv
<1>0. uses' = uses
  BY NextActions DEF vars, Write, StartStepping, StopStepping, Script, Enter, Returns, Throws, Catch
<1>1. /\ TypeOK /\ calls \in Seq(Frames) /\ Len(calls) \in Nat
      /\ \A i \in 1..Len(calls) : calls[i].nested <=> i > 1
  BY <1>0 DEF IInv, NestingInv, TypeOK
<1>2. CASE calls' = calls
  BY <1>1, <1>2
<1>3. CASE calls # <<>> /\ calls' = Front(calls)
  BY <1>1, <1>3, CallEnds
<1>4. CASE calls # <<>> /\ Catches
  BY <1>1, <1>4, CatchesMarks
<1>5. CASE Enter
  <2>1. /\ Len(calls') = Len(calls) + 1
        /\ calls'[Len(calls')].nested = inTransaction
        /\ \A i \in 1..Len(calls) : calls'[i] = calls[i]
    BY <1>1, <1>5, EnterPushes
  <2>2. inTransaction <=> calls # <<>>
    <3>1. Lost => uses \cap {"catches", "script"} # {}
      BY <1>5 DEF Enter, Free
    <3>2. inTransaction => calls # <<>>
      BY <1>0, EmptySeq DEF IInv, SavepointInv
    <3>. QED
      BY <1>0, <3>1, <3>2 DEF Lost, inTransaction
  <2>3. inTransaction <=> Len(calls') > 1
    BY <1>1, <2>1, <2>2, EmptySeq
  <2>4. \A i \in 1..Len(calls') : i = Len(calls') \/ i \in 1..Len(calls)
    BY <1>1, <2>1
  <2>. QED
    BY <1>1, <2>1, <2>3, <2>4
<1>. QED
  BY <1>2, <1>3, <1>4, <1>5, NextActions DEF vars, Write, StartStepping, StopStepping, Script,
     Returns, Running, Throws, Catch

-----------------------------------------------------------------------------
(* The invariants.                                                             *)

\* The inductive invariant holds on a fresh connection ...
LEMMA InitIInv == Init => IInv
<1>. SUFFICES ASSUME Init PROVE IInv
  OBVIOUS
<1>1. savepoints \in Seq(SUBSET Rows) /\ Len(savepoints) = 0
      /\ calls \in Seq(Frames) /\ Len(calls) = 0
  BY EmptySeq DEF Init
<1>2. dirty \subseteq Rows /\ landed \subseteq Rows /\ wrong \subseteq Rows /\ shown \subseteq Rows
      /\ uses \in Programs
  BY DEF Init
<1>3. autocommit \in BOOLEAN /\ stepping \in BOOLEAN /\ rejection \in BOOLEAN /\ masked \in BOOLEAN
  BY DEF Init
<1>4. TypeOK
  BY <1>1, <1>2, <1>3, BoundsAssumption DEF TypeOK
<1>5. OverInv /\ ShownInv /\ ChainInv /\ NestingInv
  BY <1>1 DEF Init, OverInv, ShownInv, ChainInv, NestingInv
<1>6. SavepointInv /\ NoRefusedRowLands /\ RemembersThisTransaction /\ CauseIsKept
  BY DEF Init, SavepointInv, NoRefusedRowLands, RemembersThisTransaction, CauseIsKept, inTransaction
<1>. QED
  BY <1>4, <1>5, <1>6 DEF IInv

\* ... and always.
LEMMA Inductive == Spec => []IInv
<1>1. IInv /\ [Next]_vars => IInv'
  BY StepTypeOK, StepOverInv, StepShownInv, StepChainInv, StepSavepointInv, StepNestingInv,
     StepRowsInv, StepCauseIsKept DEF IInv, RowsInv
<1>. QED
  BY InitIInv, <1>1, PTL DEF Spec

\* SQLite's transaction, the savepoints and the calls keep their shapes, and the
\* two stacks their bounds.
THEOREM TypeCorrect == Spec => []TypeOK
<1>1. IInv => TypeOK
  BY DEF IInv
<1>. QED
  BY Inductive, <1>1, PTL

\* A row that the validator refuses never lands, in any program whatever
\* (withValidation).
THEOREM NoRefusedRowCorrect == Spec => []NoRefusedRowLands
<1>1. IInv => NoRefusedRowLands
  BY DEF IInv
<1>. QED
  BY Inductive, <1>1, PTL

\* The remembered rejection is that of the open transaction, in any program
\* whatever (withValidation).
THEOREM RemembersCorrect == Spec => []RemembersThisTransaction
<1>1. IInv => RemembersThisTransaction
  BY DEF IInv
<1>. QED
  BY Inductive, <1>1, PTL

\* The clean-up of wrapTransaction does not fail as long as the program leaves
\* BEGIN, COMMIT and ROLLBACK to it and no write half done.
THEOREM CauseCorrect == Spec => []CauseIsKept
<1>1. IInv => CauseIsKept
  BY DEF IInv
<1>. QED
  BY Inductive, <1>1, PTL

-----------------------------------------------------------------------------
(* Calls are atomic: what each call holds, by the stack of savepoints.         *)

\* The rows there were when call i + 1 began, or now.
LevelOf(s, d, i) == IF i = 0 THEN {} ELSE IF i <= Len(s) THEN s[i] ELSE d
Level(i) == LevelOf(savepoints, dirty, i)
Doing == [i \in 1..Len(calls) |-> IF autocommit THEN {} ELSE Held(i)]

\* What a call holds is the difference of two neighbouring levels.
LEMMA Levels ==
  ASSUME NEW s \in Seq(SUBSET Rows), NEW d, NEW i \in 1..(Len(s) + 1)
  PROVE  LET b == <<{}>> \o s
         IN (IF i < Len(b) THEN b[i + 1] ELSE d) \ b[i] = LevelOf(s, d, i) \ LevelOf(s, d, i - 1)
<1>. DEFINE o == <<{}>>
            b == o \o s
<1>1. o \in Seq(SUBSET Rows) /\ Len(o) = 1 /\ o[1] = {} /\ Len(s) \in Nat
  BY LenProperties
<1>. HIDE DEF o
<1>2. /\ Len(b) = Len(s) + 1
      /\ \A j \in 1..(Len(s) + 1) : b[j] = IF j <= 1 THEN o[j] ELSE s[j - 1]
  BY <1>1, ConcatProperties
<1>. HIDE DEF b
<1>3. b[i] = LevelOf(s, d, i - 1)
  BY <1>1, <1>2 DEF LevelOf
<1>4. i < Len(b) => b[i + 1] = LevelOf(s, d, i)
  BY <1>1, <1>2 DEF LevelOf
<1>5. ~(i < Len(b)) => d = LevelOf(s, d, i)
  BY <1>1, <1>2 DEF LevelOf
<1>6. (IF i < Len(b) THEN b[i + 1] ELSE d) \ b[i] = LevelOf(s, d, i) \ LevelOf(s, d, i - 1)
  BY <1>3, <1>4, <1>5
<1>. QED
  BY <1>6 DEF b, o

\* A call holds what was written since its savepoint and before the next.
LEMMA HeldIs ==
  ASSUME TypeOK
  PROVE  \A i \in 1..(Len(savepoints) + 1) : Held(i) = Level(i) \ Level(i - 1)
BY Levels DEF TypeOK, Held, Base, Level

\* The same of the state after a step.
LEMMA HeldIsNext ==
  ASSUME TypeOK'
  PROVE  \A i \in 1..(Len(savepoints') + 1) : Held(i)' = Level(i)' \ Level(i - 1)'
BY Levels DEF TypeOK, Held, Base, Level

\* Under the documented use there is one savepoint less than there are calls.
LEMMA OneSavepointPerCall ==
  IInv /\ uses = {} /\ inTransaction =>
     Len(calls) \in Nat \ {0} /\ Len(savepoints) \in Nat /\ Len(savepoints) + 1 = Len(calls)
<1>. SUFFICES ASSUME IInv, uses = {}, inTransaction
     PROVE Len(calls) \in Nat \ {0} /\ Len(savepoints) \in Nat /\ Len(savepoints) + 1 = Len(calls)
  OBVIOUS
<1>1. PICK o \in 1..Len(calls) : Began(o)
  BY DEF IInv, SavepointInv
<1>2. Len(calls) \in Nat /\ Len(savepoints) \in Nat
  BY LenProperties DEF IInv, TypeOK
<1>3. o = 1
  BY <1>1, <1>2 DEF IInv, NestingInv, Began
<1>. QED
  BY <1>1, <1>2, <1>3 DEF Began

\* Levels grow with the depth.
LEMMA LevelsGrow ==
  ASSUME IInv
  PROVE  /\ \A i \in 1..(Len(savepoints) + 1) : Level(i - 1) \subseteq Level(i)
         /\ \A i \in 0..(Len(savepoints) + 1) : Level(i) \subseteq shown /\ Level(i) \subseteq dirty
<1>1. ChainInv /\ ShownInv /\ Len(savepoints) \in Nat
  BY LenProperties DEF IInv, TypeOK
<1>2. \A i \in 0..(Len(savepoints) + 1) : Level(i) \subseteq shown /\ Level(i) \subseteq dirty
  BY <1>1 DEF ChainInv, ShownInv, Level, LevelOf
<1>3. ASSUME NEW i \in 1..(Len(savepoints) + 1) PROVE Level(i - 1) \subseteq Level(i)
  <2>1. CASE i = 1
    BY <2>1 DEF Level, LevelOf
  <2>2. CASE i = Len(savepoints) + 1
    <3>1. Level(i) = dirty /\ i - 1 \in 0..(Len(savepoints) + 1)
      BY <1>1, <2>2 DEF Level, LevelOf
    <3>. QED
      BY <1>2, <3>1
  <2>3. CASE i # 1 /\ i # Len(savepoints) + 1
    <3>1. i \in 1..Len(savepoints) /\ i - 1 \in 1..i /\ i - 1 \in 1..Len(savepoints)
      BY <1>1, <2>3
    <3>2. Level(i) = savepoints[i] /\ Level(i - 1) = savepoints[i - 1]
      BY <1>1, <3>1 DEF Level, LevelOf
    <3>. QED
      BY <1>1, <3>1, <3>2 DEF ChainInv
  <2>. QED
    BY <2>1, <2>2, <2>3
<1>. QED
  BY <1>2, <1>3

\* The refinement mapping gives each call under way a set of rows.
LEMMA DoingType ==
  IInv /\ uses = {} => Doing \in Seq(SUBSET Rows) /\ Len(Doing) = Len(calls)
<1>. SUFFICES ASSUME IInv, uses = {}
              PROVE  Doing \in Seq(SUBSET Rows) /\ Len(Doing) = Len(calls)
  OBVIOUS
<1>1. Len(calls) \in Nat /\ dirty \subseteq Rows /\ TypeOK
  BY LenProperties DEF IInv, TypeOK
<1>2. ASSUME NEW i \in 1..Len(calls) PROVE Doing[i] \in SUBSET Rows
  <2>1. CASE autocommit
    BY <2>1 DEF Doing
  <2>2. CASE ~autocommit
    <3>1. i \in 1..(Len(savepoints) + 1) /\ i \in 0..(Len(savepoints) + 1)
      BY <1>1, <2>2, OneSavepointPerCall DEF inTransaction
    <3>2. Held(i) \subseteq dirty
      BY <1>1, <3>1, HeldIs, LevelsGrow
    <3>. QED
      BY <1>1, <2>2, <3>2 DEF Doing
  <2>. QED
    BY <2>1, <2>2
<1>3. Doing \in [1..Len(calls) -> SUBSET Rows]
  BY <1>2 DEF Doing
<1>. QED
  BY <1>1, <1>3

\* The same of the state after a step.
LEMMA DoingTypeNext ==
  /\ IInv' /\ (uses = {})' => (Doing \in Seq(SUBSET Rows) /\ Len(Doing) = Len(calls))'
  /\ IInv' /\ (uses = {})' /\ inTransaction' =>
       (Len(calls) \in Nat \ {0} /\ Len(savepoints) \in Nat /\ Len(savepoints) + 1 = Len(calls))'
BY DoingType, OneSavepointPerCall, PTL

\* A lost transaction leaves every call empty-handed.
LEMMA DiscardLoses ==
  ASSUME IInv, uses = {}, inTransaction, autocommit', Len(calls') = Len(calls), calls' # <<>>,
         landed' = landed
  PROVE  Calls!Lose
<1>1. Doing # <<>> /\ Len(Doing) = Len(calls)
  BY DoingType, OneSavepointPerCall, EmptySeq
<1>2. Doing' = [i \in 1..Len(Doing) |-> {}]
  BY <1>1 DEF Doing
<1>3. Lost'
  BY DEF Lost
<1>. QED
  BY <1>1, <1>2, <1>3 DEF Calls!Lose, Calls!Depth, Doing, inTransaction

\* A write is an abstract write, the loss of the transaction, or nothing.
LEMMA WriteIsAtomic ==
  ASSUME IInv, IInv', uses = {}, uses' = {},
         NEW r \in Rows, NEW refused \in BOOLEAN, Write(r, refused)
  PROVE  Calls!Next \/ UNCHANGED Calls!vars
<1>1. TypeOK /\ TypeOK' /\ calls' = calls /\ Free /\ r \notin shown
  BY DEF IInv, Write
<1>2. ~Lost
  BY <1>1 DEF Free
<1>3. CASE WriteAlone(r, refused)
  <2>1. autocommit /\ autocommit' = autocommit /\ landed' \in {landed, landed \cup {r}}
    BY <1>3 DEF WriteAlone
  <2>2. calls = <<>> /\ Doing' = Doing /\ Doing = <<>> /\ Lost' = Lost
    BY <1>1, <1>2, <2>1, EmptySeq, DoingType DEF Lost, Doing
  <2>3. CASE landed' = landed
    BY <2>2, <2>3 DEF Calls!vars, Doing
  <2>4. CASE landed' = landed \cup {r}
    BY <1>2, <2>2, <2>4 DEF Calls!Next, Calls!Do, Doing
  <2>. QED
    BY <2>1, <2>3, <2>4
<1>4. CASE WriteWithin(r, refused)
  <2>1. /\ inTransaction /\ inTransaction' /\ dirty' = dirty \cup {r} /\ landed' = landed
        /\ savepoints' = savepoints /\ ~autocommit /\ ~autocommit'
    BY <1>4 DEF WriteWithin, inTransaction
  <2>0. PICK n \in Nat \ {0} : n = Len(calls)
    BY <2>1, OneSavepointPerCall
  <2>2. n = Len(calls) /\ n = Len(savepoints) + 1 /\ Len(savepoints) \in Nat
    BY <2>0, <2>1, OneSavepointPerCall
  <2>3. \A i \in 1..n : /\ Doing[i] = Level(i) \ Level(i - 1)
                        /\ Doing'[i] = Level(i)' \ Level(i - 1)'
    BY <1>1, <2>1, <2>2, HeldIs, HeldIsNext DEF Doing
  <2>4. \A i \in 0..(n - 1) : Level(i)' = Level(i)
    BY <2>1, <2>2 DEF Level, LevelOf
  <2>5. Level(n) = dirty /\ Level(n)' = dirty \cup {r}
    BY <2>1, <2>2 DEF Level, LevelOf
  <2>6. r \notin Level(n - 1)
    BY <1>1, <2>2, LevelsGrow
  <2>7. Doing \in Seq(SUBSET Rows) /\ Len(Doing) = n /\ Doing # <<>>
    BY <2>2, DoingType, EmptySeq
  <2>8. Doing' \in Seq(SUBSET Rows) /\ Len(Doing') = n
    BY <1>1, <2>0, DoingTypeNext
  <2>9. Doing[n] \cup {r} \in SUBSET Rows /\ n \in 1..n
    BY <2>2, <2>7, ElementOfSeq
  <2>10. [Doing EXCEPT ![n] = Doing[n] \cup {r}] \in Seq(SUBSET Rows)
         /\ Len([Doing EXCEPT ![n] = Doing[n] \cup {r}]) = n
         /\ \A i \in 1..n : [Doing EXCEPT ![n] = Doing[n] \cup {r}][i]
                               = IF i = n THEN Doing[n] \cup {r} ELSE Doing[i]
    BY <2>7, <2>9, ExceptSeq
  <2>11. ASSUME NEW i \in 1..n
         PROVE  Doing'[i] = [Doing EXCEPT ![n] = Doing[n] \cup {r}][i]
    <3>1. CASE i = n
      <4>1. n - 1 \in 0..(n - 1)
        BY <2>2
      <4>2. Doing'[n] = (dirty \cup {r}) \ Level(n - 1) /\ Doing[n] = dirty \ Level(n - 1)
        BY <2>3, <2>4, <2>5, <2>9, <4>1
      <4>. QED
        BY <2>6, <2>10, <3>1, <4>2
    <3>2. CASE i # n
      <4>1. i \in 0..(n - 1) /\ i - 1 \in 0..(n - 1)
        BY <2>2, <3>2
      <4>. QED
        BY <2>3, <2>4, <2>10, <3>2, <4>1
    <3>. QED
      BY <3>1, <3>2
  <2>12. Doing' = [Doing EXCEPT ![n] = Doing[n] \cup {r}]
    BY <2>8, <2>10, <2>11, SeqEqual
  <2>13. Lost' = Lost
    BY <1>1, <2>1 DEF Lost
  <2>14. /\ Doing # <<>> /\ landed' = landed /\ ~Lost /\ Lost' = Lost
         /\ Doing' = [Doing EXCEPT ![Len(Doing)] = Doing[Len(Doing)] \cup {r}]
    BY <1>2, <2>1, <2>7, <2>12, <2>13
  <2>. QED
    BY <2>14 DEF Calls!Next, Calls!Do, Calls!Depth, Doing
<1>5. CASE FailWithin(r, refused)
  <2>1. CASE Discard
    <3>1. inTransaction /\ autocommit' /\ landed' = landed
      BY <1>5, <2>1 DEF FailWithin, Discard
    <3>. QED
      BY <1>1, <3>1, DiscardLoses, OneSavepointPerCall, EmptySeq DEF Calls!Next
  <2>2. CASE UNCHANGED sqlite
    <3>1. Doing' = Doing /\ Lost' = Lost /\ landed' = landed
      BY <1>1, <2>2 DEF Doing, Lost, sqlite, Held, Base
    <3>. QED
      BY <3>1 DEF Calls!vars, Doing
  <2>. QED
    BY <1>5, <2>1, <2>2 DEF FailWithin
<1>. QED
  BY <1>3, <1>4, <1>5 DEF Write

\* Two states without a lost transaction agree about it.
LEMMA StillNotLost ==
  ASSUME ~Lost, ~Lost' PROVE Lost' = Lost
BY DEF Lost

\* What Throw says of `doomed`, said with an equivalence.
LEMMA LostAfter ==
  ASSUME NEW n \in Nat, Lost' <=> Lost /\ n > 1 PROVE Lost' = (Lost /\ n > 1)
BY DEF Lost

\* A call begins holding nothing.
LEMMA EnterIsAtomic ==
  ASSUME IInv, IInv', uses = {}, uses' = {}, Enter
  PROVE  Calls!Call
<1>1. TypeOK /\ TypeOK' /\ Len(calls) \in Nat /\ Free
  BY LenProperties DEF IInv, TypeOK, Enter
<1>2. ~Lost /\ (inTransaction <=> calls # <<>>)
  <2>1. ~Lost
    BY <1>1 DEF Free
  <2>2. inTransaction => calls # <<>>
    BY OneSavepointPerCall, EmptySeq
  <2>. QED
    BY <2>1, <2>2 DEF Lost, inTransaction
<1>3. PICK n \in Nat : n = Len(calls)
  BY <1>1
<1>4. /\ Len(calls') = n + 1 /\ inTransaction' /\ ~autocommit' /\ dirty' = dirty /\ landed' = landed
      /\ ~Lost'
  BY <1>1, <1>3, EnterPushes DEF Enter, inTransaction, Lost
<1>5. Len(savepoints') = n
  BY <1>4, DoingTypeNext
<1>6. /\ Doing \in Seq(SUBSET Rows) /\ Len(Doing) = n
      /\ Doing' \in Seq(SUBSET Rows) /\ Len(Doing') = n + 1
  BY <1>3, <1>4, DoingType, DoingTypeNext
<1>7. /\ Append(Doing, {}) \in Seq(SUBSET Rows) /\ Len(Append(Doing, {})) = n + 1
      /\ Append(Doing, {})[n + 1] = {}
      /\ \A i \in 1..n : Append(Doing, {})[i] = Doing[i]
  BY <1>6, AppendProperties
<1>8. \A i \in 1..(n + 1) : Doing'[i] = Level(i)' \ Level(i - 1)'
  BY <1>1, <1>4, <1>5, HeldIsNext DEF Doing
<1>9. ASSUME NEW i \in 1..(n + 1) PROVE Doing'[i] = Append(Doing, {})[i]
  <2>1. CASE inTransaction
    <3>1. /\ Len(savepoints) + 1 = n /\ Len(savepoints) \in Nat /\ savepoints'[n] = dirty
          /\ \A j \in 1..(n - 1) : savepoints'[j] = savepoints[j]
      BY <1>1, <1>3, <1>5, <2>1, OneSavepointPerCall, EnterPushes
    <3>2. \A j \in 0..n : Level(j)' = Level(j)
      BY <1>5, <3>1 DEF Level, LevelOf
    <3>3. Level(n + 1)' = dirty /\ Level(n)' = dirty
      BY <1>4, <1>5, <3>1 DEF Level, LevelOf
    <3>4. \A j \in 1..n : Doing[j] = Level(j) \ Level(j - 1)
      BY <1>1, <1>3, <2>1, <3>1, HeldIs DEF Doing, inTransaction
    <3>5. CASE i = n + 1
      <4>1. Doing'[n + 1] = Level(n + 1)' \ Level(n)'
        <5>1. n + 1 \in 1..(n + 1) /\ (n + 1) - 1 = n
          OBVIOUS
        <5>2. Doing'[n + 1] = Level(n + 1)' \ Level((n + 1) - 1)'
          BY <1>8, <5>1
        <5>. QED
          BY <5>1, <5>2
      <4>. QED
        BY <1>7, <3>3, <3>5, <4>1
    <3>6. CASE i # n + 1
      <4>1. i \in 1..n /\ i \in 0..n /\ i - 1 \in 0..n
        BY <3>6
      <4>. QED
        BY <1>7, <1>8, <3>2, <3>4, <4>1
    <3>. QED
      BY <3>5, <3>6
  <2>2. CASE ~inTransaction
    <3>1. n = 0 /\ dirty = {} /\ i = 1
      BY <1>2, <1>3, <2>2, EmptySeq DEF IInv, OverInv, inTransaction
    <3>2. Level(1)' = {} /\ Level(0)' = {}
      BY <1>4, <1>5, <3>1 DEF Level, LevelOf
    <3>3. Doing'[1] = Level(1)' \ Level(0)'
      <4>1. 1 \in 1..(n + 1) /\ 1 - 1 = 0
        BY <3>1
      <4>2. Doing'[1] = Level(1)' \ Level(1 - 1)'
        BY <1>8, <4>1
      <4>. QED
        BY <4>1, <4>2
    <3>. QED
      BY <1>7, <3>1, <3>2, <3>3
  <2>. QED
    BY <2>1, <2>2
<1>10. Doing' = Append(Doing, {})
  BY <1>6, <1>7, <1>9, SeqEqual
<1>11. UNCHANGED <<landed, Lost>>
  BY <1>2, <1>4, StillNotLost
<1>. QED
  BY <1>2, <1>10, <1>11 DEF Calls!Call, Doing

\* A call that returns hands what it holds to the one around it, or lands it.
LEMMA ReturnIsAtomic ==
  ASSUME IInv, IInv', uses = {}, uses' = {}, Returns
  PROVE  Calls!Return
<1>1. /\ TypeOK /\ TypeOK' /\ SavepointInv /\ calls # <<>> /\ calls' = Front(calls)
      /\ calls \in Seq(Frames) /\ savepoints \in Seq(SUBSET Rows)
  BY DEF IInv, TypeOK, Returns, Running
<1>2. PICK n \in Nat \ {0} : n = Len(calls)
  BY <1>1, EmptySeq
<1>3. Last(calls).nested <=> n > 1
  BY <1>2 DEF IInv, NestingInv, Last
<1>4. Len(calls') = n - 1 /\ Doing \in Seq(SUBSET Rows) /\ Len(Doing) = n /\ Doing # <<>>
  BY <1>1, <1>2, CallEnds, DoingType, EmptySeq
<1>5. CASE n = 1
  <2>1. /\ inTransaction /\ landed' = landed \cup dirty /\ autocommit' /\ ~autocommit /\ ~Lost
    BY <1>3, <1>5 DEF Returns, CommitLands, inTransaction, Lost
  <2>2. Len(savepoints) = 0
    BY <1>2, <1>5, <2>1, OneSavepointPerCall
  <2>3. Held(1) = dirty
    <3>1. 1 \in 1..(Len(savepoints) + 1) /\ 1 - 1 = 0
      BY <2>2
    <3>2. Held(1) = Level(1) \ Level(1 - 1)
      BY <1>1, <3>1, HeldIs
    <3>3. Level(1) = dirty /\ Level(0) = {}
      BY <2>2 DEF Level, LevelOf
    <3>. QED
      BY <3>1, <3>2, <3>3
  <2>4. Doing[1] = dirty
    BY <1>2, <2>1, <2>3 DEF Doing
  <2>5. calls' = <<>> /\ Doing' = <<>> /\ ~Lost'
    <3>1. calls' = <<>>
      BY <1>1, <1>2, <1>4, <1>5, CallEnds, EmptySeq
    <3>2. Len(Doing') = 0 /\ Doing' \in Seq(SUBSET Rows)
      BY <1>4, <1>5, DoingTypeNext
    <3>. QED
      BY <3>1, <3>2, EmptySeq DEF Lost
  <2>6. /\ Doing # <<>> /\ ~Lost /\ Lost' = Lost /\ Len(Doing) = 1
        /\ landed' = landed \cup Doing[1] /\ Doing' = <<>>
    BY <1>4, <1>5, <2>1, <2>4, <2>5, StillNotLost
  <2>. QED
    BY <2>6 DEF Calls!Return, Calls!Depth, Doing
<1>6. CASE n # 1
  <2>1. /\ savepoints # <<>> /\ savepoints' = Front(savepoints)
        /\ autocommit' = autocommit /\ dirty' = dirty /\ landed' = landed
    BY <1>3, <1>6 DEF Returns, Release
  <2>2. inTransaction /\ inTransaction' /\ ~autocommit /\ ~autocommit'
    BY <2>1 DEF IInv, OverInv, inTransaction
  <2>3. Len(savepoints) = n - 1 /\ Len(savepoints') = n - 2
    BY <1>2, <1>4, <2>2, OneSavepointPerCall, DoingTypeNext
  <2>4. \A i \in 1..(n - 2) : savepoints'[i] = savepoints[i]
    BY <1>1, <2>1, <2>3, SavepointEnds
  <2>5. \A i \in 1..n : Doing[i] = Level(i) \ Level(i - 1)
    BY <1>1, <1>2, <2>2, <2>3, HeldIs DEF Doing
  <2>6. \A i \in 1..(n - 1) : Doing'[i] = Level(i)' \ Level(i - 1)'
    BY <1>1, <1>4, <2>2, <2>3, HeldIsNext DEF Doing
  <2>7. \A i \in 0..(n - 2) : Level(i)' = Level(i)
    BY <2>3, <2>4 DEF Level, LevelOf
  <2>8. Level(n - 1)' = dirty /\ Level(n) = dirty
    BY <1>6, <2>1, <2>3 DEF Level, LevelOf
  <2>9. Level(n - 2) \subseteq Level(n - 1) /\ Level(n - 1) \subseteq Level(n)
    <3>1. n - 1 \in 1..(Len(savepoints) + 1) /\ n \in 1..(Len(savepoints) + 1)
          /\ (n - 1) - 1 = n - 2
      BY <1>6, <2>3
    <3>2. Level((n - 1) - 1) \subseteq Level(n - 1)
      BY <3>1, LevelsGrow
    <3>. QED
      BY <3>1, <3>2, LevelsGrow
  <2>. DEFINE join == [i \in 1..(n - 1) |-> IF i = n - 1 THEN Doing[i] \cup Doing[n] ELSE Doing[i]]
  <2>10. \A i \in 1..(n - 1) : Doing'[i] = join[i]
    <3>1. ASSUME NEW i \in 1..(n - 1), i # n - 1 PROVE Doing'[i] = Doing[i]
      <4>1. i \in 0..(n - 2) /\ i - 1 \in 0..(n - 2) /\ i \in 1..n
        BY <3>1
      <4>. QED
        BY <2>5, <2>6, <2>7, <4>1
    <3>2. Doing'[n - 1] = Doing[n - 1] \cup Doing[n]
      <4>1. n - 1 \in 1..(n - 1) /\ n - 1 \in 1..n /\ n \in 1..n /\ (n - 1) - 1 = n - 2
            /\ n - 2 \in 0..(n - 2)
        BY <1>6
      <4>2. Doing'[n - 1] = Level(n - 1)' \ Level((n - 1) - 1)'
        BY <2>6, <4>1
      <4>3. Level((n - 1) - 1)' = Level(n - 2)
        BY <2>7, <4>1
      <4>4. Doing[n - 1] = Level(n - 1) \ Level((n - 1) - 1) /\ Doing[n] = Level(n) \ Level(n - 1)
        BY <2>5, <4>1
      <4>5. Level((n - 1) - 1) = Level(n - 2)
        BY <4>1
      <4>. QED
        BY <2>8, <2>9, <4>2, <4>3, <4>4, <4>5
    <3>. QED
      BY <3>1, <3>2
  <2>11. Doing' = join
    BY <1>4, <2>10 DEF Doing
  <2>12. ~Lost /\ ~Lost'
    BY <2>2 DEF Lost
  <2>13. /\ Doing # <<>> /\ ~Lost /\ Lost' = Lost /\ Len(Doing) # 1 /\ landed' = landed
         /\ Doing' = [i \in 1..(Len(Doing) - 1) |->
                        IF i = Len(Doing) - 1 THEN Doing[i] \cup Doing[Len(Doing)] ELSE Doing[i]]
    BY <1>4, <1>6, <2>1, <2>11, <2>12, StillNotLost
  <2>. QED
    BY <2>13 DEF Calls!Return, Calls!Depth, Doing
<1>. QED
  BY <1>5, <1>6

\* A function that throws changes nothing yet, unless its COMMIT lost everything.
LEMMA ThrowsIsAtomic ==
  ASSUME IInv, IInv', uses = {}, uses' = {}, Throws
  PROVE  Calls!Lose \/ UNCHANGED Calls!vars
<1>1. TypeOK /\ calls # <<>> /\ Catches
  BY DEF IInv, Throws, Running
<1>2. Len(calls') = Len(calls) /\ calls' # <<>>
  BY <1>1, CatchesMarks
<1>3. CASE UNCHANGED sqlite
  <2>1. Doing' = Doing /\ Lost' = Lost /\ landed' = landed
    BY <1>1, <1>2, <1>3 DEF Doing, Lost, sqlite, Held, Base
  <2>. QED
    BY <2>1 DEF Calls!vars, Doing
<1>4. CASE inTransaction /\ Discard
  BY <1>2, <1>4, DiscardLoses DEF Discard
<1>. QED
  BY <1>3, <1>4 DEF Throws, CommitVetoed, CommitFails, ReleaseFails

\* The catch block drops what the call holds and nothing else.
LEMMA CatchIsAtomic ==
  ASSUME IInv, IInv', uses = {}, uses' = {}, Catch
  PROVE  Calls!Throw
<1>1. /\ TypeOK /\ TypeOK' /\ SavepointInv /\ calls # <<>> /\ calls' = Front(calls)
      /\ savepoints \in Seq(SUBSET Rows)
  BY DEF IInv, TypeOK, Catch
<1>2. PICK n \in Nat \ {0} : n = Len(calls)
  BY <1>1, CallEnds
<1>3. Last(calls).nested <=> n > 1
  BY <1>2 DEF IInv, NestingInv, Last
<1>4. /\ Len(calls') = n - 1 /\ Doing \in Seq(SUBSET Rows) /\ Len(Doing) = n /\ Doing # <<>>
      /\ Doing' \in Seq(SUBSET Rows) /\ Len(Doing') = n - 1
  BY <1>1, <1>2, CallEnds, DoingType, DoingTypeNext, EmptySeq
<1>5. /\ SubSeq(Doing, 1, n - 1) \in Seq(SUBSET Rows) /\ Len(SubSeq(Doing, 1, n - 1)) = n - 1
      /\ \A i \in 1..(n - 1) : SubSeq(Doing, 1, n - 1)[i] = Doing[i]
  BY <1>4, DropLast
<1>6. calls' = <<>> <=> n = 1
  <2>1. calls' \in Seq(Frames)
    BY <1>1, CallEnds
  <2>2. calls' = <<>> <=> Len(calls') = 0
    BY <2>1, EmptySeq
  <2>. QED
    BY <1>2, <1>4, <2>2
<1>7. ASSUME \A i \in 1..(n - 1) : Doing'[i] = Doing[i], landed' = landed,
             Lost' = (Lost /\ n > 1)
      PROVE  Calls!Throw
  <2>1. Doing' = SubSeq(Doing, 1, n - 1)
    BY <1>4, <1>5, <1>7, SeqEqual
  <2>2. /\ Doing # <<>> /\ Doing' = SubSeq(Doing, 1, Len(Doing) - 1)
        /\ Lost' = (Lost /\ Len(Doing) > 1) /\ landed' = landed
    BY <1>4, <1>7, <2>1
  <2>. QED
    BY <2>2 DEF Calls!Throw, Calls!Depth, Doing
<1>8. CASE UndoSkipped
  <2>1. autocommit /\ autocommit' = autocommit /\ landed' = landed
    BY <1>8 DEF UndoSkipped, sqlite
  <2>2. \A i \in 1..(n - 1) : Doing'[i] = Doing[i]
    BY <1>2, <1>4, <2>1 DEF Doing
  <2>3. Lost' = (Lost /\ n > 1)
    <3>1. Lost /\ (Lost' <=> n > 1)
      BY <1>1, <1>2, <1>6, <2>1 DEF Lost
    <3>. QED
      BY <1>2, <3>1, LostAfter
  <2>. QED
    BY <1>7, <2>1, <2>2, <2>3
<1>9. CASE UndoOutermost
  <2>1. n = 1 /\ landed' = landed /\ ~Lost /\ ~Lost'
    BY <1>2, <1>3, <1>6, <1>9 DEF UndoOutermost, Discard, Lost, inTransaction
  <2>2. Lost' = (Lost /\ n > 1)
    BY <2>1, LostAfter
  <2>. QED
    BY <1>7, <2>1, <2>2
<1>10. CASE UndoNested
  <2>1. /\ inTransaction /\ ~autocommit /\ ~autocommit' /\ landed' = landed /\ n > 1
        /\ Last(calls).nested
    BY <1>3, <1>10 DEF UndoNested, inTransaction
  <2>2. ~stepping /\ savepoints # <<>>
    BY <1>1, <2>1, NestedHasSavepoint
  <2>3. dirty' = Last(savepoints) /\ savepoints' = Front(savepoints)
    BY <1>10, <2>2 DEF UndoNested
  <2>4. Len(savepoints) = n - 1 /\ Len(savepoints') = n - 2
    BY <1>1, <1>2, <2>1, <2>2, <2>3, OneSavepointPerCall, SavepointEnds
  <2>5. /\ \A i \in 1..(n - 2) : savepoints'[i] = savepoints[i]
        /\ dirty' = savepoints[n - 1]
    BY <1>1, <2>2, <2>3, <2>4, SavepointEnds
  <2>6. \A i \in 0..(n - 1) : Level(i)' = Level(i)
    BY <2>1, <2>4, <2>5 DEF Level, LevelOf
  <2>7. \A i \in 1..n : Doing[i] = Level(i) \ Level(i - 1)
    BY <1>1, <1>2, <2>1, <2>4, HeldIs DEF Doing
  <2>8. \A i \in 1..(n - 1) : Doing'[i] = Level(i)' \ Level(i - 1)'
    BY <1>1, <1>4, <2>1, <2>4, HeldIsNext DEF Doing
  <2>9. \A i \in 1..(n - 1) : Doing'[i] = Doing[i]
    <3>1. ASSUME NEW i \in 1..(n - 1) PROVE Doing'[i] = Doing[i]
      <4>1. i \in 0..(n - 1) /\ i - 1 \in 0..(n - 1) /\ i \in 1..n
        OBVIOUS
      <4>. QED
        BY <2>6, <2>7, <2>8, <4>1
    <3>. QED
      BY <3>1
  <2>10. Lost' = (Lost /\ n > 1)
    BY <2>1 DEF Lost
  <2>. QED
    BY <1>7, <2>1, <2>9, <2>10
<1>. QED
  BY <1>8, <1>9, <1>10 DEF Catch

\* Under the documented use every step is one of the abstract calls, or none.
LEMMA StepIsAtomic ==
  IInv /\ IInv' /\ [Next]_vars => (uses = {} => Calls!Next \/ UNCHANGED Calls!vars)
<1>. SUFFICES ASSUME IInv, IInv', [Next]_vars, uses = {}
              PROVE  Calls!Next \/ UNCHANGED Calls!vars
  OBVIOUS
<1>0. uses' = {}
  BY NextActions DEF vars, Write, StartStepping, StopStepping, Script, Enter, Returns, Throws, Catch
<1>1. ~stepping
  BY DEF IInv, SavepointInv
<1>2. CASE UNCHANGED vars
  BY <1>2 DEF vars, sqlite, Calls!vars, Lost, Held, Base
<1>3. CASE StartStepping \/ StopStepping \/ Script
  BY <1>1, <1>3 DEF StartStepping, StopStepping, Script
<1>4. ASSUME NEW r \in Rows, NEW refused \in BOOLEAN, Write(r, refused)
      PROVE  Calls!Next \/ UNCHANGED Calls!vars
  BY <1>0, <1>4, WriteIsAtomic
<1>5. CASE Enter
  BY <1>0, <1>5, EnterIsAtomic DEF Calls!Next
<1>6. CASE Returns
  BY <1>0, <1>6, ReturnIsAtomic DEF Calls!Next
<1>7. CASE Throws
  BY <1>0, <1>7, ThrowsIsAtomic DEF Calls!Next
<1>8. CASE Catch
  BY <1>0, <1>8, CatchIsAtomic DEF Calls!Next
<1>. QED
  BY <1>2, <1>3, <1>4, <1>5, <1>6, <1>7, <1>8, NextActions

\* Transaction functions implement the atomic calls of AtomicCalls, at every
\* depth, for every set of rows and in every program that uses them as
\* documented (wrapTransaction).
THEOREM AtomicCorrect == Spec => CallsAreAtomic
<1>1. Init => Calls!Init
  <2>1. ASSUME Init PROVE calls = <<>> /\ Len(calls) = 0 /\ ~Lost /\ landed = {}
    BY <2>1, EmptySeq DEF Init, Lost
  <2>2. ASSUME Init PROVE [i \in 1..Len(calls) |-> IF autocommit THEN {} ELSE Held(i)] = <<>>
    BY <2>1, <2>2
  <2>3. ASSUME Init PROVE Lost = FALSE
    BY <2>3 DEF Init, Lost
  <2>. QED
    BY <2>1, <2>2, <2>3 DEF Calls!Init
<1>2. IInv /\ IInv' /\ [Next]_vars => [uses = {} => Calls!Next \/ UNCHANGED Calls!vars]_vars
  BY StepIsAtomic
<1>. QED
  BY Inductive, <1>1, <1>2, PTL DEF Spec, CallsAreAtomic

=============================================================================
