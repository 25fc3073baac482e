--------------------------- MODULE TxEventsProofs ---------------------------
(***************************************************************************)
(* Proofs about TxEvents for every number of listeners, every retention    *)
(* limit, every regime and every bound.                                    *)
(***************************************************************************)
EXTENDS TxEvents, SequenceTheorems, TLAPS

-----------------------------------------------------------------------------
(* Facts about sequences, in the shapes the actions use them.              *)

\* Removing the last element: the end of a call, or a batch withdrawn.
LEMMA DropLast ==
  ASSUME NEW S, NEW s \in Seq(S), s # <<>>
  PROVE  LET r == SubSeq(s, 1, Len(s) - 1)
         IN /\ r \in Seq(S)
            /\ Len(r) = Len(s) - 1
            /\ \A i \in 1..Len(r) : r[i] = s[i]
<1>1. Len(s) \in Nat \ {0}
  BY EmptySeq
<1>2. PICK m \in Nat : Len(s) - 1 = m
  BY <1>1
<1>3. \A i \in 1..m : s[i] \in S
  BY <1>1, <1>2, ElementOfSeq
<1>4. SubSeq(s, 1, m) \in Seq(S) /\ Len(SubSeq(s, 1, m)) = m /\ \A i \in 1..m : SubSeq(s, 1, m)[i] = s[i]
  BY <1>3, SubSeqProperties
<1>. QED
  BY <1>2, <1>4

\* Replacing the last element: a step of the innermost call.
LEMMA ReplaceLast ==
  ASSUME NEW S, NEW s \in Seq(S), s # <<>>, NEW x \in S
  PROVE  LET r == [s EXCEPT ![Len(s)] = x]
         IN /\ r \in Seq(S)
            /\ Len(r) = Len(s)
            /\ r[Len(s)] = x
            /\ \A i \in 1..(Len(s) - 1) : r[i] = s[i]
            /\ r # <<>>
<1>1. Len(s) \in Nat /\ Len(s) # 0 /\ s[Len(s)] \in S
  BY LenProperties, EmptySeq, ElementOfSeq
<1>2. QED
  BY <1>1, ExceptSeq, LenProperties, EmptySeq

\* The last element of a sequence that has one.
LEMMA LastElement ==
  ASSUME NEW S, NEW s \in Seq(S), s # <<>>
  PROVE  Len(s) \in Nat \ {0} /\ s[Len(s)] \in S /\ Len(s) \in 1..Len(s)
BY ElementOfSeq, EmptySeq, LenProperties

\* What is in a log once something is appended to it.
LEMMA RangeOfAppend ==
  ASSUME NEW S, NEW s \in Seq(S), NEW x \in S
  PROVE  Range(Append(s, x)) = Range(s) \union {x}
<1>1. /\ DOMAIN s = 1..Len(s)
      /\ DOMAIN Append(s, x) = 1..(Len(s) + 1)
      /\ \A i \in 1..Len(s) : Append(s, x)[i] = s[i]
      /\ Append(s, x)[Len(s) + 1] = x
      /\ Len(s) \in Nat
  BY AppendProperties, LenProperties
<1>2. QED
  BY <1>1 DEF Range

-----------------------------------------------------------------------------
(* The shapes of state the actions build.                                  *)

\* The innermost frame is a frame.
LEMMA TopIsAFrame ==
  ASSUME TypeOK, stack # <<>>
  PROVE  Top \in Frames /\ Len(stack) \in Nat \ {0}
BY ElementOfSeq, EmptySeq DEF TypeOK, Top

\* What batch() would return now is a batch of the open transaction.
LEMMA BatchIsABatch ==
  ASSUME TypeOK, txid \in TxIds
  PROVE  Batch \in Batches /\ Batch.of = txid
BY DEF TypeOK, Batch, Batches, Coverage, Coverages

\* What the actions change in a frame leaves it a frame.
LEMMA FrameChanges ==
  ASSUME NEW f \in Frames
  PROVE  /\ [f EXCEPT !.phase = "drain"] \in Frames
         /\ [f EXCEPT !.running = TRUE] \in Frames
         /\ \A b \in Batches : [f EXCEPT !.ev = b, !.at = 1] \in Frames
         /\ [f EXCEPT !.running = FALSE, !.at = @ + 1] \in Frames
<1>. HIDE DEF Batches
<1>1. [f EXCEPT !.phase = "drain"] \in Frames
  BY DEF Frames
<1>2. [f EXCEPT !.running = TRUE] \in Frames
  BY DEF Frames
<1>3. ASSUME NEW b \in Batches
      PROVE  [f EXCEPT !.ev = b, !.at = 1] \in Frames
  <2>. DEFINE g == [f EXCEPT !.ev = b]
  <2>1. g \in Frames
    BY <1>3 DEF Frames
  <2>2. [f EXCEPT !.ev = b, !.at = 1] = [g EXCEPT !.at = 1]
    OBVIOUS
  <2>. HIDE DEF g
  <2>3. [g EXCEPT !.at = 1] \in Frames
    BY <2>1 DEF Frames
  <2>. QED
    BY <2>2, <2>3
<1>4. [f EXCEPT !.running = FALSE, !.at = @ + 1] \in Frames
  <2>. DEFINE g == [f EXCEPT !.running = FALSE]
  <2>1. g \in Frames /\ f.at \in Nat
    BY DEF Frames
  <2>2. [f EXCEPT !.running = FALSE, !.at = @ + 1] = [g EXCEPT !.at = f.at + 1]
    OBVIOUS
  <2>. HIDE DEF g
  <2>3. [g EXCEPT !.at = f.at + 1] \in Frames
    BY <2>1 DEF Frames
  <2>. QED
    BY <2>2, <2>3
<1>. QED
  BY <1>1, <1>2, <1>3, <1>4

\* Push, Pop and SetTop, with what they leave alone.
LEMMA PushKeeps ==
  ASSUME TypeOK, NEW kind \in {"call", "transaction", "close"},
         NEW phase \in {"sql", "drain"}, Push(kind, phase)
  PROVE  /\ stack' \in Seq(Frames)
         /\ Len(stack') = Len(stack) + 1
         /\ \A i \in 1..Len(stack) : stack'[i] = stack[i]
         /\ stack'[Len(stack')] =
              [kind |-> kind, phase |-> phase, ev |-> NoBatch,
               at |-> N + 1, running |-> FALSE, base |-> depth]
         /\ stack' # <<>>
<1>. DEFINE f == [kind |-> kind, phase |-> phase, ev |-> NoBatch,
                  at |-> N + 1, running |-> FALSE, base |-> depth]
<1>1. f \in Frames
  BY ListenersAssumption DEF TypeOK, Frames
<1>2. stack' = Append(stack, f) /\ stack \in Seq(Frames)
  BY DEF Push, TypeOK
<1>. HIDE DEF f
<1>3. QED
  BY <1>1, <1>2, AppendProperties DEF f

\* Pop drops the innermost frame.
LEMMA PopKeeps ==
  ASSUME TypeOK, stack # <<>>, Pop
  PROVE  /\ stack' \in Seq(Frames)
         /\ Len(stack') = Len(stack) - 1
         /\ \A i \in 1..Len(stack') : stack'[i] = stack[i]
BY DropLast DEF TypeOK, Pop

\* SetTop replaces the innermost frame.
LEMMA SetTopKeeps ==
  ASSUME TypeOK, stack # <<>>, NEW f \in Frames, SetTop(f)
  PROVE  /\ stack' \in Seq(Frames)
         /\ Len(stack') = Len(stack)
         /\ \A i \in 1..(Len(stack) - 1) : stack'[i] = stack[i]
         /\ stack'[Len(stack)] = f
         /\ stack' # <<>>
BY ReplaceLast DEF TypeOK, SetTop

-----------------------------------------------------------------------------
(* Every step keeps the types.                                             *)

\* Every handler and every wrapper keeps the types.
LEMMA StepTypeOK == IInv /\ [Next]_vars => TypeOK'
<1>. SUFFICES ASSUME IInv, [Next]_vars PROVE TypeOK'
  OBVIOUS
<1>. USE ListenersAssumption, RetentionAssumption, BoundsAssumption
<1>1. TypeOK /\ OpenInv /\ DepthBalanced /\ FramesInv
  BY DEF IInv
<1>2. CASE UNCHANGED vars
  BY <1>1, <1>2 DEF vars, sqlite, closure, history, TypeOK
<1>3. ASSUME NEW immediate \in BOOLEAN, Begin(immediate)
      PROVE  TypeOK'
  <2>1. txid' \in 0..MaxTx /\ tx' = "explicit"
    BY <1>1, <1>3 DEF Begin, OpenTx, TypeOK
  <2>2. wlock' \in BOOLEAN
    BY <1>3 DEF Begin
  <2>3. QED
    BY <1>1, <1>3, <2>1, <2>2 DEF Begin, closure, history, TypeOK
<1>4. ASSUME NEW reported \in BOOLEAN, NEW thrown \in 0..1, Write(reported, thrown)
      PROVE  TypeOK'
  <2>1. txid' \in TxIds /\ tx' \in {"none", "implicit", "explicit"}
    <3>1. CASE tx # "none" /\ UNCHANGED <<tx, txid>>
      BY <1>1, <3>1 DEF OpenInv, TypeOK
    <3>2. CASE OpenTx("implicit")
      BY <1>1, <3>2 DEF OpenTx, TypeOK, TxIds
    <3>3. QED
      BY <1>4, <3>1, <3>2 DEF Write
  <2>2. /\ pending' \in Seq(TxIds) /\ pendingCount' \in Nat
        /\ errors' \in Nat
        /\ seen' \in [TxIds -> Nat] /\ hidden' \in [TxIds -> Nat]
    <3>1. CASE reported
      <4>1. Record(txid') /\ Raise(thrown) /\ seen' = [seen EXCEPT ![txid'] = @ + 1]
            /\ UNCHANGED hidden
        BY <1>4, <3>1 DEF Write
      <4>2. Append(pending, txid') \in Seq(TxIds)
        BY <1>1, <2>1, AppendProperties DEF TypeOK
      <4>3. pending' \in Seq(TxIds) /\ pendingCount' \in Nat
        BY <1>1, <4>1, <4>2 DEF Record, TypeOK
      <4>4. errors' \in Nat
        BY <1>1, <4>1 DEF Raise, TypeOK
      <4>5. seen' \in [TxIds -> Nat] /\ hidden' \in [TxIds -> Nat]
        BY <1>1, <2>1, <4>1 DEF TypeOK
      <4>6. QED
        BY <4>3, <4>4, <4>5
    <3>2. CASE ~reported
      <4>1. /\ UNCHANGED <<seen, pending, pendingCount, errors>>
            /\ hidden' = [hidden EXCEPT ![txid'] = @ + 1]
        BY <1>4, <3>2 DEF Write
      <4>2. hidden' \in [TxIds -> Nat]
        BY <1>1, <2>1, <4>1 DEF TypeOK
      <4>3. QED
        BY <1>1, <4>1, <4>2 DEF TypeOK
    <3>3. QED
      BY <3>1, <3>2
  <2>3. QED
    <3>1. txid' \in 0..MaxTx /\ wlock' = TRUE
      BY <1>4, <2>1 DEF Write, TxIds
    <3>2. UNCHANGED <<engine, iterating, committed, depth, closed, stack,
                      ended, log, discarded, silent, told, rolled, heard>>
      BY <1>4 DEF Write
    <3>3. QED
      BY <1>1, <2>1, <2>2, <3>1, <3>2 DEF TypeOK
<1>5. CASE CommitReadOnly
  BY <1>1, <1>5 DEF CommitReadOnly, closure, history, TypeOK
<1>6. ASSUME NEW v \in Verdicts, CommitHook(v)
      PROVE  TypeOK'
  <2>1. errors' \in Nat
    BY <1>1, <1>6 DEF CommitHook, Raise, Verdicts, TypeOK
  <2>2. Batch \in Batches
    BY <1>1, <1>6, BatchIsABatch DEF CommitHook, OpenInv
  <2>3. CASE Vetoes(v)
    <3>1. engine' = "failing" /\ UNCHANGED <<pending, pendingCount, committed>>
      BY <1>6, <2>3 DEF CommitHook
    <3>2. QED
      BY <1>1, <1>6, <2>1, <3>1 DEF CommitHook, history, TypeOK
  <2>4. CASE ~Vetoes(v)
    <3>1. engine' = "approved" /\ committed' = Append(committed, Batch) /\ ForgetPending
      BY <1>6, <2>4 DEF CommitHook
    <3>2. committed' \in Seq(Batches)
      BY <1>1, <2>2, <3>1, AppendProperties DEF TypeOK
    <3>3. pending' \in Seq(TxIds) /\ pendingCount' \in Nat
      BY <3>1, EmptySeq DEF ForgetPending
    <3>4. QED
      BY <1>1, <1>6, <2>1, <3>1, <3>2, <3>3 DEF CommitHook, history, TypeOK
  <2>5. QED
    BY <2>3, <2>4
<1>7. CASE Land
  <2>1. log' \in Seq(TxIds)
    BY <1>1, <1>7, AppendProperties DEF Land, OpenInv, TypeOK
  <2>2. ended' \in Nat
    BY <1>1, <1>7 DEF Land, CountEnd, TypeOK
  <2>3. QED
    BY <1>1, <1>7, <2>1, <2>2 DEF Land, closure, TypeOK
<1>8. CASE FailCommit
  BY <1>1, <1>8 DEF FailCommit, closure, history, TypeOK
<1>9. ASSUME NEW thrown \in 0..1, RollbackHook(thrown)
      PROVE  TypeOK'
  <2>1. txid \in TxIds
    BY <1>1, <1>9 DEF RollbackHook, OpenInv
  <2>2. RolledBack \in Batches
    <3>1. CASE committed = <<>>
      BY <1>1, <2>1, <3>1, BatchIsABatch DEF RolledBack
    <3>2. CASE committed # <<>>
      <4>1. Len(committed) \in 1..Len(committed)
        BY <1>1, <3>2, EmptySeq DEF TypeOK
      <4>2. committed[Len(committed)] \in Batches
        BY <1>1, <4>1, ElementOfSeq DEF TypeOK
      <4>3. QED
        BY <3>2, <4>2 DEF RolledBack
    <3>3. QED
      BY <3>1, <3>2
  <2>3. rolled' \in Seq(Batches)
    BY <1>1, <1>9, <2>2, AppendProperties DEF RollbackHook, TypeOK
  <2>4. heard' \in [1..N -> Seq(Notices)]
    <3>1. [type |-> "rollback", of |-> RolledBack.of] \in Notices
      BY <2>2 DEF Notices, Batches
    <3>2. \A l \in 1..N : Append(heard[l], [type |-> "rollback", of |-> RolledBack.of])
                             \in Seq(Notices)
      BY <1>1, <3>1, AppendProperties DEF TypeOK
    <3>3. QED
      BY <1>9, <3>2 DEF RollbackHook, HearEverywhere
  <2>5. committed' \in Seq(Batches)
    BY <1>1, <1>9, DropLast, EmptySeq DEF RollbackHook, Unstash, TypeOK
  <2>6. /\ pending' \in Seq(TxIds) /\ pendingCount' \in Nat
        /\ errors' \in Nat /\ ended' \in Nat
    BY <1>1, <1>9 DEF RollbackHook, ForgetPending, Raise, CountEnd, TypeOK
  <2>7. QED
    BY <1>1, <1>9, <2>1, <2>3, <2>4, <2>5, <2>6 DEF RollbackHook, TypeOK
<1>10. CASE EndCall
  <2>1. stack # <<>> /\ Top \in Frames
    BY <1>1, <1>10, TopIsAFrame DEF EndCall
  <2>2. depth' \in Nat
    BY <1>1, <1>10, <2>1 DEF EndCall, DepthBalanced, InnerDepth, Frames
  <2>3. stack' \in Seq(Frames)
    <3>1. [Top EXCEPT !.phase = "drain"] \in Frames
      BY <2>1 DEF Frames
    <3>2. QED
      BY <1>1, <1>10, <2>1, <3>1, PopKeeps, SetTopKeeps DEF EndCall, AfterCall
  <2>4. QED
    BY <1>1, <1>10, <2>2, <2>3 DEF EndCall, sqlite, TypeOK
<1>11. CASE DrainNext
  <2>1. Head(committed) \in Batches /\ Tail(committed) \in Seq(Batches)
    BY <1>1, <1>11, HeadTailProperties DEF DrainNext, TypeOK
  <2>2. [Top EXCEPT !.ev = Head(committed), !.at = 1] \in Frames
    BY <1>1, <1>11, <2>1, TopIsAFrame, FrameChanges DEF DrainNext
  <2>3. stack' \in Seq(Frames)
    BY <1>1, <1>11, <2>2, SetTopKeeps DEF DrainNext
  <2>4. told' \in Seq(TxIds)
    BY <1>1, <1>11, <2>1, AppendProperties DEF DrainNext, TypeOK, Batches
  <2>5. QED
    BY <1>1, <1>11, <2>1, <2>3, <2>4 DEF DrainNext, sqlite, TypeOK
<1>12. CASE Notify
  <2>1. Top \in Frames /\ stack # <<>> /\ Len(stack) \in Nat \ {0}
    BY <1>1, <1>12, TopIsAFrame DEF Notify
  <2>2. [Top EXCEPT !.running = TRUE] \in Frames
    BY <2>1 DEF Frames
  <2>3. stack' \in Seq(Frames)
    BY <1>1, <1>12, <2>1, <2>2, SetTopKeeps DEF Notify
  <2>4. Top.ev \in Batches /\ Top.at \in 1..N
    BY <1>1, <1>12, <2>1 DEF Notify, DispatchDone, FramesInv, FrameInv, Top, Frames
  <2>5. [type |-> "postcommit", of |-> Top.ev.of] \in Notices
    BY <2>4 DEF Notices, Batches
  <2>6. heard' \in [1..N -> Seq(Notices)]
    BY <1>1, <1>12, <2>4, <2>5, AppendProperties DEF Notify, TypeOK
  <2>7. QED
    BY <1>1, <1>12, <2>3, <2>6 DEF Notify, sqlite, closure, TypeOK
<1>13. ASSUME NEW thrown \in 0..1, ListenerReturns(thrown)
       PROVE  TypeOK'
  <2>1. [Top EXCEPT !.running = FALSE, !.at = @ + 1] \in Frames
    BY <1>1, <1>13, TopIsAFrame, FrameChanges DEF ListenerReturns
  <2>2. stack' \in Seq(Frames)
    BY <1>1, <1>13, <2>1, SetTopKeeps DEF ListenerReturns
  <2>3. errors' \in Nat
    BY <1>1, <1>13 DEF ListenerReturns, Raise, TypeOK
  <2>4. QED
    BY <1>1, <1>13, <2>2, <2>3 DEF ListenerReturns, sqlite, history, TypeOK
<1>14. CASE FinishCall
  <2>1. stack' \in Seq(Frames)
    BY <1>1, <1>14, PopKeeps DEF FinishCall
  <2>2. QED
    BY <1>1, <1>14, <2>1 DEF FinishCall, sqlite, history, TypeOK
<1>15. CASE FinishClose
  <2>1. stack' \in Seq(Frames)
    BY <1>1, <1>15, PopKeeps DEF FinishClose
  <2>2. /\ rolled' \in Seq(Batches) /\ heard' \in [1..N -> Seq(Notices)]
        /\ pending' \in Seq(TxIds) /\ pendingCount' \in Nat
        /\ discarded' \subseteq TxIds /\ silent' \subseteq TxIds
    <3>1. CASE tx = "explicit"
      <4>1. txid \in TxIds /\ Batch \in Batches
        BY <1>1, <3>1, BatchIsABatch DEF OpenInv
      <4>2. rolled' \in Seq(Batches)
        <5>1. rolled' = Append(rolled, Batch)
          BY <1>15, <3>1 DEF FinishClose
        <5>2. QED
          BY <1>1, <4>1, <5>1, AppendProperties DEF TypeOK
      <4>3. heard' \in [1..N -> Seq(Notices)]
        <5>1. [type |-> "rollback", of |-> txid] \in Notices
          BY <4>1 DEF Notices
        <5>2. \A l \in 1..N : Append(heard[l], [type |-> "rollback", of |-> txid])
                                 \in Seq(Notices)
          BY <1>1, <5>1, AppendProperties DEF TypeOK
        <5>3. QED
          BY <1>15, <3>1, <5>2 DEF FinishClose, HearEverywhere
      <4>4. QED
        <5>1. ForgetPending /\ discarded' = discarded \union {txid} /\ UNCHANGED silent
          BY <1>15, <3>1 DEF FinishClose
        <5>2. QED
          BY <1>1, <4>1, <4>2, <4>3, <5>1, EmptySeq DEF ForgetPending, TypeOK
    <3>2. CASE tx = "implicit"
      BY <1>1, <1>15, <3>2 DEF FinishClose, OpenInv, TypeOK
    <3>3. CASE tx = "none"
      BY <1>1, <1>15, <3>3 DEF FinishClose, TypeOK
    <3>4. QED
      BY <1>1, <3>1, <3>2, <3>3 DEF TypeOK
  <2>3. QED
    BY <1>1, <1>15, <2>1, <2>2 DEF FinishClose, TypeOK
<1>16. ASSUME NEW kind \in {"call", "transaction"}, BeginCall(kind)
       PROVE  TypeOK'
  <2>1. stack' \in Seq(Frames)
    BY <1>1, <1>16, PushKeeps DEF BeginCall
  <2>2. QED
    BY <1>1, <1>16, <2>1 DEF BeginCall, sqlite, history, TypeOK
<1>17. CASE BeginClose
  <2>1. stack' \in Seq(Frames)
    BY <1>1, <1>17, PushKeeps DEF BeginClose
  <2>2. QED
    BY <1>1, <1>17, <2>1 DEF BeginClose, sqlite, closure, history, TypeOK
<1>18. CASE StartIter
  BY <1>1, <1>18 DEF StartIter, closure, history, TypeOK
<1>19. CASE EndIter
  BY <1>1, <1>19 DEF EndIter, closure, history, TypeOK
<1>20. QED
  BY <1>2, <1>3, <1>4, <1>5, <1>6, <1>7, <1>8, <1>9, <1>10, <1>11, <1>12, <1>13,
     <1>14, <1>15, <1>16, <1>17, <1>18, <1>19
     DEF Next, SqliteStep, ClosureStep, ProgramStep

-----------------------------------------------------------------------------
(* Re-entrancy: the stack moves in three ways, and each keeps depth equal  *)
(* to the number of driver methods still running.                          *)

\* Entering a call raises depth by one while its method runs.
LEMMA PushBalances ==
  ASSUME TypeOK, DepthBalanced,
         NEW kind \in {"call", "transaction", "close"}, NEW phase \in {"sql", "drain"},
         Push(kind, phase), depth' = depth + (IF phase = "sql" THEN 1 ELSE 0)
  PROVE  DepthBalanced'
<1>1. /\ stack' # <<>> /\ Len(stack') = Len(stack) + 1 /\ Len(stack) \in Nat
      /\ \A i \in 1..Len(stack) : stack'[i] = stack[i]
      /\ stack'[Len(stack')].base = depth /\ stack'[Len(stack')].phase = phase
  <2>1. Len(stack) \in Nat
    BY LenProperties DEF TypeOK
  <2>. QED
    BY <2>1, PushKeeps
<1>2. depth' = InnerDepth(stack'[Len(stack')])
  BY <1>1 DEF InnerDepth
<1>3. ASSUME NEW i \in 1..Len(stack')
      PROVE  stack'[i].base = IF i = 1 THEN 0 ELSE InnerDepth(stack'[i - 1])
  <2>1. CASE i = Len(stack')
    <3>1. stack = <<>> <=> Len(stack) = 0
      BY EmptySeq DEF TypeOK
    <3>2. QED
      BY <1>1, <2>1, <3>1 DEF DepthBalanced, Top
  <2>2. CASE i \in 1..Len(stack)
    BY <1>1, <2>2 DEF DepthBalanced
  <2>3. QED
    BY <1>1, <2>1, <2>2
<1>4. QED
  BY <1>1, <1>2, <1>3 DEF DepthBalanced, InnerDepth, Top

\* Leaving a call brings back the depth it was entered with.
LEMMA PopBalances ==
  ASSUME TypeOK, DepthBalanced, stack # <<>>, Pop, depth' = Top.base
  PROVE  DepthBalanced'
<1>1. /\ Len(stack') = Len(stack) - 1 /\ Len(stack) \in Nat \ {0}
      /\ stack' \in Seq(Frames)
      /\ \A i \in 1..Len(stack') : stack'[i] = stack[i]
  BY PopKeeps, TopIsAFrame
<1>2. depth' = IF stack' = <<>> THEN 0 ELSE InnerDepth(stack'[Len(stack')])
  <2>1. stack' = <<>> <=> Len(stack') = 0
    BY <1>1, EmptySeq
  <2>2. Top.base = IF Len(stack) = 1 THEN 0 ELSE InnerDepth(stack[Len(stack) - 1])
    BY <1>1 DEF DepthBalanced, Top
  <2>3. QED
    BY <1>1, <2>1, <2>2
<1>3. \A i \in 1..Len(stack') :
        stack'[i].base = IF i = 1 THEN 0 ELSE InnerDepth(stack'[i - 1])
  BY <1>1 DEF DepthBalanced
<1>4. QED
  BY <1>2, <1>3 DEF DepthBalanced, InnerDepth, Top

\* A wrapper that goes on to drain has dropped its one of depth.
LEMMA SetTopBalances ==
  ASSUME TypeOK, DepthBalanced, stack # <<>>, NEW f \in Frames, SetTop(f),
         f.base = Top.base, depth' = InnerDepth(f)
  PROVE  DepthBalanced'
<1>1. /\ Len(stack') = Len(stack) /\ Len(stack) \in Nat \ {0} /\ stack' # <<>>
      /\ stack'[Len(stack)] = f
      /\ \A i \in 1..(Len(stack) - 1) : stack'[i] = stack[i]
  BY SetTopKeeps, TopIsAFrame
<1>2. \A i \in 1..Len(stack') :
        stack'[i].base = IF i = 1 THEN 0 ELSE InnerDepth(stack'[i - 1])
  BY <1>1 DEF DepthBalanced, Top
<1>3. QED
  BY <1>1, <1>2 DEF DepthBalanced, InnerDepth, Top

\* Every step keeps depth equal to the number of methods running.
LEMMA StepDepthBalanced == IInv /\ [Next]_vars => DepthBalanced'
<1>. SUFFICES ASSUME IInv, [Next]_vars PROVE DepthBalanced'
  OBVIOUS
<1>1. TypeOK /\ DepthBalanced /\ FramesInv
  BY DEF IInv
<1>2. CASE UNCHANGED <<depth, stack>>
  BY <1>1, <1>2 DEF DepthBalanced, InnerDepth, Top
<1>3. ASSUME NEW kind \in {"call", "transaction"}, BeginCall(kind)
      PROVE  DepthBalanced'
  BY <1>1, <1>3, PushBalances DEF BeginCall
<1>4. CASE BeginClose
  <2>1. depth' = depth /\ depth \in Nat
    BY <1>1, <1>4 DEF BeginClose, closure, TypeOK
  <2>2. QED
    BY <1>1, <1>4, <2>1, PushBalances DEF BeginClose
<1>5. CASE EndCall
  <2>1. stack # <<>> /\ Top \in Frames /\ Top.phase = "sql"
    BY <1>1, <1>5, TopIsAFrame DEF EndCall
  <2>2. depth' = Top.base
    BY <1>1, <1>5, <2>1 DEF EndCall, DepthBalanced, InnerDepth, Frames
  <2>3. CASE Pop
    BY <1>1, <2>1, <2>2, <2>3, PopBalances
  <2>4. CASE SetTop([Top EXCEPT !.phase = "drain"])
    <3>1. [Top EXCEPT !.phase = "drain"] \in Frames
      BY <2>1, FrameChanges
    <3>2. /\ [Top EXCEPT !.phase = "drain"].base = Top.base
          /\ [Top EXCEPT !.phase = "drain"].phase = "drain"
          /\ Top.base \in Nat
      BY <2>1 DEF Frames
    <3>3. depth' = InnerDepth([Top EXCEPT !.phase = "drain"])
      BY <2>2, <3>2 DEF InnerDepth
    <3>4. QED
      BY <1>1, <2>1, <2>4, <3>1, <3>2, <3>3, SetTopBalances
  <2>5. QED
    BY <1>5, <2>3, <2>4 DEF EndCall, AfterCall
<1>6. ASSUME NEW f \in Frames, stack # <<>>, SetTop(f), depth' = depth,
             f.base = Top.base, f.phase = Top.phase
      PROVE  DepthBalanced'
  <2>1. depth' = InnerDepth(f)
    BY <1>1, <1>6 DEF DepthBalanced, InnerDepth
  <2>2. QED
    BY <1>1, <1>6, <2>1, SetTopBalances
<1>7. CASE DrainNext
  <2>. DEFINE f == [Top EXCEPT !.ev = Head(committed), !.at = 1]
  <2>1. Top \in Frames /\ stack # <<>>
    BY <1>1, <1>7, TopIsAFrame DEF DrainNext
  <2>2. Head(committed) \in Batches
    BY <1>1, <1>7, HeadTailProperties DEF DrainNext, TypeOK
  <2>3. f \in Frames
    BY <2>1, <2>2, FrameChanges
  <2>4. f.base = Top.base /\ f.phase = Top.phase
    BY <2>1 DEF Frames
  <2>5. SetTop(f) /\ depth' = depth
    BY <1>7 DEF DrainNext
  <2>. HIDE DEF f
  <2>6. QED
    BY <1>6, <2>1, <2>3, <2>4, <2>5
<1>8. CASE Notify
  <2>. DEFINE f == [Top EXCEPT !.running = TRUE]
  <2>1. Top \in Frames /\ stack # <<>>
    BY <1>1, <1>8, TopIsAFrame DEF Notify
  <2>2. f \in Frames
    BY <2>1, FrameChanges
  <2>3. f.base = Top.base /\ f.phase = Top.phase
    BY <2>1 DEF Frames
  <2>4. SetTop(f) /\ depth' = depth
    BY <1>8 DEF Notify, closure
  <2>. HIDE DEF f
  <2>5. QED
    BY <1>6, <2>1, <2>2, <2>3, <2>4
<1>9. ASSUME NEW thrown \in 0..1, ListenerReturns(thrown)
      PROVE  DepthBalanced'
  <2>. DEFINE f == [Top EXCEPT !.running = FALSE, !.at = @ + 1]
  <2>1. Top \in Frames /\ stack # <<>>
    BY <1>1, <1>9, TopIsAFrame DEF ListenerReturns
  <2>2. f \in Frames
    BY <2>1, FrameChanges
  <2>3. f.base = Top.base /\ f.phase = Top.phase
    BY <2>1 DEF Frames
  <2>4. SetTop(f) /\ depth' = depth
    BY <1>9 DEF ListenerReturns
  <2>. HIDE DEF f
  <2>5. QED
    BY <1>6, <2>1, <2>2, <2>3, <2>4
<1>10. ASSUME Drained, Pop, stack # <<>>, depth' = depth
       PROVE  DepthBalanced'
  <2>1. Top \in Frames
    BY <1>1, <1>10, TopIsAFrame
  <2>2. depth' = Top.base
    BY <1>1, <1>10, <2>1 DEF Drained, DepthBalanced, InnerDepth, Frames
  <2>3. QED
    BY <1>1, <1>10, <2>2, PopBalances
<1>11. CASE FinishCall
  BY <1>10, <1>11 DEF FinishCall
<1>12. CASE FinishClose
  BY <1>10, <1>12 DEF FinishClose
<1>13. SqliteStep \/ StartIter \/ EndIter \/ UNCHANGED vars => UNCHANGED <<depth, stack>>
  BY DEF SqliteStep, Begin, Write, CommitReadOnly, CommitHook, Land, FailCommit,
         RollbackHook, StartIter, EndIter, vars, closure
<1>14. QED
  BY <1>2, <1>3, <1>4, <1>5, <1>7, <1>8, <1>9, <1>11, <1>12, <1>13
     DEF Next, ClosureStep, ProgramStep

-----------------------------------------------------------------------------
(* The transaction in progress.                                            *)

\* A transaction is open while SQLite ends it, on a live connection.
LEMMA StepOpenInv == IInv /\ [Next]_vars => OpenInv'
<1>. SUFFICES ASSUME IInv, [Next]_vars PROVE OpenInv'
  OBVIOUS
<1>1. TypeOK /\ TypeOK' /\ OpenInv
  BY StepTypeOK DEF IInv
<1>2. CASE UNCHANGED <<tx, txid, engine, closed>>
  BY <1>1, <1>2 DEF OpenInv
<1>3. ASSUME NEW immediate \in BOOLEAN, Begin(immediate)
      PROVE  OpenInv'
  BY <1>1, <1>3 DEF Begin, SqlRuns, OpenTx, closure, OpenInv, TypeOK, TxIds
<1>4. ASSUME NEW reported \in BOOLEAN, NEW thrown \in 0..1, Write(reported, thrown)
      PROVE  OpenInv'
  <2>1. engine' = "idle" /\ ~closed'
    BY <1>4 DEF Write, SqlRuns
  <2>2. CASE tx # "none" /\ UNCHANGED <<tx, txid>>
    BY <1>1, <2>1, <2>2 DEF OpenInv
  <2>3. CASE OpenTx("implicit")
    BY <1>1, <2>1, <2>3 DEF OpenTx, OpenInv, TypeOK, TxIds
  <2>4. QED
    BY <1>4, <2>2, <2>3 DEF Write
<1>5. ASSUME NEW v \in Verdicts, CommitHook(v)
      PROVE  OpenInv'
  BY <1>1, <1>5 DEF CommitHook, OpenInv
<1>6. CASE tx' = "none" /\ engine' = "idle"
  BY <1>6 DEF OpenInv
<1>7. CASE FailCommit
  BY <1>1, <1>7 DEF FailCommit, closure, OpenInv
<1>8. CommitReadOnly => tx' = "none" /\ engine' = "idle"
  BY DEF CommitReadOnly, SqlRuns
<1>9. Land => tx' = "none" /\ engine' = "idle"
  BY DEF Land
<1>10. ASSUME NEW thrown \in 0..1, RollbackHook(thrown)
       PROVE  tx' = "none" /\ engine' = "idle"
  BY <1>10 DEF RollbackHook
<1>11. FinishClose => tx' = "none" /\ engine' = "idle"
  BY DEF FinishClose
<1>12. ASSUME \/ EndCall \/ DrainNext \/ Notify \/ FinishCall \/ ProgramStep
              \/ \E thrown \in 0..1 : ListenerReturns(thrown) \/ UNCHANGED vars
       PROVE  UNCHANGED <<tx, txid, engine, closed>>
  BY <1>12 DEF EndCall, DrainNext, Notify, FinishCall, ListenerReturns, ProgramStep,
     BeginCall, BeginClose, StartIter, EndIter, vars, sqlite, closure
<1>13. QED
  BY <1>2, <1>3, <1>4, <1>5, <1>6, <1>7, <1>8, <1>9, <1>10, <1>11, <1>12
     DEF Next, SqliteStep, ClosureStep

\* Rows wait in `pending' only for the transaction that is open.
LEMMA StepPendingInv == IInv /\ [Next]_vars => PendingInv'
<1>. SUFFICES ASSUME IInv, [Next]_vars PROVE PendingInv'
  OBVIOUS
<1>1. TypeOK /\ TypeOK' /\ OpenInv /\ PendingInv
  BY StepTypeOK DEF IInv
<1>2. CASE UNCHANGED <<tx, txid, engine, wlock, pending, pendingCount, closed>>
  BY <1>1, <1>2 DEF PendingInv, PendingIsTheOpenTransaction
<1>3. ASSUME ForgetPending
      PROVE  PendingInv'
  BY <1>3, EmptySeq DEF ForgetPending, PendingInv, PendingIsTheOpenTransaction
<1>4. ASSUME tx = "none", ~closed
      PROVE  pendingCount = 0 /\ Len(pending) = 0
  BY <1>1, <1>4 DEF PendingInv, PendingIsTheOpenTransaction, TypeOK
<1>5. ASSUME NEW immediate \in BOOLEAN, Begin(immediate)
      PROVE  PendingInv'
  <2>1. /\ UNCHANGED <<pending, pendingCount>>
        /\ pendingCount = 0 /\ Len(pending) = 0
    BY <1>4, <1>5 DEF Begin, SqlRuns, closure
  <2>2. QED
    BY <2>1 DEF PendingInv, PendingIsTheOpenTransaction
<1>6. ASSUME NEW reported \in BOOLEAN, NEW thrown \in 0..1, Write(reported, thrown)
      PROVE  PendingInv'
  <2>1. /\ \A i \in 1..Len(pending) : pending[i] = txid'
        /\ Len(pending) <= pendingCount
    <3>1. CASE tx # "none" /\ UNCHANGED <<tx, txid>>
      BY <1>1, <3>1 DEF PendingInv, PendingIsTheOpenTransaction
    <3>2. CASE tx = "none"
      BY <1>4, <1>6, <3>2 DEF Write, SqlRuns
    <3>3. QED
      BY <1>6, <3>1, <3>2 DEF Write
  <2>2. tx' # "none" /\ engine' # "approved" /\ wlock'
    BY <1>6 DEF Write, SqlRuns, OpenTx
  <2>3. CASE reported
    <3>1. Record(txid') /\ txid' \in TxIds
      BY <1>1, <1>6, <2>2, <2>3, StepOpenInv DEF Write, OpenInv
    <3>2. CASE pending' = Append(pending, txid') /\ pendingCount' = pendingCount + 1
      <4>1. /\ Len(pending') = Len(pending) + 1 /\ Len(pending) \in Nat
            /\ \A i \in 1..Len(pending) : pending'[i] = pending[i]
            /\ pending'[Len(pending) + 1] = txid'
        <5>1. pending \in Seq(TxIds)
          BY <1>1 DEF TypeOK
        <5>2. QED
          BY <3>1, <3>2, <5>1, AppendProperties
      <4>2. \A i \in 1..Len(pending') : pending'[i] = txid'
        BY <2>1, <4>1
      <4>3. Len(pending') <= pendingCount'
        BY <1>1, <2>1, <3>2, <4>1 DEF TypeOK
      <4>4. QED
        BY <2>2, <4>2, <4>3 DEF PendingInv, PendingIsTheOpenTransaction
    <3>3. CASE pending' = pending /\ pendingCount' = pendingCount + 1
      <4>1. Len(pending) \in Nat /\ pendingCount \in Nat
        BY <1>1 DEF TypeOK
      <4>2. QED
        BY <2>1, <2>2, <3>3, <4>1 DEF PendingInv, PendingIsTheOpenTransaction
    <3>4. QED
      BY <3>1, <3>2, <3>3 DEF Record
  <2>4. CASE ~reported
    <3>1. UNCHANGED <<pending, pendingCount>>
      BY <1>6, <2>4 DEF Write
    <3>2. QED
      BY <2>1, <2>2, <3>1 DEF PendingInv, PendingIsTheOpenTransaction
  <2>5. QED
    BY <2>3, <2>4
<1>7. CASE CommitReadOnly
  <2>1. /\ pendingCount = 0 /\ UNCHANGED <<txid, pending, pendingCount>>
    BY <1>1, <1>7 DEF CommitReadOnly, SqlRuns, PendingInv, closure
  <2>2. QED
    BY <1>1, <2>1 DEF PendingInv, PendingIsTheOpenTransaction
<1>8. ASSUME NEW v \in Verdicts, CommitHook(v)
      PROVE  PendingInv'
  <2>1. CASE Vetoes(v)
    <3>1. engine' = "failing" /\ UNCHANGED <<pending, pendingCount, tx, txid, wlock, closed>>
      BY <1>8, <2>1 DEF CommitHook
    <3>2. QED
      BY <1>1, <3>1 DEF PendingInv, PendingIsTheOpenTransaction
  <2>2. CASE ~Vetoes(v)
    BY <1>3, <1>8, <2>2 DEF CommitHook
  <2>3. QED
    BY <2>1, <2>2
<1>9. CASE Land
  <2>1. /\ pendingCount = 0 /\ UNCHANGED <<txid, pending, pendingCount>>
    BY <1>1, <1>9 DEF Land, OpenInv, PendingInv, PendingIsTheOpenTransaction, closure
  <2>2. QED
    BY <1>1, <2>1 DEF PendingInv, PendingIsTheOpenTransaction
<1>10. CASE FailCommit
  <2>1. engine' = "failing" /\ UNCHANGED <<tx, txid, wlock, pending, pendingCount, closed>>
    BY <1>10 DEF FailCommit, closure
  <2>2. QED
    BY <1>1, <2>1 DEF PendingInv, PendingIsTheOpenTransaction
<1>11. ASSUME NEW thrown \in 0..1, RollbackHook(thrown)
       PROVE  PendingInv'
  BY <1>3, <1>11 DEF RollbackHook
<1>12. CASE FinishClose
  <2>1. closed' /\ (ForgetPending \/ UNCHANGED <<txid, pending, pendingCount>>)
    <3>1. CASE tx = "explicit"
      BY <1>12, <3>1 DEF FinishClose
    <3>2. CASE tx = "implicit"
      BY <1>12, <3>2 DEF FinishClose
    <3>3. CASE tx = "none"
      BY <1>12, <3>3 DEF FinishClose
    <3>4. QED
      BY <1>1, <3>1, <3>2, <3>3 DEF TypeOK
  <2>2. QED
    BY <1>1, <1>3, <2>1 DEF PendingInv, PendingIsTheOpenTransaction
<1>13. ASSUME \/ EndCall \/ DrainNext \/ Notify \/ FinishCall \/ ProgramStep
              \/ \E thrown \in 0..1 : ListenerReturns(thrown) \/ UNCHANGED vars
       PROVE  UNCHANGED <<tx, txid, engine, wlock, pending, pendingCount, closed>>
  BY <1>13 DEF EndCall, DrainNext, Notify, FinishCall, ListenerReturns, ProgramStep,
     BeginCall, BeginClose, StartIter, EndIter, vars, sqlite, closure
<1>14. QED
  BY <1>2, <1>5, <1>6, <1>7, <1>8, <1>9, <1>10, <1>11, <1>12, <1>13
     DEF Next, SqliteStep, ClosureStep

-----------------------------------------------------------------------------
(* Only what landed is announced.                                          *)

\* The log of landed transactions only grows.
LEMMA LandedGrows == IInv /\ [Next]_vars => Landed \subseteq Landed'
<1>. SUFFICES ASSUME IInv, [Next]_vars PROVE Landed \subseteq Landed'
  OBVIOUS
<1>1. CASE UNCHANGED log
  BY <1>1 DEF Landed
<1>2. CASE Land
  <2>1. log \in Seq(TxIds) /\ txid \in TxIds /\ log' = Append(log, txid)
    BY <1>2 DEF IInv, TypeOK, OpenInv, Land
  <2>2. QED
    BY <2>1, RangeOfAppend DEF Landed
<1>3. [Next]_vars /\ ~Land => UNCHANGED log
  BY DEF Next, SqliteStep, ClosureStep, ProgramStep, Begin, Write, CommitReadOnly,
     CommitHook, FailCommit, RollbackHook, EndCall, DrainNext, Notify, ListenerReturns,
     FinishCall, FinishClose, BeginCall, BeginClose, StartIter, EndIter, vars, history
<1>4. QED
  BY <1>1, <1>2, <1>3

\* Every batch in the stash landed, but for the one SQLite is at.
LEMMA StepStashInv == IInv /\ [Next]_vars => StashInv'
<1>. SUFFICES ASSUME IInv, [Next]_vars PROVE StashInv'
  OBVIOUS
<1>1. /\ TypeOK /\ OpenInv /\ StashInv /\ Landed \subseteq Landed'
      /\ committed \in Seq(Batches) /\ Len(committed) \in Nat
  BY LandedGrows, LenProperties DEF IInv, TypeOK
<1>2. CASE UNCHANGED <<committed, engine, txid>>
  BY <1>1, <1>2 DEF StashInv
<1>3. ASSUME engine' = "idle", \A i \in 1..Len(committed') : committed'[i].of \in Landed'
      PROVE  StashInv'
  BY <1>3 DEF StashInv
<1>4. ASSUME engine = "idle", engine' = "idle", committed' = committed
      PROVE  StashInv'
  BY <1>1, <1>3, <1>4 DEF StashInv
<1>5. ASSUME NEW v \in Verdicts, CommitHook(v)
      PROVE  StashInv'
  <2>1. engine = "idle" /\ \A i \in 1..Len(committed) : committed[i].of \in Landed'
    BY <1>1, <1>5 DEF CommitHook, SqlRuns, StashInv
  <2>2. CASE Vetoes(v)
    <3>1. engine' = "failing" /\ committed' = committed
      BY <1>5, <2>2 DEF CommitHook
    <3>2. QED
      BY <2>1, <3>1 DEF StashInv
  <2>3. CASE ~Vetoes(v)
    <3>1. engine' = "approved" /\ committed' = Append(committed, Batch) /\ txid' = txid
      BY <1>5, <2>3 DEF CommitHook
    <3>2. Batch \in Batches /\ Batch.of = txid
      BY <1>1, <1>5, BatchIsABatch DEF CommitHook, OpenInv
    <3>3. /\ Len(committed') = Len(committed) + 1
          /\ \A i \in 1..Len(committed) : committed'[i] = committed[i]
          /\ committed'[Len(committed) + 1] = Batch
      BY <1>1, <3>1, <3>2, AppendProperties
    <3>4. committed' # <<>>
      BY <1>1, <3>1, <3>2, AppendProperties
    <3>5. QED
      BY <1>1, <2>1, <3>1, <3>2, <3>3, <3>4 DEF StashInv
  <2>4. QED
    BY <2>2, <2>3
<1>6. CASE Land
  <2>1. txid \in Landed'
    <3>1. log \in Seq(TxIds) /\ txid \in TxIds /\ log' = Append(log, txid)
      BY <1>1, <1>6 DEF TypeOK, OpenInv, Land
    <3>2. QED
      BY <3>1, RangeOfAppend DEF Landed
  <2>2. committed' = committed /\ engine' = "idle"
    BY <1>6 DEF Land, closure
  <2>3. QED
    BY <1>1, <1>3, <2>1, <2>2 DEF StashInv
<1>7. CASE FailCommit
  BY <1>1, <1>7 DEF FailCommit, closure, StashInv
<1>8. ASSUME NEW thrown \in 0..1, RollbackHook(thrown)
      PROVE  StashInv'
  <2>1. engine' = "idle" /\ Unstash
    BY <1>8 DEF RollbackHook
  <2>2. CASE committed = <<>>
    <3>1. committed' = <<>>
      BY <2>1, <2>2 DEF Unstash
    <3>2. QED
      BY <1>3, <2>1, <3>1, EmptySeq
  <2>3. CASE committed # <<>>
    <3>1. committed' = SubSeq(committed, 1, Len(committed) - 1)
      BY <2>1, <2>3 DEF Unstash
    <3>2. /\ Len(committed') = Len(committed) - 1
          /\ \A i \in 1..Len(committed') : committed'[i] = committed[i]
      BY <1>1, <2>3, <3>1, DropLast
    <3>3. QED
      BY <1>1, <1>3, <2>1, <3>2 DEF StashInv
  <2>4. QED
    BY <2>2, <2>3
<1>9. CASE DrainNext
  <2>1. engine = "idle" /\ engine' = "idle" /\ committed # <<>> /\ committed' = Tail(committed)
    BY <1>9 DEF DrainNext, sqlite
  <2>2. /\ Len(committed') = Len(committed) - 1
        /\ \A i \in 1..Len(committed') : committed'[i] = committed[i + 1]
    BY <1>1, <2>1, HeadTailProperties
  <2>3. QED
    BY <1>1, <1>3, <2>1, <2>2 DEF StashInv
<1>10. ASSUME NEW immediate \in BOOLEAN, Begin(immediate)
       PROVE  StashInv'
  BY <1>4, <1>10 DEF Begin, SqlRuns, closure
<1>11. ASSUME NEW reported \in BOOLEAN, NEW thrown \in 0..1, Write(reported, thrown)
       PROVE  StashInv'
  BY <1>4, <1>11 DEF Write, SqlRuns
<1>12. CASE CommitReadOnly
  BY <1>4, <1>12 DEF CommitReadOnly, SqlRuns, closure
<1>13. ASSUME \/ EndCall \/ Notify \/ FinishCall \/ FinishClose \/ ProgramStep
              \/ \E thrown \in 0..1 : ListenerReturns(thrown) \/ UNCHANGED vars
       PROVE  UNCHANGED <<committed, engine, txid>>
  BY <1>13 DEF EndCall, Notify, FinishCall, FinishClose, ListenerReturns, ProgramStep,
     BeginCall, BeginClose, StartIter, EndIter, vars, sqlite, closure
<1>14. QED
  BY <1>2, <1>5, <1>6, <1>7, <1>8, <1>9, <1>10, <1>11, <1>12, <1>13
     DEF Next, SqliteStep, ClosureStep

\* Every frame that is dispatching dispatches a batch that landed.
LEMMA StepFramesInv == IInv /\ [Next]_vars => FramesInv'
<1>. SUFFICES ASSUME IInv, [Next]_vars PROVE FramesInv'
  OBVIOUS
<1>1. /\ TypeOK /\ FramesInv /\ Landed \subseteq Landed'
      /\ stack \in Seq(Frames) /\ Len(stack) \in Nat
  BY LandedGrows, LenProperties DEF IInv, TypeOK
<1>2. \A i \in 1..Len(stack) : FrameInv(stack[i]) /\ stack[i] \in Frames
  BY <1>1, ElementOfSeq DEF FramesInv
<1>3. CASE UNCHANGED stack
  BY <1>1, <1>2, <1>3 DEF FramesInv, FrameInv
<1>4. ASSUME NEW kind \in {"call", "transaction", "close"},
             NEW phase \in {"sql", "drain"}, Push(kind, phase)
      PROVE  FramesInv'
  <2>1. /\ Len(stack') = Len(stack) + 1
        /\ \A i \in 1..Len(stack) : stack'[i] = stack[i]
        /\ stack'[Len(stack) + 1].running = FALSE
        /\ stack'[Len(stack) + 1].at > N
    BY <1>1, <1>4, PushKeeps, ListenersAssumption
  <2>2. stack'[Len(stack) + 1].at \in Nat
    BY <1>1, <1>4, <2>1, PushKeeps, ListenersAssumption
  <2>3. QED
    BY <1>1, <1>2, <2>1, <2>2, ListenersAssumption DEF FramesInv, FrameInv
<1>5. ASSUME stack # <<>>, Pop
      PROVE  FramesInv'
  BY <1>1, <1>2, <1>5, PopKeeps DEF FramesInv, FrameInv
<1>6. ASSUME stack # <<>>, NEW f \in Frames, SetTop(f),
             f.running => f.at <= N,
             f.at <= N => f.ev \in Batches /\ f.ev.of \in Landed',
             f.phase = "sql" => f.at > N
      PROVE  FramesInv'
  <2>1. /\ Len(stack') = Len(stack) /\ Len(stack) \in Nat \ {0}
        /\ stack'[Len(stack)] = f
        /\ \A i \in 1..(Len(stack) - 1) : stack'[i] = stack[i]
    BY <1>1, <1>6, SetTopKeeps, TopIsAFrame
  <2>2. QED
    BY <1>1, <1>2, <1>6, <2>1 DEF FramesInv, FrameInv
<1>7. ASSUME stack # <<>>
      PROVE  Top \in Frames /\ FrameInv(Top) /\ Top.at \in Nat
  <2>1. Top \in Frames /\ Len(stack) \in Nat \ {0}
    BY <1>1, <1>7, TopIsAFrame
  <2>2. QED
    BY <1>2, <2>1 DEF Top, Frames
<1>8. CASE EndCall
  <2>. DEFINE f == [Top EXCEPT !.phase = "drain"]
  <2>1. stack # <<>> /\ Top.phase = "sql" /\ (Pop \/ SetTop(f))
    BY <1>8 DEF EndCall, AfterCall
  <2>2. f \in Frames
    BY <1>7, <2>1, FrameChanges
  <2>3. /\ f.running = Top.running /\ f.at = Top.at /\ f.ev = Top.ev /\ f.phase = "drain"
    BY <1>7, <2>1 DEF Frames
  <2>. HIDE DEF f
  <2>4. QED
    BY <1>1, <1>5, <1>6, <1>7, <2>1, <2>2, <2>3 DEF FrameInv
<1>9. CASE DrainNext
  <2>. DEFINE f == [Top EXCEPT !.ev = Head(committed), !.at = 1]
  <2>1. stack # <<>> /\ Top.phase = "drain" /\ DispatchDone /\ SetTop(f)
    BY <1>9 DEF DrainNext
  <2>2. Head(committed) \in Batches /\ Head(committed).of \in Landed
    <3>1. committed \in Seq(Batches) /\ committed # <<>> /\ engine = "idle" /\ StashInv
      BY <1>1, <1>9 DEF DrainNext, IInv, TypeOK
    <3>2. Head(committed) = committed[1] /\ 1 \in 1..Len(committed)
      BY <3>1, HeadTailProperties, EmptySeq
    <3>3. QED
      BY <3>1, <3>2, ElementOfSeq DEF StashInv
  <2>3. f \in Frames
    BY <1>7, <2>1, <2>2, FrameChanges
  <2>4. /\ f.running = Top.running /\ f.at = 1 /\ f.ev = Head(committed)
        /\ f.phase = "drain"
    BY <1>7, <2>1 DEF Frames
  <2>. HIDE DEF f
  <2>5. f.running => f.at <= N
    BY <2>4, ListenersAssumption
  <2>6. QED
    BY <1>1, <1>6, <2>1, <2>2, <2>3, <2>4, <2>5
<1>10. CASE Notify
  <2>. DEFINE f == [Top EXCEPT !.running = TRUE]
  <2>1. stack # <<>> /\ Top.phase = "drain" /\ ~DispatchDone /\ SetTop(f)
    BY <1>10 DEF Notify
  <2>2. f \in Frames
    BY <1>7, <2>1, FrameChanges
  <2>3. f.at = Top.at /\ f.ev = Top.ev /\ f.phase = "drain"
    BY <1>7, <2>1 DEF Frames
  <2>. HIDE DEF f
  <2>4. Top.at <= N
    BY <1>7, <2>1, ListenersAssumption DEF DispatchDone
  <2>5. QED
    BY <1>1, <1>6, <1>7, <2>1, <2>2, <2>3, <2>4 DEF FrameInv
<1>11. ASSUME NEW thrown \in 0..1, ListenerReturns(thrown)
       PROVE  FramesInv'
  <2>. DEFINE f == [Top EXCEPT !.running = FALSE, !.at = @ + 1]
  <2>1. stack # <<>> /\ Top.running /\ SetTop(f)
    BY <1>11 DEF ListenerReturns
  <2>2. f \in Frames
    BY <1>7, <2>1, FrameChanges
  <2>3. /\ f.running = FALSE /\ f.at = Top.at + 1 /\ f.ev = Top.ev /\ f.phase = Top.phase
    BY <1>7, <2>1 DEF Frames
  <2>. HIDE DEF f
  <2>4. /\ Top.at <= N /\ Top.ev \in Batches /\ Top.ev.of \in Landed
        /\ Top.phase # "sql"
    BY <1>7, <2>1, ListenersAssumption DEF FrameInv
  <2>5. QED
    BY <1>1, <1>6, <2>1, <2>2, <2>3, <2>4
<1>12. CASE FinishCall
  BY <1>5, <1>12 DEF FinishCall
<1>13. CASE FinishClose
  BY <1>5, <1>13 DEF FinishClose
<1>14. ASSUME NEW kind \in {"call", "transaction"}, BeginCall(kind)
       PROVE  FramesInv'
  BY <1>4, <1>14 DEF BeginCall
<1>15. CASE BeginClose
  BY <1>4, <1>15 DEF BeginClose
<1>16. SqliteStep \/ StartIter \/ EndIter \/ UNCHANGED vars => UNCHANGED stack
  BY DEF SqliteStep, Begin, Write, CommitReadOnly, CommitHook, Land, FailCommit,
         RollbackHook, StartIter, EndIter, vars
<1>17. QED
  BY <1>3, <1>8, <1>9, <1>10, <1>11, <1>12, <1>13, <1>14, <1>15, <1>16
     DEF Next, ClosureStep, ProgramStep

\* The step that announces takes the oldest batch of the stash, with no commit
\* under way: it landed.
LEMMA StepPostcommitOnlyLanded == IInv /\ [Next]_vars => PostcommitOnlyLanded'
<1>. SUFFICES ASSUME IInv, [Next]_vars PROVE PostcommitOnlyLanded'
  OBVIOUS
<1>1. Landed \subseteq Landed' /\ Told \subseteq Landed
  BY LandedGrows DEF IInv, PostcommitOnlyLanded
<1>2. CASE UNCHANGED told
  BY <1>1, <1>2 DEF PostcommitOnlyLanded, Told
<1>3. CASE DrainNext
  <2>1. /\ committed \in Seq(Batches) /\ committed # <<>> /\ engine = "idle"
        /\ StashInv /\ told \in Seq(TxIds)
        /\ told' = Append(told, Head(committed).of)
    BY <1>3 DEF DrainNext, IInv, TypeOK
  <2>2. Head(committed) = committed[1] /\ 1 \in 1..Len(committed)
    BY <2>1, HeadTailProperties, EmptySeq
  <2>3. Head(committed).of \in Landed /\ Head(committed) \in Batches
    BY <2>1, <2>2, ElementOfSeq DEF StashInv
  <2>4. Told' = Told \union {Head(committed).of}
    BY <2>1, <2>3, RangeOfAppend DEF Told, Batches
  <2>5. QED
    BY <1>1, <2>3, <2>4 DEF PostcommitOnlyLanded
<1>4. [Next]_vars /\ ~DrainNext => UNCHANGED told
  BY DEF Next, SqliteStep, ClosureStep, ProgramStep, Begin, Write, CommitReadOnly,
     CommitHook, Land, FailCommit, RollbackHook, EndCall, Notify, ListenerReturns,
     FinishCall, FinishClose, BeginCall, BeginClose, StartIter, EndIter, vars, history
<1>5. QED
  BY <1>2, <1>3, <1>4

-----------------------------------------------------------------------------
(* The inductive invariant and what follows from it.                       *)

\* The inductive invariant holds when the events are attached ...
LEMMA InitIInv == Init => IInv
<1>. SUFFICES ASSUME Init PROVE IInv
  OBVIOUS
<1>. USE ListenersAssumption, RetentionAssumption, BoundsAssumption
<1>1. TypeOK
  <2>1. /\ hidden \in [TxIds -> Nat] /\ seen \in [TxIds -> Nat]
        /\ txid \in 0..MaxTx /\ tx \in {"none", "implicit", "explicit"}
        /\ wlock \in BOOLEAN
    BY DEF Init, TxIds
  <2>2. heard \in [1..N -> Seq(Notices)]
    BY EmptySeq DEF Init
  <2>3. QED
    BY <2>1, <2>2, EmptySeq DEF Init, TypeOK
<1>2. DepthBalanced /\ FramesInv
  BY EmptySeq DEF Init, DepthBalanced, FramesInv
<1>3. OpenInv
  BY DEF Init, OpenInv, TxIds
<1>4. StashInv
  BY EmptySeq DEF Init, StashInv
<1>5. PostcommitOnlyLanded
  BY DEF Init, PostcommitOnlyLanded, Told, Landed
<1>6. PendingInv
  BY EmptySeq DEF Init, PendingInv, PendingIsTheOpenTransaction
<1>7. QED
  BY <1>1, <1>2, <1>3, <1>4, <1>5, <1>6 DEF IInv

\* ... and always.
LEMMA Inductive == Spec => []IInv
<1>1. IInv /\ [Next]_vars => IInv'
  BY StepTypeOK, StepDepthBalanced, StepOpenInv, StepFramesInv, StepStashInv,
     StepPostcommitOnlyLanded, StepPendingInv DEF IInv
<1>2. QED
  BY InitIInv, <1>1, PTL DEF Spec

\* The state of the closure keeps its types, depth never going below zero.
THEOREM TypeCorrect == Spec => []TypeOK
<1>1. IInv => TypeOK
  BY DEF IInv
<1>2. QED
  BY Inductive, <1>1, PTL

\* However driver calls, drains and close() nest, `depth' counts the driver
\* methods still running (instrument in src/hooks.ts).
THEOREM DepthCorrect == Spec => []DepthBalanced
<1>1. IInv => DepthBalanced
  BY DEF IInv
<1>2. QED
  BY Inductive, <1>1, PTL

\* A postcommit is only dispatched for a transaction that landed (the commit,
\* rollback and drain code of attach in src/hooks.ts), in every regime.
THEOREM PostcommitCorrect == Spec => []PostcommitOnlyLanded
<1>1. IInv => PostcommitOnlyLanded
  BY DEF IInv
<1>2. QED
  BY Inductive, <1>1, PTL

\* The rows waiting in `pending' are the open transaction's (record and batch
\* in src/hooks.ts), in every regime.
THEOREM PendingCorrect == Spec => []PendingIsTheOpenTransaction
<1>1. IInv => PendingIsTheOpenTransaction
  BY DEF IInv, PendingInv
<1>2. QED
  BY Inductive, <1>1, PTL

-----------------------------------------------------------------------------
(* How the stack, the stash and what was heard move in any step.           *)

\* A frame that dispatches after a step dispatched the same batch before it, or
\* has just taken the oldest one of the stash.
KeepsFrame(i) ==
  /\ i \in 1..Len(stack) /\ stack[i].at <= N /\ stack'[i].ev = stack[i].ev
  /\ \/ stack'[i] = stack[i] /\ (i # Len(stack) \/ ~Notify)
     \/ Notify /\ i = Len(stack) /\ stack'[i].at = stack[i].at /\ stack'[i].running
     \/ i = Len(stack) /\ stack'[i].at = stack[i].at + 1 /\ UNCHANGED heard
TakesBatch(i) ==
  /\ DrainNext /\ i = Len(stack) /\ i \in 1..Len(stack)
  /\ stack'[i].ev = Head(committed) /\ stack'[i].at = 1 /\ ~stack'[i].running
LEMMA StackMoves ==
  ASSUME IInv, [Next]_vars
  PROVE  \A i \in 1..Len(stack') : stack'[i].at <= N => KeepsFrame(i) \/ TakesBatch(i)
<1>. SUFFICES ASSUME NEW i \in 1..Len(stack'), stack'[i].at <= N
              PROVE  KeepsFrame(i) \/ TakesBatch(i)
  OBVIOUS
<1>1. TypeOK /\ FramesInv /\ stack \in Seq(Frames) /\ Len(stack) \in Nat /\ N \in Nat
  BY LenProperties, ListenersAssumption DEF IInv, TypeOK
<1>2. CASE UNCHANGED stack /\ ~Notify
  BY <1>1, <1>2 DEF KeepsFrame
<1>3. ASSUME ~Notify, NEW kind \in {"call", "transaction", "close"},
             NEW phase \in {"sql", "drain"}, Push(kind, phase)
      PROVE  KeepsFrame(i)
  <2>1. /\ Len(stack') = Len(stack) + 1 /\ stack'[Len(stack')].at = N + 1
        /\ \A j \in 1..Len(stack) : stack'[j] = stack[j]
    BY <1>1, <1>3, PushKeeps
  <2>2. i # Len(stack')
    BY <1>1, <2>1
  <2>3. i \in 1..Len(stack)
    BY <1>1, <2>1, <2>2
  <2>. QED
    BY <1>3, <2>1, <2>3 DEF KeepsFrame
<1>4. ASSUME ~Notify, stack # <<>>, Pop PROVE KeepsFrame(i)
  <2>1. i \in 1..Len(stack) /\ stack'[i] = stack[i]
    BY <1>1, <1>4, PopKeeps
  <2>. QED
    BY <1>4, <2>1 DEF KeepsFrame
<1>5. ASSUME stack # <<>>, NEW f \in Frames, SetTop(f)
      PROVE  /\ i \in 1..Len(stack) /\ Len(stack) \in 1..Len(stack)
             /\ IF i = Len(stack) THEN stack'[i] = f ELSE stack'[i] = stack[i]
  <2>1. /\ Len(stack') = Len(stack) /\ Len(stack) \in Nat \ {0}
        /\ stack'[Len(stack)] = f
        /\ \A j \in 1..(Len(stack) - 1) : stack'[j] = stack[j]
    BY <1>1, <1>5, SetTopKeeps, TopIsAFrame
  <2>. QED
    BY <2>1
<1>6. ASSUME stack # <<>>
      PROVE  Top \in Frames /\ FrameInv(Top) /\ Top = stack[Len(stack)] /\ Top.at \in Nat
  <2>1. Top \in Frames /\ Len(stack) \in 1..Len(stack)
    BY <1>1, <1>6, TopIsAFrame
  <2>. QED
    BY <1>1, <2>1 DEF Top, FramesInv, Frames
<1>7. CASE EndCall
  <2>. DEFINE f == [Top EXCEPT !.phase = "drain"]
  <2>1. stack # <<>> /\ Top.phase = "sql" /\ (Pop \/ SetTop(f))
    BY <1>7 DEF EndCall, AfterCall
  <2>2. f \in Frames /\ f.at = Top.at /\ Top.at > N /\ ~Notify
    BY <1>6, <1>7, <2>1, FrameChanges DEF Frames, FrameInv, Notify
  <2>. HIDE DEF f
  <2>3. CASE Pop
    BY <1>4, <2>1, <2>2, <2>3
  <2>4. CASE SetTop(f)
    <3>1. i \in 1..Len(stack) /\ (IF i = Len(stack) THEN stack'[i] = f ELSE stack'[i] = stack[i])
      BY <1>5, <2>1, <2>2, <2>4
    <3>2. i # Len(stack)
      BY <1>1, <1>6, <2>1, <2>2, <3>1
    <3>. QED
      BY <3>1, <3>2 DEF KeepsFrame
  <2>. QED
    BY <2>1, <2>3, <2>4
<1>8. CASE DrainNext
  <2>. DEFINE f == [Top EXCEPT !.ev = Head(committed), !.at = 1]
  <2>1. stack # <<>> /\ DispatchDone /\ SetTop(f)
    BY <1>8 DEF DrainNext
  <2>2. Head(committed) \in Batches
    BY <1>1, <1>8, HeadTailProperties DEF DrainNext, TypeOK
  <2>3. f \in Frames /\ f.ev = Head(committed) /\ f.at = 1 /\ f.running = Top.running
    BY <1>6, <2>1, <2>2, FrameChanges DEF Frames
  <2>. HIDE DEF f
  <2>4. ~Top.running
    BY <1>1, <1>6, <2>1 DEF FrameInv, DispatchDone
  <2>5. /\ i \in 1..Len(stack)
        /\ IF i = Len(stack) THEN stack'[i] = f ELSE stack'[i] = stack[i]
    BY <1>5, <2>1, <2>3
  <2>. QED
    BY <1>8, <2>3, <2>4, <2>5 DEF KeepsFrame, TakesBatch
<1>9. CASE Notify
  <2>. DEFINE f == [Top EXCEPT !.running = TRUE]
  <2>1. stack # <<>> /\ ~DispatchDone /\ SetTop(f)
    BY <1>9 DEF Notify
  <2>2. f \in Frames /\ f.ev = Top.ev /\ f.at = Top.at /\ f.running = TRUE
    BY <1>6, <2>1, FrameChanges DEF Frames
  <2>. HIDE DEF f
  <2>3. Top.at <= N
    BY <1>1, <1>6, <2>1 DEF DispatchDone
  <2>4. /\ i \in 1..Len(stack)
        /\ IF i = Len(stack) THEN stack'[i] = f ELSE stack'[i] = stack[i]
    BY <1>5, <2>1, <2>2
  <2>. QED
    BY <1>6, <1>9, <2>1, <2>2, <2>3, <2>4 DEF KeepsFrame
<1>10. ASSUME NEW thrown \in 0..1, ListenerReturns(thrown)
       PROVE  KeepsFrame(i)
  <2>. DEFINE f == [Top EXCEPT !.running = FALSE, !.at = @ + 1]
  <2>1. stack # <<>> /\ Top.running /\ SetTop(f) /\ UNCHANGED heard
    BY <1>10 DEF ListenerReturns, history
  <2>2. f \in Frames /\ f.ev = Top.ev /\ f.at = Top.at + 1
    BY <1>6, <2>1, FrameChanges DEF Frames
  <2>. HIDE DEF f
  <2>3. Top.at <= N /\ ~Notify
    BY <1>6, <2>1 DEF FrameInv, Notify
  <2>4. /\ i \in 1..Len(stack)
        /\ IF i = Len(stack) THEN stack'[i] = f ELSE stack'[i] = stack[i]
    BY <1>5, <2>1, <2>2
  <2>. QED
    BY <1>6, <2>1, <2>2, <2>3, <2>4 DEF KeepsFrame
<1>11. CASE ~Notify
  <2>1. CASE FinishCall \/ FinishClose
    BY <1>4, <1>11, <2>1 DEF FinishCall, FinishClose
  <2>2. ASSUME NEW kind \in {"call", "transaction"}, BeginCall(kind) PROVE KeepsFrame(i)
    BY <1>3, <1>11, <2>2 DEF BeginCall
  <2>3. CASE BeginClose
    BY <1>3, <1>11, <2>3 DEF BeginClose
  <2>4. SqliteStep \/ StartIter \/ EndIter \/ UNCHANGED vars => UNCHANGED stack
    BY DEF SqliteStep, Begin, Write, CommitReadOnly, CommitHook, Land, FailCommit,
           RollbackHook, StartIter, EndIter, vars
  <2>. QED
    BY <1>2, <1>7, <1>8, <1>10, <1>11, <2>1, <2>2, <2>3, <2>4 DEF Next, ClosureStep, ProgramStep
<1>. QED
  BY <1>9, <1>11

\* The stash grows by the batch of a commit, and shrinks at either end.
Stashes == engine = "idle" /\ tx # "none" /\ engine' = "approved" /\ UNCHANGED <<tx, txid, seen, heard, stack>>
LEMMA StashMoves ==
  ASSUME IInv, [Next]_vars
  PROVE  /\ committed \in Seq(Batches) /\ Len(committed) \in Nat
         /\ \/ committed' = committed
            \/ /\ Stashes /\ Len(committed') = Len(committed) + 1
               /\ committed'[Len(committed) + 1] = Batch /\ Batch \in Batches
               /\ \A i \in 1..Len(committed) : committed'[i] = committed[i]
            \/ /\ DrainNext /\ Len(committed') = Len(committed) - 1
               /\ \A i \in 1..Len(committed') : committed'[i] = committed[i + 1]
               /\ 1 \in 1..Len(committed) /\ Head(committed) = committed[1]
            \/ /\ \E thrown \in 0..1 : RollbackHook(thrown)
               /\ committed # <<>> /\ Len(committed') = Len(committed) - 1
               /\ \A i \in 1..Len(committed') : committed'[i] = committed[i]
<1>1. TypeOK /\ OpenInv /\ committed \in Seq(Batches) /\ Len(committed) \in Nat
  BY LenProperties DEF IInv, TypeOK
<1>2. ASSUME NEW v \in Verdicts, CommitHook(v), committed' # committed
      PROVE  /\ Stashes /\ Len(committed') = Len(committed) + 1
             /\ committed'[Len(committed) + 1] = Batch /\ Batch \in Batches
             /\ \A i \in 1..Len(committed) : committed'[i] = committed[i]
  <2>1. Stashes /\ committed' = Append(committed, Batch)
    BY <1>2 DEF CommitHook, Stashes, SqlRuns, history
  <2>2. Batch \in Batches
    BY <1>1, <2>1, BatchIsABatch DEF OpenInv, Stashes
  <2>. QED
    BY <1>1, <2>1, <2>2, AppendProperties
<1>3. CASE DrainNext
  <2>1. committed # <<>> /\ committed' = Tail(committed)
    BY <1>3 DEF DrainNext
  <2>. QED
    BY <1>1, <1>3, <2>1, HeadTailProperties, EmptySeq
<1>4. ASSUME NEW thrown \in 0..1, RollbackHook(thrown), committed' # committed
      PROVE  /\ committed # <<>> /\ Len(committed') = Len(committed) - 1
             /\ \A i \in 1..Len(committed') : committed'[i] = committed[i]
  <2>1. committed # <<>> /\ committed' = SubSeq(committed, 1, Len(committed) - 1)
    BY <1>4 DEF RollbackHook, Unstash
  <2>. QED
    BY <1>1, <2>1, DropLast
<1>5. committed' = committed \/ DrainNext \/ (\E v \in Verdicts : CommitHook(v))
      \/ \E thrown \in 0..1 : RollbackHook(thrown)
  BY DEF Next, SqliteStep, ClosureStep, ProgramStep, Begin, Write, CommitReadOnly,
     Land, FailCommit, EndCall, Notify, ListenerReturns,
     FinishCall, FinishClose, BeginCall, BeginClose, StartIter, EndIter, vars, closure
<1>. QED
  BY <1>1, <1>2, <1>3, <1>4, <1>5

-----------------------------------------------------------------------------
(* Which transaction is open, and what has ended.                          *)

\* Transactions are numbered as they open, and one ends before the next opens.
LEMMA TxMoves ==
  ASSUME IInv, [Next]_vars
  PROVE  /\ txid \in Nat /\ txid' \in Nat
         /\ \/ txid' = txid /\ (tx' # "none" => tx # "none")
            \/ txid' = txid + 1 /\ tx = "none" /\ engine = "idle"
<1>1. TypeOK /\ TypeOK'
  BY StepTypeOK DEF IInv
<1>2. txid \in Nat /\ txid' \in Nat
  BY <1>1, BoundsAssumption DEF TypeOK
<1>3. ASSUME NEW immediate \in BOOLEAN, Begin(immediate)
      PROVE  txid' = txid + 1 /\ tx = "none" /\ engine = "idle"
  BY <1>3 DEF Begin, OpenTx, SqlRuns
<1>4. ASSUME NEW reported \in BOOLEAN, NEW thrown \in 0..1, Write(reported, thrown)
      PROVE  \/ UNCHANGED <<tx, txid>>
             \/ txid' = txid + 1 /\ tx = "none" /\ engine = "idle"
  BY <1>4 DEF Write, OpenTx, SqlRuns
<1>5. ASSUME ~ \E immediate \in BOOLEAN : Begin(immediate),
             ~ \E reported \in BOOLEAN, thrown \in 0..1 : Write(reported, thrown)
      PROVE  txid' = txid /\ (tx' # "none" => tx # "none")
  BY <1>5 DEF Next, SqliteStep, ClosureStep, ProgramStep, CommitReadOnly, CommitHook, Land,
     FailCommit, RollbackHook, EndCall, DrainNext, Notify, ListenerReturns, FinishCall,
     FinishClose, BeginCall, BeginClose, StartIter, EndIter, vars, sqlite
<1>. QED
  BY <1>2, <1>3, <1>4, <1>5

\* A transaction lands or is discarded while it is open, and is then over.
LEMMA EndMoves ==
  ASSUME IInv, [Next]_vars
  PROVE  /\ Landed \subseteq Nat /\ discarded \subseteq Nat
         /\ \/ Landed' = Landed /\ discarded' = discarded
            \/ /\ tx # "none" /\ tx' = "none" /\ txid' = txid
               /\ Landed' \union discarded' = Landed \union discarded \union {txid}
<1>1. TypeOK /\ OpenInv /\ log \in Seq(TxIds)
  BY DEF IInv, TypeOK
<1>2. Landed \subseteq Nat /\ discarded \subseteq Nat
  <2>1. TxIds \subseteq Nat
    BY BoundsAssumption DEF TxIds
  <2>2. DOMAIN log = 1..Len(log) /\ \A i \in 1..Len(log) : log[i] \in TxIds
    BY <1>1, LenProperties, ElementOfSeq
  <2>. QED
    BY <1>1, <2>1, <2>2 DEF Landed, Range, TypeOK
<1>3. CASE Land
  <2>1. tx # "none" /\ tx' = "none" /\ txid' = txid /\ log' = Append(log, txid)
        /\ discarded' = discarded /\ txid \in TxIds
    BY <1>1, <1>3 DEF Land, OpenInv
  <2>2. Landed' = Landed \union {txid}
    BY <1>1, <2>1, RangeOfAppend DEF Landed
  <2>. QED
    BY <1>2, <2>1, <2>2
<1>4. ASSUME NEW thrown \in 0..1, RollbackHook(thrown)
      PROVE  /\ tx # "none" /\ tx' = "none" /\ txid' = txid
             /\ Landed' = Landed /\ discarded' = discarded \union {txid}
  BY <1>1, <1>4 DEF RollbackHook, OpenInv, Landed
<1>5. ASSUME FinishClose, discarded' # discarded
      PROVE  /\ tx # "none" /\ tx' = "none" /\ txid' = txid
             /\ Landed' = Landed /\ discarded' = discarded \union {txid}
  <2>1. tx = "explicit"
    BY <1>1, <1>5 DEF FinishClose, TypeOK
  <2>. QED
    BY <1>5, <2>1 DEF FinishClose, Landed
<1>6. ASSUME ~Land, ~ \E thrown \in 0..1 : RollbackHook(thrown)
      PROVE  log' = log /\ (discarded' = discarded \/ FinishClose)
  BY <1>6 DEF Next, SqliteStep, ClosureStep, ProgramStep, Begin, Write, CommitReadOnly,
     CommitHook, FailCommit, EndCall, DrainNext, Notify, ListenerReturns, FinishCall,
     FinishClose, BeginCall, BeginClose, StartIter, EndIter, vars, history
<1>7. log' = log => Landed' = Landed
  BY DEF Landed
<1>. QED
  BY <1>2, <1>3, <1>4, <1>5, <1>6, <1>7

\* LogInv is kept.
LEMMA StepLogInv == IInv /\ LogInv /\ [Next]_vars => LogInv'
<1>. SUFFICES ASSUME IInv, LogInv, [Next]_vars PROVE LogInv'
  OBVIOUS
<1>1. /\ txid \in Nat /\ txid' \in Nat
      /\ \/ txid' = txid /\ (tx' # "none" => tx # "none")
         \/ txid' = txid + 1 /\ tx = "none"
  BY TxMoves
<1>2. CASE Landed' = Landed /\ discarded' = discarded
  BY <1>1, <1>2, EndMoves DEF LogInv
<1>3. CASE tx' = "none" /\ txid' = txid
           /\ Landed' \union discarded' = Landed \union discarded \union {txid}
  BY <1>1, <1>3 DEF LogInv
<1>. QED
  BY <1>2, <1>3, EndMoves

\* While SQLite is not ending a transaction, whatever is stashed or dispatched
\* landed, and the open transaction is none of it.
LEMMA HeldLanded ==
  ASSUME IInv
  PROVE  /\ engine = "idle" => Queued \subseteq Landed
         /\ Queued \subseteq Landed \union {txid}
         /\ \A i \in 1..Len(stack) : stack[i].at <= N => stack[i].ev.of \in Landed
         /\ \A i \in 1..Len(committed) : committed[i].of \in Queued
<1>1. /\ StashInv /\ FramesInv
  BY DEF IInv
<1>. QED
  BY <1>1 DEF StashInv, FramesInv, FrameInv, Queued

\* Only a row that the update hook reports is counted, for the open transaction.
LEMMA SeenMoves ==
  ASSUME IInv, [Next]_vars
  PROVE  /\ seen \in [TxIds -> Nat] /\ seen' \in [TxIds -> Nat]
         /\ \A t \in TxIds : seen'[t] # seen[t] =>
               t = txid' /\ engine = "idle" /\ tx' # "none"
<1>1. TypeOK /\ TypeOK'
  BY StepTypeOK DEF IInv
<1>2. ASSUME NEW reported \in BOOLEAN, NEW thrown \in 0..1, Write(reported, thrown),
             NEW t \in TxIds, seen'[t] # seen[t]
      PROVE  t = txid' /\ engine = "idle" /\ tx' # "none"
  <2>1. engine = "idle" /\ tx' # "none"
    BY <1>2 DEF Write, SqlRuns, OpenTx
  <2>2. seen' = [seen EXCEPT ![txid'] = @ + 1]
    BY <1>2 DEF Write
  <2>. QED
    BY <1>1, <1>2, <2>1, <2>2 DEF TypeOK
<1>3. ASSUME ~ \E reported \in BOOLEAN, thrown \in 0..1 : Write(reported, thrown)
      PROVE  seen' = seen
  BY <1>3 DEF Next, SqliteStep, ClosureStep, ProgramStep, Begin, CommitReadOnly, CommitHook, Land,
     FailCommit, RollbackHook, EndCall, DrainNext, Notify, ListenerReturns, FinishCall,
     FinishClose, BeginCall, BeginClose, StartIter, EndIter, vars, history
<1>. QED
  BY <1>1, <1>2, <1>3 DEF TypeOK

-----------------------------------------------------------------------------
(* Batches account for their transactions.                                 *)

\* BatchAccounts, with the rows seen as a parameter.
AccountsIn(b, counts) ==
  /\ b.count = counts[b.of]
  /\ Len(b.changes) = (IF b.count < MaxChanges THEN b.count ELSE MaxChanges)
  /\ \A i \in 1..Len(b.changes) : b.changes[i] = b.of
  /\ b.coverage = (IF b.count = 0 THEN "unknown"
                   ELSE IF b.count > MaxChanges THEN "truncated" ELSE "complete")

\* BatchesAccount, element by element.
LEMMA HeldBatchesAre ==
  BatchesAccount <=>
     /\ \A i \in DOMAIN committed : AccountsIn(committed[i], seen)
     /\ \A i \in 1..Len(stack) : stack[i].at <= N => AccountsIn(stack[i].ev, seen)
BY DEF BatchesAccount, HeldBatches, Range, BatchAccounts, AccountsIn

\* The same of the state after a step.
LEMMA HeldBatchesAreNext ==
  BatchesAccount' <=>
     /\ \A i \in DOMAIN committed' : AccountsIn(committed'[i], seen')
     /\ \A i \in 1..Len(stack') : stack'[i].at <= N => AccountsIn(stack'[i].ev, seen')
BY DEF BatchesAccount, HeldBatches, Range, BatchAccounts, AccountsIn

\* The batch that a commit stashes or a rollback reports accounts for the open
\* transaction as long as its rows wait.
LEMMA BatchOfPending ==
  ASSUME TypeOK, PendingInv, PendingAccounts
  PROVE  BatchAccounts(Batch)
<1>1. /\ Batch.count = pendingCount /\ Batch.changes = pending /\ Batch.of = txid
      /\ Batch.coverage = Coverage(pending, pendingCount)
  BY DEF Batch
<1>2. /\ \A i \in 1..Len(pending) : pending[i] = txid
      /\ pendingCount = seen[txid] /\ pendingCount \in Nat
      /\ Len(pending) = IF pendingCount < MaxChanges THEN pendingCount ELSE MaxChanges
  BY DEF PendingInv, PendingIsTheOpenTransaction, PendingAccounts, TypeOK
<1>3. Coverage(pending, pendingCount) =
        IF pendingCount = 0 THEN "unknown"
        ELSE IF pendingCount > MaxChanges THEN "truncated" ELSE "complete"
  BY <1>2, RetentionAssumption DEF Coverage
<1>. QED
  BY <1>1, <1>2, <1>3 DEF BatchAccounts

\* Rows wait for the open transaction as they are reported, and until then there
\* are none.
LEMMA StepPendingAccounts ==
  ASSUME IInv, LogInv, AccountInv, [Next]_vars, tx' # "none", txid' \notin Queued'
  PROVE  PendingAccounts'
<1>1. TypeOK /\ PendingInv /\ OpenInv /\ StashInv
  BY DEF IInv
<1>2. /\ pendingCount \in Nat /\ pending \in Seq(TxIds) /\ Len(pending) \in Nat
      /\ MaxChanges \in Nat \ {0} /\ txid \in Nat
      /\ seen \in [TxIds -> Nat]
  BY <1>1, LenProperties, RetentionAssumption, TxMoves DEF TypeOK
<1>3. ASSUME tx # "none", UNCHANGED <<pending, pendingCount, seen, txid, committed>>
      PROVE  PendingAccounts'
  <2>1. txid \notin Queued
    BY <1>3 DEF Queued
  <2>. QED
    BY <1>3, <2>1 DEF AccountInv, PendingAccounts
<1>4. ASSUME tx = "none", OpenTx("implicit") \/ OpenTx("explicit"), ~closed
      PROVE  pendingCount = 0 /\ Len(pending) = 0 /\ seen[txid'] = 0 /\ txid' \in TxIds
  <2>1. pendingCount = 0 /\ Len(pending) = 0
    BY <1>1, <1>2, <1>4 DEF PendingInv, PendingIsTheOpenTransaction
  <2>2. txid' = txid + 1 /\ txid < MaxTx
    BY <1>4 DEF OpenTx
  <2>3. txid' \in TxIds /\ txid' > txid
    BY <1>2, <2>2, BoundsAssumption DEF TxIds
  <2>. QED
    BY <2>1, <2>3 DEF AccountInv
<1>5. ASSUME NEW immediate \in BOOLEAN, Begin(immediate)
      PROVE  PendingAccounts'
  <2>1. /\ pendingCount = 0 /\ Len(pending) = 0 /\ seen[txid'] = 0
        /\ UNCHANGED <<pending, pendingCount, seen>>
    BY <1>4, <1>5 DEF Begin, SqlRuns, closure, history
  <2>. QED
    BY <1>2, <2>1 DEF PendingAccounts
<1>6. ASSUME NEW reported \in BOOLEAN, NEW thrown \in 0..1, Write(reported, thrown)
      PROVE  PendingAccounts'
  <2>1. /\ engine = "idle" /\ ~closed /\ committed' = committed
    BY <1>6 DEF Write, SqlRuns
  <2>2. /\ txid' \in TxIds /\ pendingCount = seen[txid']
        /\ Len(pending) = IF pendingCount < MaxChanges THEN pendingCount ELSE MaxChanges
    <3>1. CASE tx # "none" /\ UNCHANGED <<tx, txid>>
      <4>1. txid \notin Queued /\ txid \in TxIds
        BY <1>1, <2>1, <3>1, HeldLanded DEF LogInv, OpenInv
      <4>. QED
        BY <3>1, <4>1 DEF AccountInv, PendingAccounts
    <3>2. CASE tx = "none" /\ OpenTx("implicit")
      <4>1. pendingCount = 0 /\ Len(pending) = 0 /\ seen[txid'] = 0 /\ txid' \in TxIds
        BY <1>4, <2>1, <3>2
      <4>. QED
        BY <1>2, <4>1
    <3>. QED
      BY <1>6, <3>1, <3>2 DEF Write
  <2>3. CASE ~reported
    <3>1. UNCHANGED <<seen, pending, pendingCount>>
      BY <1>6, <2>3 DEF Write
    <3>. QED
      BY <2>2, <3>1 DEF PendingAccounts
  <2>4. CASE reported
    <3>1. Record(txid') /\ seen' = [seen EXCEPT ![txid'] = @ + 1]
      BY <1>6, <2>4 DEF Write
    <3>2. seen'[txid'] = seen[txid'] + 1 /\ pendingCount' = pendingCount + 1
      BY <1>2, <2>2, <3>1 DEF Record
    <3>3. CASE Len(pending) < MaxChanges
      <4>1. pending' = Append(pending, txid')
        BY <3>1, <3>3 DEF Record
      <4>2. Len(pending') = Len(pending) + 1
        BY <1>2, <2>2, <4>1, AppendProperties
      <4>. QED
        BY <1>2, <2>2, <3>2, <3>3, <4>2 DEF PendingAccounts
    <3>4. CASE ~(Len(pending) < MaxChanges)
      <4>1. pending' = pending
        BY <3>1, <3>4 DEF Record
      <4>. QED
        BY <1>2, <2>2, <3>2, <3>4, <4>1 DEF PendingAccounts
    <3>. QED
      BY <3>3, <3>4
  <2>. QED
    BY <2>3, <2>4
<1>7. ASSUME NEW v \in Verdicts, CommitHook(v)
      PROVE  PendingAccounts'
  <2>1. CASE Vetoes(v)
    BY <1>3, <1>7, <2>1 DEF CommitHook, history
  <2>2. CASE ~Vetoes(v)
    <3>1. committed' = Append(committed, Batch) /\ txid' = txid /\ txid \in TxIds
      BY <1>1, <1>7, <2>2 DEF CommitHook, OpenInv
    <3>2. /\ Len(committed') = Len(committed) + 1 /\ committed'[Len(committed) + 1].of = txid
          /\ Len(committed) \in Nat
      BY <1>1, <3>1, BatchIsABatch, AppendProperties, LenProperties DEF TypeOK
    <3>3. txid' \in Queued'
      BY <3>1, <3>2 DEF Queued
    <3>. QED
      BY <3>3
  <2>. QED
    BY <2>1, <2>2
<1>8. CASE DrainNext
  <2>1. tx # "none" /\ engine = "idle" /\ UNCHANGED <<pending, pendingCount, seen, txid>>
    BY <1>8 DEF DrainNext, sqlite
  <2>2. txid \notin Queued
    BY <2>1, HeldLanded DEF LogInv
  <2>. QED
    BY <2>1, <2>2 DEF AccountInv, PendingAccounts
<1>9. ~Land /\ ~FinishClose /\ ~ \E thrown \in 0..1 : RollbackHook(thrown)
  BY DEF Land, RollbackHook, FinishClose
<1>10. CASE CommitReadOnly \/ FailCommit \/ EndCall \/ Notify \/ FinishCall \/ ProgramStep
            \/ (\E thrown \in 0..1 : ListenerReturns(thrown)) \/ UNCHANGED vars
  BY <1>3, <1>10 DEF CommitReadOnly, FailCommit, EndCall, Notify, FinishCall, ListenerReturns,
     ProgramStep, BeginCall, BeginClose, StartIter, EndIter, vars, sqlite, closure, history
<1>. QED
  BY <1>5, <1>6, <1>7, <1>8, <1>9, <1>10 DEF Next, SqliteStep, ClosureStep

\* AccountInv is kept.
LEMMA StepAccountInv == IInv /\ LogInv /\ AccountInv /\ [Next]_vars => AccountInv'
<1>. SUFFICES ASSUME IInv, LogInv, AccountInv, [Next]_vars PROVE AccountInv'
  OBVIOUS
<1>1. /\ TypeOK /\ LogInv' /\ txid \in Nat /\ txid' \in Nat /\ TxIds \subseteq Nat
      /\ Landed \subseteq Landed'
  BY StepLogInv, TxMoves, LandedGrows, BoundsAssumption DEF IInv, TxIds
<1>2. ASSUME NEW t \in TxIds, t > txid' PROVE seen'[t] = 0
  <2>1. t > txid /\ t # txid'
    BY <1>1, <1>2, TxMoves
  <2>. QED
    BY <1>1, <2>1, SeenMoves DEF AccountInv
<1>3. ASSUME NEW b, b.of \in Landed, b.of \in TxIds, AccountsIn(b, seen)
      PROVE  AccountsIn(b, seen')
  <2>1. seen'[b.of] = seen[b.of]
    BY <1>1, <1>3, SeenMoves DEF LogInv
  <2>. QED
    BY <1>3, <2>1 DEF AccountsIn
<1>4. \A i \in 1..Len(committed) : AccountsIn(committed[i], seen) /\ committed[i].of \in TxIds
  <2>1. committed \in Seq(Batches)
    BY <1>1 DEF TypeOK
  <2>2. DOMAIN committed = 1..Len(committed) /\ \A i \in 1..Len(committed) : committed[i] \in Batches
    BY <2>1, LenProperties, ElementOfSeq
  <2>. QED
    BY <2>2, HeldBatchesAre DEF AccountInv, Batches
<1>5. ASSUME NEW i \in 1..Len(committed) PROVE AccountsIn(committed[i], seen')
  <2>1. CASE committed[i].of \in Landed
    BY <1>3, <1>4, <2>1
  <2>2. CASE committed[i].of \notin Landed
    <3>1. engine # "idle"
      BY <2>2, HeldLanded
    <3>2. seen'[committed[i].of] = seen[committed[i].of]
      BY <1>4, <3>1, SeenMoves
    <3>. QED
      BY <1>4, <3>2 DEF AccountsIn
  <2>. QED
    BY <2>1, <2>2
<1>6. \A i \in 1..Len(committed') : AccountsIn(committed'[i], seen')
  <2>1. CASE committed' = committed
    BY <1>5, <2>1
  <2>2. CASE /\ Stashes /\ Len(committed') = Len(committed) + 1
             /\ committed'[Len(committed) + 1] = Batch /\ Batch \in Batches
             /\ \A i \in 1..Len(committed) : committed'[i] = committed[i]
    <3>1. txid \notin Queued
      BY <2>2, HeldLanded DEF LogInv, Stashes
    <3>2. AccountsIn(Batch, seen) /\ Batch.of = txid
      BY <1>1, <2>2, <3>1, BatchOfPending DEF AccountInv, IInv, Stashes, Batch, BatchAccounts, AccountsIn
    <3>3. AccountsIn(committed'[Len(committed) + 1], seen')
      BY <2>2, <3>2 DEF AccountsIn, Stashes
    <3>. QED
      BY <1>5, <2>2, <3>3, StashMoves
  <2>3. CASE /\ Len(committed') = Len(committed) - 1
             /\ \A i \in 1..Len(committed') : committed'[i] = committed[i + 1]
    BY <1>5, <2>3, StashMoves
  <2>4. CASE /\ Len(committed') = Len(committed) - 1
             /\ \A i \in 1..Len(committed') : committed'[i] = committed[i]
    BY <1>5, <2>4, StashMoves
  <2>. QED
    BY <2>1, <2>2, <2>3, <2>4, StashMoves
<1>7. \A i \in 1..Len(stack') : stack'[i].at <= N => AccountsIn(stack'[i].ev, seen')
  <2>1. ASSUME NEW i \in 1..Len(stack), stack[i].at <= N PROVE AccountsIn(stack[i].ev, seen')
    <3>1. stack[i].ev.of \in Landed /\ stack[i].ev \in Batches
      BY <2>1, HeldLanded DEF IInv, FramesInv, FrameInv
    <3>2. AccountsIn(stack[i].ev, seen)
      BY <2>1, HeldBatchesAre DEF AccountInv
    <3>3. stack[i].ev.of \in TxIds
      BY <3>1 DEF Batches
    <3>. QED
      BY <1>3, <3>1, <3>2, <3>3
  <2>2. ASSUME NEW i \in 1..Len(stack'), stack'[i].at <= N PROVE AccountsIn(stack'[i].ev, seen')
    <3>1. CASE KeepsFrame(i)
      BY <2>1, <3>1 DEF KeepsFrame
    <3>2. CASE TakesBatch(i)
      <4>1. stack'[i].ev = committed[1] /\ 1 \in 1..Len(committed)
        <5>1. committed \in Seq(Batches) /\ committed # <<>>
          BY <1>1, <3>2 DEF TakesBatch, DrainNext, TypeOK
        <5>. QED
          BY <3>2, <5>1, EmptySeq, HeadTailProperties DEF TakesBatch
      <4>2. AccountsIn(committed[1], seen')
        BY <1>5, <4>1
      <4>. QED
        BY <4>1, <4>2 DEF AccountsIn
    <3>. QED
      BY <2>2, <3>1, <3>2, StackMoves
  <2>. QED
    BY <2>2
<1>8. BatchesAccount'
  <2>1. DOMAIN committed' = 1..Len(committed')
    <3>1. TypeOK'
      BY StepTypeOK
    <3>. QED
      BY <3>1, LenProperties DEF TypeOK
  <2>. QED
    BY <1>6, <1>7, <2>1, HeldBatchesAreNext
<1>. QED
  BY <1>2, <1>8, StepPendingAccounts DEF AccountInv

-----------------------------------------------------------------------------
(* Nobody hears twice of one transaction.                                  *)

\* QueueInv is kept: a stashed batch is that of the open transaction, which is
\* neither in the stash nor in a frame, and a drained one leaves the stash.
LEMMA StepQueueInv == IInv /\ LogInv /\ QueueInv /\ [Next]_vars => QueueInv'
<1>. SUFFICES ASSUME IInv, LogInv, QueueInv, [Next]_vars PROVE QueueInv'
  OBVIOUS
<1>1. /\ Len(committed) \in Nat
      /\ \A i \in 1..Len(committed) : committed[i].of \in Queued
      /\ \A i \in 1..Len(stack) : stack[i].at <= N =>
            stack[i].ev.of \in Landed /\ stack[i].ev.of \notin Queued
  BY StashMoves, HeldLanded DEF QueueInv
<1>2. Stashes => txid \notin Queued /\ txid \notin Landed
  BY HeldLanded DEF Stashes, LogInv
<1>3. Batch.of = txid
  BY DEF Batch
<1>4. /\ \A i, j \in 1..Len(committed') : committed'[i].of = committed'[j].of => i = j
      /\ Queued' \subseteq Queued \/ (Stashes /\ Queued' \subseteq Queued \union {txid})
  <2>0. Queued' = {committed'[i].of : i \in 1..Len(committed')}
    BY DEF Queued
  <2>1. CASE committed' = committed
    BY <2>0, <2>1 DEF QueueInv, Queued
  <2>2. CASE /\ Stashes /\ Len(committed') = Len(committed) + 1
             /\ committed'[Len(committed) + 1] = Batch
             /\ \A i \in 1..Len(committed) : committed'[i] = committed[i]
    <3>1. \A i \in 1..Len(committed') : i \in 1..Len(committed) \/ i = Len(committed) + 1
      BY <1>1, <2>2
    <3>. QED
      BY <1>1, <1>2, <1>3, <2>0, <2>2, <3>1 DEF QueueInv
  <2>3. CASE /\ Len(committed') = Len(committed) - 1
             /\ \A i \in 1..Len(committed') : committed'[i] = committed[i + 1]
    <3>1. \A i \in 1..Len(committed') : i + 1 \in 1..Len(committed)
      BY <1>1, <2>3
    <3>2. ASSUME NEW i \in 1..Len(committed'), NEW j \in 1..Len(committed'),
                 committed'[i].of = committed'[j].of
          PROVE  i = j
      <4>1. i + 1 = j + 1
        BY <2>3, <3>1, <3>2 DEF QueueInv
      <4>. QED
        BY <4>1
    <3>3. Queued' \subseteq Queued
      BY <1>1, <2>0, <2>3, <3>1
    <3>. QED
      BY <3>2, <3>3
  <2>4. CASE /\ Len(committed') = Len(committed) - 1
             /\ \A i \in 1..Len(committed') : committed'[i] = committed[i]
    BY <1>1, <2>0, <2>4 DEF QueueInv
  <2>. QED
    BY <2>1, <2>2, <2>3, <2>4, StashMoves
<1>5. ASSUME NEW i \in 1..Len(stack'), stack'[i].at <= N, TakesBatch(i)
      PROVE  /\ stack'[i].ev.of = committed[1].of /\ stack'[i].ev.of \in Queued
             /\ stack'[i].ev.of \notin Queued' /\ i = Len(stack)
  <2>1. DrainNext /\ i = Len(stack) /\ stack'[i].ev = Head(committed) /\ engine' # "approved"
        /\ committed # <<>> /\ committed' = Tail(committed) /\ committed \in Seq(Batches)
    BY <1>5, StashMoves DEF TakesBatch, DrainNext, sqlite
  <2>2. /\ 1 \in 1..Len(committed) /\ Head(committed) = committed[1]
        /\ Len(committed') = Len(committed) - 1
        /\ \A j \in 1..Len(committed') : committed'[j] = committed[j + 1]
    BY <2>1, HeadTailProperties, EmptySeq
  <2>3. \A j \in 1..Len(committed') : committed'[j].of # committed[1].of
    BY <1>1, <2>2 DEF QueueInv
  <2>. QED
    BY <1>1, <2>1, <2>2, <2>3 DEF Queued
<1>6. ASSUME NEW i \in 1..Len(stack'), stack'[i].at <= N, KeepsFrame(i)
      PROVE  /\ i \in 1..Len(stack) /\ stack[i].at <= N /\ stack'[i].ev = stack[i].ev
             /\ stack'[i].ev.of \notin Queued /\ stack'[i].ev.of \notin Queued'
  BY <1>1, <1>2, <1>4, <1>6 DEF KeepsFrame
<1>7. ASSUME NEW i \in 1..Len(stack'), stack'[i].at <= N
      PROVE  /\ stack'[i].ev.of \notin Queued'
             /\ \A j \in 1..Len(stack') :
                  stack'[j].at <= N /\ stack'[j].ev.of = stack'[i].ev.of => j = i
  <2>1. stack'[i].ev.of \notin Queued'
    BY <1>5, <1>6, <1>7, StackMoves
  <2>2. ASSUME NEW j \in 1..Len(stack'), stack'[j].at <= N, stack'[j].ev.of = stack'[i].ev.of
        PROVE  j = i
    <3>1. CASE KeepsFrame(i) /\ KeepsFrame(j)
      BY <1>6, <1>7, <2>2, <3>1 DEF QueueInv
    <3>2. CASE TakesBatch(i) /\ TakesBatch(j)
      BY <1>5, <1>7, <2>2, <3>2
    <3>3. CASE TakesBatch(i) /\ KeepsFrame(j)
      BY <1>5, <1>6, <1>7, <2>2, <3>3
    <3>4. CASE KeepsFrame(i) /\ TakesBatch(j)
      BY <1>5, <1>6, <1>7, <2>2, <3>4
    <3>. QED
      BY <1>7, <2>2, <3>1, <3>2, <3>3, <3>4, StackMoves
  <2>. QED
    BY <2>1, <2>2
<1>. QED
  BY <1>4, <1>7 DEF QueueInv

Distinct(s) == \A i, j \in 1..Len(s) : s[i].of = s[j].of => i = j

\* One more thing heard is one more transaction, and no second time if it is new.
LEMMA HearOnce ==
  ASSUME NEW s \in Seq(Notices), NEW x \in Notices
  PROVE  LET r == Append(s, x)
         IN /\ {r[i].of : i \in 1..Len(r)} = {s[i].of : i \in 1..Len(s)} \union {x.of}
            /\ Distinct(s) /\ x.of \notin {s[i].of : i \in 1..Len(s)} => Distinct(r)
<1>. DEFINE r == Append(s, x)
<1>1. /\ Len(r) = Len(s) + 1 /\ Len(s) \in Nat /\ r[Len(s) + 1] = x
      /\ \A i \in 1..Len(s) : r[i] = s[i]
  BY AppendProperties, LenProperties
<1>. HIDE DEF r
<1>2. \A i \in 1..Len(r) : i \in 1..Len(s) \/ i = Len(s) + 1
  BY <1>1
<1>3. {r[i].of : i \in 1..Len(r)} = {s[i].of : i \in 1..Len(s)} \union {x.of}
  BY <1>1, <1>2
<1>4. Distinct(s) /\ x.of \notin {s[i].of : i \in 1..Len(s)} => Distinct(r)
  BY <1>1, <1>2 DEF Distinct
<1>. QED
  BY <1>3, <1>4 DEF r

\* Listener l hears of t: from the frame that calls it, or from a rollback, which
\* is about the newest batch of the stash or, if there is none, the open one.
FromFrame(l, t) == Notify /\ stack # <<>> /\ l = Top.at /\ t = Top.ev.of
FromOpen(t) ==
  ~Notify /\ tx # "none" /\ tx' = "none" /\ t = txid /\ committed' = <<>>
FromStash(t) ==
  /\ ~Notify /\ tx' = "none" /\ committed # <<>> /\ t = committed[Len(committed)].of
  /\ Len(committed') = Len(committed) - 1
  /\ \A i \in 1..Len(committed') : committed'[i] = committed[i]
Hears(l, t) ==
  /\ HeardOf(l)' = HeardOf(l) \union {t}
  /\ Distinct(heard[l]) /\ t \notin HeardOf(l) => Distinct(heard'[l])
  /\ FromFrame(l, t) \/ FromOpen(t) \/ FromStash(t)
LEMMA HeardMoves ==
  ASSUME IInv, [Next]_vars, NEW l \in 1..N
  PROVE  heard'[l] = heard[l] \/ \E t : Hears(l, t)
<1>1. /\ TypeOK /\ OpenInv /\ FramesInv /\ heard \in [1..N -> Seq(Notices)]
      /\ committed \in Seq(Batches)
  BY DEF IInv, TypeOK
<1>2. ASSUME NEW x \in Notices, heard'[l] = Append(heard[l], x),
             FromFrame(l, x.of) \/ FromOpen(x.of) \/ FromStash(x.of)
      PROVE  Hears(l, x.of)
  BY <1>1, <1>2, HearOnce DEF Hears, HeardOf
<1>3. CASE Notify
  <2>1. /\ heard' = [heard EXCEPT ![Top.at] = Append(@, [type |-> "postcommit", of |-> Top.ev.of])]
        /\ stack # <<>> /\ ~DispatchDone
    BY <1>3 DEF Notify
  <2>2. CASE l # Top.at
    BY <1>1, <2>1, <2>2
  <2>3. CASE l = Top.at
    <3>1. Top.ev \in Batches
      BY <1>1, <2>1, <2>3, TopIsAFrame DEF FramesInv, FrameInv, Top
    <3>2. [type |-> "postcommit", of |-> Top.ev.of] \in Notices
      BY <3>1 DEF Batches, Notices
    <3>3. heard'[l] = Append(heard[l], [type |-> "postcommit", of |-> Top.ev.of])
      BY <1>1, <2>1, <2>3
    <3>4. FromFrame(l, [type |-> "postcommit", of |-> Top.ev.of].of)
      BY <1>3, <2>1, <2>3 DEF FromFrame
    <3>. QED
      BY <1>2, <3>2, <3>3, <3>4
  <2>. QED
    BY <2>2, <2>3
<1>4. ASSUME NEW t \in TxIds, heard' = [k \in 1..N |-> Append(heard[k], [type |-> "rollback", of |-> t])],
             FromOpen(t) \/ FromStash(t)
      PROVE  \E u : Hears(l, u)
  <2>1. [type |-> "rollback", of |-> t] \in Notices
    BY DEF Notices
  <2>2. heard'[l] = Append(heard[l], [type |-> "rollback", of |-> t])
    BY <1>4
  <2>3. Hears(l, [type |-> "rollback", of |-> t].of)
    BY <1>2, <1>4, <2>1, <2>2
  <2>. QED
    BY <2>3
<1>5. ASSUME NEW thrown \in 0..1, RollbackHook(thrown)
      PROVE  \E u : Hears(l, u)
  <2>1. /\ tx # "none" /\ tx' = "none" /\ ~Notify /\ txid \in TxIds /\ Unstash
        /\ heard' = [k \in 1..N |-> Append(heard[k], [type |-> "rollback", of |-> RolledBack.of])]
    BY <1>1, <1>5 DEF RollbackHook, HearEverywhere, OpenInv, Notify
  <2>2. CASE committed = <<>>
    <3>1. RolledBack.of = txid /\ committed' = <<>>
      BY <2>1, <2>2 DEF RolledBack, Batch, Unstash
    <3>. QED
      BY <1>4, <2>1, <3>1 DEF FromOpen
  <2>3. CASE committed # <<>>
    <3>1. RolledBack = committed[Len(committed)]
          /\ committed' = SubSeq(committed, 1, Len(committed) - 1)
      BY <2>1, <2>3 DEF RolledBack, Unstash
    <3>2. committed[Len(committed)] \in Batches
      BY <1>1, <2>3, LastElement
    <3>3. RolledBack.of \in TxIds
      BY <3>1, <3>2 DEF Batches
    <3>4. FromStash(RolledBack.of)
      BY <1>1, <2>1, <2>3, <3>1, DropLast DEF FromStash
    <3>. QED
      BY <1>4, <2>1, <3>3, <3>4
  <2>. QED
    BY <2>2, <2>3
<1>6. ASSUME FinishClose, heard' # heard
      PROVE  \E u : Hears(l, u)
  <2>1. tx = "explicit" /\ ~Notify /\ tx' = "none" /\ committed' = <<>>
    BY <1>1, <1>6 DEF FinishClose, TypeOK, Notify, Drained
  <2>2. heard' = [k \in 1..N |-> Append(heard[k], [type |-> "rollback", of |-> txid])]
        /\ txid \in TxIds
    BY <1>1, <1>6, <2>1 DEF FinishClose, HearEverywhere, OpenInv
  <2>. QED
    BY <1>4, <2>1, <2>2 DEF FromOpen
<1>7. heard' = heard \/ Notify \/ FinishClose \/ \E thrown \in 0..1 : RollbackHook(thrown)
  BY DEF Next, SqliteStep, ClosureStep, ProgramStep, Begin, Write, CommitReadOnly,
     CommitHook, Land, FailCommit, EndCall, DrainNext, ListenerReturns,
     FinishCall, BeginCall, BeginClose, StartIter, EndIter, vars, history
<1>. QED
  BY <1>3, <1>5, <1>6, <1>7

\* HeardInv is kept, for each listener.
LEMMA StepHeardInv == IInv /\ LogInv /\ QueueInv /\ HeardInv /\ [Next]_vars => HeardInv'
<1>. SUFFICES ASSUME IInv, LogInv, QueueInv, HeardInv, [Next]_vars PROVE HeardInv'
  OBVIOUS
<1>1. /\ LogInv' /\ QueueInv' /\ txid \in Nat /\ txid' \in Nat /\ Landed \subseteq Nat
      /\ Len(committed) \in Nat /\ Len(stack) \in Nat /\ N \in Nat
      /\ \A i \in 1..Len(committed) : committed[i].of \in Queued
      /\ \A i \in 1..Len(stack) : stack[i].at <= N => stack[i].ev.of \in Landed
      /\ Queued \subseteq Landed \union {txid}
  BY StepLogInv, StepQueueInv, TxMoves, EndMoves, StashMoves, HeldLanded, LenProperties,
     ListenersAssumption DEF IInv, TypeOK
<1>2. ASSUME NEW l \in 1..N
      PROVE  /\ Distinct(heard[l])
             /\ \A t \in HeardOf(l) : t <= txid
             /\ tx # "none" => txid \notin HeardOf(l)
             /\ HeardOf(l) \intersect Queued = {}
             /\ \A i \in 1..Len(stack) : Awaits(stack[i], l) => stack[i].ev.of \notin HeardOf(l)
  BY <1>2 DEF HeardInv, EndsOnce, Distinct
\* What a listener newly hears of it had not heard of, and nobody will tell it again.
<1>3. ASSUME NEW l \in 1..N, NEW t, FromFrame(l, t)
      PROVE  /\ t \notin HeardOf(l) /\ t \in Landed /\ t \notin Queued /\ l = stack[Len(stack)].at
             /\ stack[Len(stack)].at <= N /\ Len(stack) \in 1..Len(stack)
             /\ stack[Len(stack)].ev.of = t
             /\ committed' = committed /\ txid' = txid
  <2>1. /\ stack # <<>> /\ l = Top.at /\ t = Top.ev.of /\ ~Top.running
        /\ committed' = committed /\ txid' = txid
    BY <1>3 DEF FromFrame, Notify, sqlite, closure
  <2>2. Len(stack) \in 1..Len(stack) /\ Top = stack[Len(stack)]
    BY <2>1, TopIsAFrame DEF IInv, Top
  <2>3. Awaits(stack[Len(stack)], l)
    BY <2>1, <2>2 DEF Awaits
  <2>. QED
    BY <1>1, <1>2, <2>1, <2>2, <2>3 DEF QueueInv
<1>4. ASSUME NEW l \in 1..N, NEW t, FromOpen(t)
      PROVE  /\ t \notin HeardOf(l) /\ t = txid /\ t \notin Landed /\ tx' = "none" /\ ~Notify
             /\ Queued' = {}
  <2>1. Len(committed') = 0
    BY <1>4, EmptySeq DEF FromOpen
  <2>. QED
    BY <1>2, <1>4, <2>1 DEF FromOpen, LogInv, Queued
<1>5. ASSUME NEW l \in 1..N, NEW t, FromStash(t)
      PROVE  /\ t \notin HeardOf(l) /\ t \in Queued /\ tx' = "none" /\ ~Notify
             /\ t \notin Queued' /\ Queued' \subseteq Queued
  <2>1. Len(committed) \in 1..Len(committed) /\ t = committed[Len(committed)].of
    BY <1>1, <1>5, StashMoves, EmptySeq DEF FromStash
  <2>2. \A i \in 1..Len(committed') : i \in 1..Len(committed) /\ i # Len(committed)
    BY <1>1, <1>5 DEF FromStash
  <2>3. \A i \in 1..Len(committed') : committed'[i].of # t /\ committed'[i].of \in Queued
    BY <1>1, <1>5, <2>1, <2>2 DEF FromStash, QueueInv
  <2>. QED
    BY <1>1, <1>2, <1>5, <2>1, <2>3 DEF FromStash, Queued
<1>6. ASSUME NEW l \in 1..N, NEW t, Hears(l, t)
      PROVE  t \notin HeardOf(l) /\ t <= txid
  <2>1. CASE FromFrame(l, t)
    BY <1>1, <1>3, <2>1 DEF LogInv
  <2>2. CASE FromOpen(t)
    BY <1>1, <1>4, <2>2
  <2>3. CASE FromStash(t)
    <3>1. t \notin HeardOf(l) /\ t \in Queued
      BY <1>5, <2>3
    <3>2. t \in Landed \/ t = txid
      BY <1>1, <3>1
    <3>. QED
      BY <1>1, <3>1, <3>2 DEF LogInv
  <2>. QED
    BY <1>6, <2>1, <2>2, <2>3 DEF Hears
<1>7. ASSUME NEW l \in 1..N PROVE Distinct(heard'[l])
  BY <1>2, <1>6, HeardMoves DEF Hears
<1>8. ASSUME NEW l \in 1..N, NEW t \in HeardOf(l)' PROVE t <= txid
  <2>1. CASE heard'[l] = heard[l]
    BY <1>2, <1>8, <2>1 DEF HeardOf
  <2>2. ASSUME NEW u, Hears(l, u) PROVE t <= txid
    BY <1>2, <1>6, <1>8, <2>2 DEF Hears
  <2>. QED
    BY <2>1, <2>2, HeardMoves
<1>9. ASSUME NEW l \in 1..N, tx' # "none" PROVE txid' \notin HeardOf(l)'
  <2>1. CASE txid' = txid + 1
    <3>1. ASSUME txid' \in HeardOf(l)' PROVE FALSE
      BY <1>1, <1>8, <2>1, <3>1
    <3>. QED
      BY <3>1
  <2>2. CASE txid' = txid /\ tx # "none"
    <3>1. CASE heard'[l] = heard[l]
      BY <1>2, <2>2, <3>1 DEF HeardOf
    <3>2. ASSUME NEW t, Hears(l, t) PROVE txid' \notin HeardOf(l)'
      <4>1. FromFrame(l, t)
        BY <1>9, <3>2 DEF Hears, FromOpen, FromStash
      <4>2. t # txid
        BY <1>3, <2>2, <4>1 DEF LogInv
      <4>. QED
        BY <1>2, <2>2, <3>2, <4>2 DEF Hears
    <3>. QED
      BY <3>1, <3>2, HeardMoves
  <2>. QED
    BY <1>9, <2>1, <2>2, TxMoves
<1>10. ASSUME NEW l \in 1..N PROVE HeardOf(l)' \intersect Queued' = {}
  <2>1. CASE heard'[l] = heard[l]
    <3>1. HeardOf(l)' = HeardOf(l)
      BY <2>1 DEF HeardOf
    <3>2. Queued' \subseteq Queued \/ (Stashes /\ Queued' \subseteq Queued \union {txid})
      <4>1. CASE committed' = committed
        BY <4>1 DEF Queued
      <4>2. CASE /\ Stashes /\ Len(committed') = Len(committed) + 1
                 /\ committed'[Len(committed) + 1] = Batch
                 /\ \A i \in 1..Len(committed) : committed'[i] = committed[i]
        <5>1. \A i \in 1..Len(committed') : i \in 1..Len(committed) \/ i = Len(committed) + 1
          BY <1>1, <4>2
        <5>. QED
          BY <1>1, <4>2, <5>1 DEF Queued, Batch
      <4>3. CASE /\ Len(committed') = Len(committed) - 1
                 /\ \A i \in 1..Len(committed') : committed'[i] = committed[i + 1]
        <5>1. \A i \in 1..Len(committed') : i + 1 \in 1..Len(committed)
          BY <1>1, <4>3
        <5>. QED
          BY <1>1, <4>3, <5>1 DEF Queued
      <4>4. CASE /\ Len(committed') = Len(committed) - 1
                 /\ \A i \in 1..Len(committed') : committed'[i] = committed[i]
        BY <1>1, <4>4 DEF Queued
      <4>. QED
        BY <4>1, <4>2, <4>3, <4>4, StashMoves
    <3>. QED
      BY <1>2, <3>1, <3>2 DEF Stashes
  <2>2. ASSUME NEW t, Hears(l, t) PROVE HeardOf(l)' \intersect Queued' = {}
    <3>1. HeardOf(l)' = HeardOf(l) \union {t}
      BY <2>2 DEF Hears
    <3>2. Queued' \subseteq Queued /\ t \notin Queued'
      <4>1. CASE FromFrame(l, t)
        BY <1>3, <4>1 DEF Queued
      <4>. QED
        BY <1>4, <1>5, <2>2, <4>1 DEF Hears
    <3>. QED
      BY <1>2, <3>1, <3>2
  <2>. QED
    BY <2>1, <2>2, HeardMoves
<1>11. ASSUME NEW l \in 1..N, NEW i \in 1..Len(stack'), Awaits(stack'[i], l)
       PROVE  stack'[i].ev.of \notin HeardOf(l)'
  <2>1. stack'[i].at <= N /\ (l > stack'[i].at \/ (l = stack'[i].at /\ ~stack'[i].running))
    BY <1>11 DEF Awaits
  <2>2. CASE TakesBatch(i)
    <3>1. DrainNext /\ UNCHANGED heard /\ stack'[i].ev = Head(committed)
      BY <2>2 DEF TakesBatch, DrainNext
    <3>2. committed # <<>> /\ committed \in Seq(Batches)
      BY <3>1, StashMoves DEF DrainNext
    <3>3. 1 \in 1..Len(committed) /\ Head(committed) = committed[1]
      BY <3>2, EmptySeq, HeadTailProperties
    <3>4. stack'[i].ev.of \in Queued /\ HeardOf(l)' = HeardOf(l)
      BY <1>1, <3>1, <3>3 DEF HeardOf
    <3>. QED
      BY <1>2, <3>4
  <2>3. CASE KeepsFrame(i)
    <3>1. /\ i \in 1..Len(stack) /\ stack[i].at <= N /\ stack'[i].ev = stack[i].ev
          /\ stack[i].ev.of \in Landed /\ stack[i].ev.of \notin Queued
      BY <1>1, <2>3 DEF KeepsFrame, QueueInv
    <3>2. CASE stack'[i] = stack[i] /\ (i # Len(stack) \/ ~Notify)
      <4>1. stack[i].ev.of \notin HeardOf(l)
        BY <1>2, <1>11, <3>1, <3>2
      <4>2. ASSUME NEW t, Hears(l, t) PROVE stack[i].ev.of # t
        <5>1. CASE FromFrame(l, t)
          <6>1. i # Len(stack) /\ Len(stack) \in 1..Len(stack)
                /\ stack[Len(stack)].at <= N /\ stack[Len(stack)].ev.of = t
            BY <1>3, <3>2, <5>1 DEF FromFrame
          <6>. QED
            BY <3>1, <6>1 DEF QueueInv
        <5>. QED
          BY <1>4, <1>5, <3>1, <4>2, <5>1 DEF Hears
      <4>3. CASE heard'[l] = heard[l]
        BY <3>1, <4>1, <4>3 DEF HeardOf
      <4>. QED
        BY <3>1, <4>1, <4>2, <4>3, HeardMoves DEF Hears
    <3>3. CASE Notify /\ i = Len(stack) /\ stack'[i].at = stack[i].at /\ stack'[i].running
      <4>1. l > stack[i].at /\ stack[i].at \in Nat
        <5>1. stack[i] \in Frames
          BY <3>1, ElementOfSeq DEF IInv, TypeOK
        <5>. QED
          BY <2>1, <3>3, <5>1 DEF Frames
      <4>2. heard'[l] = heard[l]
        <5>1. ASSUME NEW t, Hears(l, t) PROVE FALSE
          <6>1. FromFrame(l, t)
            BY <3>3, <5>1 DEF Hears, FromOpen, FromStash
          <6>2. l = stack[i].at
            BY <1>3, <3>3, <6>1
          <6>. QED
            BY <4>1, <6>2
        <5>. QED
          BY <5>1, HeardMoves
      <4>3. stack[i].ev.of \notin HeardOf(l)
        BY <1>2, <3>1, <4>1 DEF Awaits
      <4>. QED
        BY <3>1, <4>2, <4>3 DEF HeardOf
    <3>4. CASE i = Len(stack) /\ stack'[i].at = stack[i].at + 1 /\ UNCHANGED heard
      <4>1. l > stack[i].at
        <5>1. stack[i].at \in Nat
          <6>1. stack[i] \in Frames
            BY <3>1, ElementOfSeq DEF IInv, TypeOK
          <6>. QED
            BY <6>1 DEF Frames
        <5>. QED
          BY <2>1, <3>4, <5>1
      <4>2. stack[i].ev.of \notin HeardOf(l)
        BY <1>2, <3>1, <4>1 DEF Awaits
      <4>. QED
        BY <3>1, <3>4, <4>2 DEF HeardOf
    <3>. QED
      BY <2>3, <3>2, <3>3, <3>4 DEF KeepsFrame
  <2>. QED
    BY <2>1, <2>2, <2>3, StackMoves
<1>12. EndsOnce'
  BY <1>7 DEF EndsOnce, Distinct
<1>13. \A l \in 1..N : \A t \in HeardOf(l)' : t <= txid'
  <2>1. txid <= txid'
    BY <1>1, TxMoves
  <2>2. ASSUME NEW l \in 1..N, NEW t \in HeardOf(l)' PROVE t <= txid'
    <3>1. t <= txid
      BY <1>8, <2>2
    <3>2. t \in Nat
      <4>1. heard'[l] \in Seq(Notices)
        BY StepTypeOK DEF TypeOK
      <4>2. \A i \in 1..Len(heard'[l]) : heard'[l][i] \in Notices
        BY <4>1, ElementOfSeq
      <4>. QED
        BY <2>2, <4>2, BoundsAssumption DEF HeardOf, Notices, TxIds
    <3>. QED
      BY <1>1, <2>1, <3>1, <3>2
  <2>. QED
    BY <2>2
<1>. QED
  BY <1>9, <1>10, <1>11, <1>12, <1>13 DEF HeardInv

-----------------------------------------------------------------------------
(* No landed transaction is forgotten.                                     *)

\* A batch leaves the stash to be announced, by one event or the other.
LEMMA AnnouncedMoves ==
  ASSUME IInv, [Next]_vars
  PROVE  /\ Told \subseteq Told' /\ Rolled \subseteq Rolled'
         /\ Queued \subseteq Queued' \union Told' \union Rolled'
<1>1. /\ TypeOK /\ committed \in Seq(Batches) /\ told \in Seq(TxIds) /\ rolled \in Seq(Batches)
      /\ Len(committed) \in Nat
  BY LenProperties DEF IInv, TypeOK
<1>2. ASSUME NEW b \in Batches, rolled' = Append(rolled, b)
      PROVE  Rolled \subseteq Rolled' /\ b.of \in Rolled'
  <2>1. /\ Len(rolled') = Len(rolled) + 1 /\ rolled'[Len(rolled) + 1] = b /\ Len(rolled) \in Nat
        /\ \A i \in 1..Len(rolled) : rolled'[i] = rolled[i]
    BY <1>1, <1>2, AppendProperties, LenProperties
  <2>2. \A i \in 1..Len(rolled) : i \in 1..Len(rolled')
    BY <2>1
  <2>3. Len(rolled) + 1 \in 1..Len(rolled')
    BY <2>1
  <2>. QED
    BY <2>1, <2>2, <2>3 DEF Rolled
<1>3. CASE DrainNext
  <2>1. /\ committed # <<>> /\ told' = Append(told, Head(committed).of) /\ rolled' = rolled
        /\ Head(committed) = committed[1] /\ 1 \in 1..Len(committed)
        /\ committed' = Tail(committed)
    BY <1>1, <1>3, EmptySeq, HeadTailProperties DEF DrainNext
  <2>2. committed[1] \in Batches
    BY <1>1, <2>1, ElementOfSeq
  <2>3. committed[1].of \in TxIds
    BY <2>2 DEF Batches
  <2>4. Told' = Told \union {committed[1].of}
    BY <1>1, <2>1, <2>3, RangeOfAppend DEF Told
  <2>5. Rolled' = Rolled
    BY <2>1 DEF Rolled
  <2>6. /\ Len(committed') = Len(committed) - 1
        /\ \A i \in 1..Len(committed') : committed'[i] = committed[i + 1]
    BY <1>1, <2>1, HeadTailProperties
  <2>7. ASSUME NEW i \in 1..Len(committed), i # 1 PROVE committed[i].of \in Queued'
    <3>1. i - 1 \in 1..Len(committed') /\ (i - 1) + 1 = i
      BY <1>1, <2>6, <2>7
    <3>2. committed'[i - 1] = committed[i]
      BY <2>6, <3>1
    <3>. QED
      BY <3>1, <3>2 DEF Queued
  <2>8. \A i \in 1..Len(committed) : committed[i].of \in Queued' \union Told'
    BY <2>4, <2>7
  <2>. QED
    BY <2>4, <2>5, <2>8 DEF Queued
<1>4. ASSUME NEW thrown \in 0..1, RollbackHook(thrown)
      PROVE  /\ Told \subseteq Told' /\ Rolled \subseteq Rolled'
             /\ Queued \subseteq Queued' \union Told' \union Rolled'
  <2>1. rolled' = Append(rolled, RolledBack) /\ told' = told /\ tx # "none" /\ Unstash
    BY <1>4 DEF RollbackHook, IInv, OpenInv
  <2>2. Told' = Told
    BY <2>1 DEF Told
  <2>3. CASE committed = <<>>
    <3>1. RolledBack \in Batches
      BY <1>1, <2>1, <2>3, BatchIsABatch DEF RolledBack, IInv, OpenInv
    <3>2. Queued = {}
      BY <1>1, <2>3, EmptySeq DEF Queued
    <3>. QED
      BY <1>2, <2>1, <2>2, <3>1, <3>2
  <2>4. CASE committed # <<>>
    <3>1. RolledBack = committed[Len(committed)] /\ RolledBack \in Batches
      BY <1>1, <2>4, LastElement DEF RolledBack
    <3>2. /\ Len(committed') = Len(committed) - 1
          /\ \A i \in 1..Len(committed') : committed'[i] = committed[i]
      BY <1>1, <2>1, <2>4, DropLast DEF Unstash
    <3>3. ASSUME NEW i \in 1..Len(committed), i # Len(committed) PROVE committed[i].of \in Queued'
      <4>1. i \in 1..Len(committed')
        BY <1>1, <3>2, <3>3
      <4>. QED
        BY <3>2, <4>1 DEF Queued
    <3>4. \A i \in 1..Len(committed) : committed[i].of \in Queued' \union Rolled'
      BY <1>2, <2>1, <3>1, <3>3
    <3>. QED
      BY <1>2, <2>1, <2>2, <3>1, <3>4 DEF Queued
  <2>. QED
    BY <2>3, <2>4
<1>5. CASE ~DrainNext /\ ~ \E thrown \in 0..1 : RollbackHook(thrown)
  <2>1. told' = told
    BY <1>5 DEF Next, SqliteStep, ClosureStep, ProgramStep, Begin, Write, CommitReadOnly,
       CommitHook, Land, FailCommit, EndCall, Notify, ListenerReturns, FinishCall,
       FinishClose, BeginCall, BeginClose, StartIter, EndIter, vars, history
  <2>2. Told' = Told
    BY <2>1 DEF Told
  <2>3. \A i \in 1..Len(committed) : i \in 1..Len(committed') /\ committed'[i] = committed[i]
    BY <1>5, StashMoves
  <2>4. Queued \subseteq Queued'
    BY <2>3 DEF Queued
  <2>5. CASE rolled' = rolled
    BY <2>2, <2>4, <2>5 DEF Rolled
  <2>6. CASE rolled' # rolled
    <3>1. FinishClose
      BY <1>5, <2>6 DEF Next, SqliteStep, ClosureStep, ProgramStep, Begin, Write, CommitReadOnly,
         CommitHook, Land, FailCommit, EndCall, Notify, ListenerReturns, FinishCall,
         BeginCall, BeginClose, StartIter, EndIter, vars, history
    <3>2. rolled' = Append(rolled, Batch) /\ tx # "none"
      BY <1>1, <2>6, <3>1 DEF FinishClose, TypeOK
    <3>3. Batch \in Batches
      BY <1>1, <3>2, BatchIsABatch DEF IInv, OpenInv
    <3>. QED
      BY <1>2, <2>2, <2>4, <3>2, <3>3
  <2>. QED
    BY <2>5, <2>6
<1>. QED
  BY <1>3, <1>4, <1>5

\* What LandedIsAccountedFor says of the transactions is kept.
NoneForgotten == Landed \subseteq Told \union Queued \union Rolled
LEMMA StepNoneForgotten == IInv /\ NoneForgotten /\ [Next]_vars => NoneForgotten'
<1>. SUFFICES ASSUME IInv, NoneForgotten, [Next]_vars PROVE NoneForgotten'
  OBVIOUS
<1>1. Landed \subseteq Told' \union Queued' \union Rolled'
  BY AnnouncedMoves DEF NoneForgotten
<1>2. CASE Land
  <2>1. committed # <<>> /\ committed[Len(committed)].of = txid
    BY <1>2 DEF Land, IInv, StashInv
  <2>2. /\ log' = Append(log, txid) /\ log \in Seq(TxIds) /\ txid \in TxIds
    BY <1>2 DEF Land, IInv, TypeOK, OpenInv
  <2>3. Landed' = Landed \union {txid}
    BY <2>2, RangeOfAppend DEF Landed
  <2>4. Len(committed) \in 1..Len(committed)
    BY <2>1, LastElement DEF IInv, TypeOK
  <2>5. txid \in Queued
    BY <2>1, <2>4 DEF Queued
  <2>. QED
    BY <1>1, <2>3, <2>5, AnnouncedMoves DEF NoneForgotten
<1>3. CASE ~Land
  <2>1. log' = log
    BY <1>3 DEF Next, SqliteStep, ClosureStep, ProgramStep, Begin, Write, CommitReadOnly,
       CommitHook, FailCommit, RollbackHook, EndCall, DrainNext, Notify, ListenerReturns,
       FinishCall, FinishClose, BeginCall, BeginClose, StartIter, EndIter, vars, history
  <2>2. Landed' = Landed
    BY <2>1 DEF Landed
  <2>. QED
    BY <1>1, <2>2 DEF NoneForgotten
<1>. QED
  BY <1>2, <1>3

\* The invariants of the deliveries hold at the start ...
Deliveries == IInv /\ LogInv /\ AccountInv /\ QueueInv /\ HeardInv /\ NoneForgotten
LEMMA InitDeliveries == Init => Deliveries
<1>. SUFFICES ASSUME Init PROVE Deliveries
  OBVIOUS
<1>1. /\ IInv /\ log = <<>> /\ discarded = {} /\ committed = <<>> /\ stack = <<>>
      /\ pending = <<>> /\ pendingCount = 0 /\ seen = [t \in TxIds |-> 0]
      /\ heard = [l \in 1..N |-> <<>>]
  BY InitIInv DEF Init
<1>2. /\ Landed = {} /\ Queued = {} /\ Len(committed) = 0 /\ Len(stack) = 0 /\ Len(pending) = 0
  BY <1>1, EmptySeq DEF Landed, Queued, Range
<1>3. LogInv
  BY <1>1, <1>2 DEF LogInv
<1>4. HeldBatches = {}
  <2>1. Range(committed) = {}
    BY <1>1 DEF Range
  <2>. QED
    BY <1>2, <2>1 DEF HeldBatches
<1>5. tx # "none" => PendingAccounts
  BY <1>1, <1>2, RetentionAssumption DEF PendingAccounts, IInv, OpenInv
<1>6. AccountInv
  BY <1>1, <1>4, <1>5 DEF AccountInv, BatchesAccount
<1>7. QueueInv
  BY <1>2 DEF QueueInv
<1>8. \A l \in 1..N : Len(heard[l]) = 0 /\ HeardOf(l) = {}
  BY <1>1, EmptySeq DEF HeardOf
<1>9. HeardInv
  BY <1>2, <1>8 DEF HeardInv, EndsOnce
<1>. QED
  BY <1>1, <1>2, <1>3, <1>6, <1>7, <1>9 DEF Deliveries, NoneForgotten

\* ... and always.
LEMMA DeliveriesInductive == Spec => []Deliveries
<1>1. IInv /\ [Next]_vars => IInv'
  BY StepTypeOK, StepDepthBalanced, StepOpenInv, StepFramesInv, StepStashInv,
     StepPostcommitOnlyLanded, StepPendingInv DEF IInv
<1>2. Deliveries /\ [Next]_vars => Deliveries'
  BY <1>1, StepLogInv, StepAccountInv, StepQueueInv, StepHeardInv, StepNoneForgotten DEF Deliveries
<1>. QED
  BY InitDeliveries, <1>2, PTL DEF Spec

\* Whatever is stashed or being dispatched says exactly what the update hook
\* reported of its transaction (batch and coverage in src/hooks.ts), in every
\* regime.
THEOREM BatchesCorrect == Spec => []BatchesAccount
<1>1. Deliveries => BatchesAccount
  BY DEF Deliveries, AccountInv
<1>. QED
  BY DeliveriesInductive, <1>1, PTL

\* No landed transaction is forgotten and no listener hears of one twice
\* (commit, rollback and drain of attach in src/hooks.ts), in every regime.
THEOREM LandedCorrect == Spec => []LandedIsAccountedFor
<1>1. Deliveries => LandedIsAccountedFor
  BY DEF Deliveries, NoneForgotten, HeardInv, LandedIsAccountedFor
<1>. QED
  BY DeliveriesInductive, <1>1, PTL

-----------------------------------------------------------------------------
(* The documented use: each outermost call ends one transaction at most, and no *)
(* iter() writes.                                                               *)

\* Then SQLite runs only inside a driver call, and can end a transaction there
\* only while the stash is empty.
LEMMA SqlRunsInACall ==
  ASSUME Single, IInv, SingleInv, SqlRuns
  PROVE  /\ stack # <<>> /\ Top.phase = "sql" /\ Top \in Frames /\ depth > 0 /\ engine = "idle"
         /\ CallBudget => committed = <<>> /\ ended = 0
<1>1. stack # <<>> /\ Top.phase = "sql" /\ engine = "idle"
  BY DEF SqlRuns, SingleInv
<1>2. Top \in Frames /\ Top.base \in Nat
  BY <1>1, TopIsAFrame DEF IInv, Frames
<1>3. depth > 0
  BY <1>1, <1>2 DEF IInv, DepthBalanced, InnerDepth
<1>4. CallBudget => ended = 0
  BY <1>3 DEF CallBudget, Single, IInv, TypeOK
<1>. QED
  BY <1>1, <1>2, <1>3, <1>4 DEF SingleInv

\* A stash of one batch is emptied from either end.
LEMMA StashOfOne ==
  ASSUME TypeOK, Len(committed) <= 1
  PROVE  /\ Unstash => committed' = <<>>
         /\ committed # <<>> => /\ Len(committed) = 1 /\ Head(committed) = committed[1]
                                /\ Tail(committed) = <<>> /\ committed[1] \in Batches
<1>1. committed \in Seq(Batches)
  BY DEF TypeOK
<1>2. CASE committed = <<>>
  BY <1>2 DEF Unstash
<1>3. CASE committed # <<>>
  <2>1. Len(committed) \in Nat \ {0} /\ committed[Len(committed)] \in Batches
    BY <1>1, <1>3, LastElement
  <2>2. Len(committed) = 1
    BY <2>1
  <2>3. SubSeq(committed, 1, 0) = <<>>
    BY SubSeqEmpty
  <2>4. Tail(committed) \in Seq(Batches) /\ Len(Tail(committed)) = 0
    BY <1>1, <1>3, <2>2, HeadTailProperties
  <2>5. Tail(committed) = <<>> /\ Head(committed) = committed[1]
    BY <2>4, EmptySeq
  <2>6. Unstash => committed' = <<>>
    <3>1. Len(committed) - 1 = 0
      BY <2>2
    <3>. QED
      BY <2>3, <3>1 DEF Unstash
  <2>. QED
    BY <2>1, <2>2, <2>5, <2>6
<1>. QED
  BY <1>2, <1>3

\* Where the stash does not change and no transaction ends, what SingleInv says
\* of the one batch survives.
LEMMA StepSingleInv == ASSUME Single PROVE IInv /\ SingleInv /\ [Next]_vars => SingleInv'
<1>. SUFFICES ASSUME IInv, SingleInv, [Next]_vars PROVE SingleInv'
  OBVIOUS
<1>1. /\ TypeOK /\ FramesInv /\ DepthBalanced /\ depth \in Nat /\ ended \in Nat
      /\ Len(committed) <= 1 /\ Len(committed) \in Nat /\ Len(<<>>) = 0
  BY LenProperties, EmptySeq DEF IInv, TypeOK, SingleInv
<1>2. stack # <<>> =>
        /\ Top \in Frames /\ Len(stack) \in Nat \ {0} /\ FrameInv(Top) /\ Top.at \in Nat
        /\ Top.phase = "sql" => depth = Top.base + 1 /\ Top.base \in Nat
  <2>1. stack # <<>> => Top \in Frames /\ Len(stack) \in Nat \ {0}
    BY <1>1, TopIsAFrame
  <2>. QED
    BY <1>1, <2>1 DEF FramesInv, Top, DepthBalanced, InnerDepth, Frames
<1>3. N \in Nat
  BY ListenersAssumption
<1>4. ASSUME UNCHANGED <<committed, depth, ended, stack, engine, iterating, closed>>,
             engine # "idle" => txid' = txid
      PROVE  SingleInv'
  BY <1>4 DEF SingleInv, Top, DispatchDone
<1>5. ASSUME NEW v \in Verdicts, CommitHook(v) PROVE SingleInv'
  <2>1. /\ committed = <<>> /\ depth > 0 /\ UNCHANGED <<depth, txid, iterating, closed>>
        /\ ~closed /\ engine' # "idle"
    BY <1>5, SqlRunsInACall DEF CommitHook, SqlRuns
  <2>2. \/ committed' = <<>>
        \/ Len(committed') = 1 /\ committed'[1] = Batch
    BY <1>1, <1>5, <2>1 DEF CommitHook
  <2>3. Batch.of = txid
    BY DEF Batch
  <2>4. Len(committed') <= 1 /\ (committed' # <<>> => committed'[1].of = txid')
    <3>1. CASE committed' = <<>>
      <4>1. Len(committed') = 0
        BY <1>1, <3>1
      <4>. QED
        BY <3>1, <4>1
    <3>2. CASE Len(committed') = 1 /\ committed'[1] = Batch
      <4>1. committed'[1].of = txid' /\ Len(committed') <= 1
        BY <2>1, <2>3, <3>2
      <4>. QED
        BY <4>1
    <3>. QED
      BY <2>2, <3>1, <3>2
  <2>. QED
    BY <2>1, <2>4 DEF SingleInv
<1>6. CASE Land
  BY <1>1, <1>6 DEF Land, CountEnd, SingleInv, closure
<1>7. CASE FailCommit
  BY <1>7 DEF FailCommit, SingleInv, closure, history
<1>8. ASSUME NEW thrown \in 0..1, RollbackHook(thrown) PROVE SingleInv'
  <2>1. committed' = <<>> /\ engine' = "idle" /\ iterating' = iterating
    BY <1>1, <1>8, StashOfOne DEF RollbackHook
  <2>. QED
    BY <1>1, <2>1 DEF SingleInv
<1>9. ASSUME NEW kind \in {"call", "transaction"}, BeginCall(kind) PROVE SingleInv'
  <2>1. /\ engine = "idle" /\ engine' = "idle" /\ depth' = depth + 1
        /\ UNCHANGED <<committed, ended, iterating, closed>>
        /\ stack # <<>> => Top.running \/ Top.phase = "sql"
    BY <1>9 DEF BeginCall, ProgramRuns, sqlite, history
  <2>2. ~(stack # <<>> /\ Top.phase = "drain" /\ DispatchDone)
    BY <1>2, <1>3, <2>1 DEF FrameInv, DispatchDone
  <2>. QED
    BY <1>1, <2>1, <2>2 DEF SingleInv
<1>10. CASE BeginClose
  <2>1. /\ engine = "idle" /\ engine' = "idle"
        /\ UNCHANGED <<committed, ended, iterating, closed, depth>>
        /\ stack # <<>> => Top.running \/ Top.phase = "sql"
    BY <1>10 DEF BeginClose, ProgramRuns, sqlite, closure, history
  <2>2. ~(stack # <<>> /\ Top.phase = "drain" /\ DispatchDone)
    BY <1>2, <1>3, <2>1 DEF FrameInv, DispatchDone
  <2>. QED
    BY <1>1, <2>1, <2>2 DEF SingleInv
<1>11. CASE EndCall
  <2>1. /\ engine = "idle" /\ engine' = "idle" /\ stack # <<>> /\ Top.phase = "sql"
        /\ depth' = depth - 1 /\ ended' = IF depth' = 0 THEN 0 ELSE ended
        /\ UNCHANGED <<committed, iterating, closed>>
        /\ AfterCall(depth')
    BY <1>11 DEF EndCall, sqlite
  <2>2. committed # <<>> => depth > 0 /\ ended > 0 /\ ~closed
    BY <2>1 DEF SingleInv
  <2>3. depth' \in Nat
    BY <1>2, <2>1
  <2>4. CASE committed = <<>> \/ depth' # 0
    BY <1>1, <2>1, <2>2, <2>3, <2>4 DEF SingleInv
  <2>5. CASE committed # <<>> /\ depth' = 0
    <3>. DEFINE f == [Top EXCEPT !.phase = "drain"]
    <3>1. SetTop(f) /\ f \in Frames
      <4>1. Top \in Frames
        BY <1>2, <2>1
      <4>2. f \in Frames
        BY <4>1, FrameChanges
      <4>. QED
        BY <2>1, <2>2, <2>5, <4>2 DEF AfterCall
    <3>2. f.phase = "drain" /\ f.at > N
      BY <1>2, <2>1 DEF FrameInv, Frames
    <3>. HIDE DEF f
    <3>3. stack' # <<>> /\ Len(stack') = Len(stack) /\ stack'[Len(stack)] = f
      BY <1>1, <2>1, <3>1, SetTopKeeps
    <3>4. /\ stack' # <<>> /\ stack'[Len(stack')].phase = "drain"
          /\ stack'[Len(stack')].at > N
      BY <3>2, <3>3
    <3>. QED
      BY <1>1, <2>1, <2>2, <3>4 DEF SingleInv, Top, DispatchDone
  <2>. QED
    BY <2>4, <2>5
<1>12. CASE DrainNext
  <2>1. committed' = <<>> /\ engine' = "idle" /\ iterating' = iterating
    BY <1>1, <1>12, StashOfOne DEF DrainNext, sqlite
  <2>. QED
    BY <1>1, <2>1 DEF SingleInv
<1>13. CASE FinishCall \/ FinishClose
  <2>1. committed' = <<>> /\ engine' = "idle"
    BY <1>13 DEF FinishCall, FinishClose, Drained, sqlite
  <2>2. CASE FinishCall
    BY <1>1, <2>1, <2>2 DEF FinishCall, SingleInv, sqlite
  <2>3. CASE FinishClose
    <3>1. iterating' = FALSE
      BY <2>3 DEF FinishClose
    <3>. QED
      BY <1>1, <2>1, <3>1 DEF SingleInv
  <2>. QED
    BY <1>13, <2>2, <2>3
<1>14. ASSUME Notify \/ \E thrown \in 0..1 : ListenerReturns(thrown) PROVE SingleInv'
  <2>1. /\ engine = "idle" /\ engine' = "idle" /\ stack # <<>>
        /\ UNCHANGED <<committed, ended, iterating, closed, depth>>
        /\ ~DispatchDone \/ Top.running
    BY <1>14 DEF Notify, ListenerReturns, sqlite, closure, history
  <2>2. ~DispatchDone
    BY <1>2, <1>3, <2>1 DEF FrameInv, DispatchDone
  <2>. QED
    BY <1>1, <2>1, <2>2 DEF SingleInv
<1>15. ~StartIter /\ ~EndIter
  BY DEF StartIter, EndIter, Single, SingleInv
<1>16. ASSUME \/ \E immediate \in BOOLEAN : Begin(immediate)
              \/ \E reported \in BOOLEAN, thrown \in 0..1 : Write(reported, thrown)
              \/ CommitReadOnly
              \/ UNCHANGED vars
       PROVE  /\ UNCHANGED <<committed, depth, ended, stack, engine, iterating, closed>>
              /\ engine # "idle" => txid' = txid
  BY <1>16 DEF Begin, Write, CommitReadOnly, SqlRuns, vars, sqlite, closure, history
<1>. QED
  BY <1>4, <1>5, <1>6, <1>7, <1>8, <1>9, <1>10, <1>11, <1>12, <1>13, <1>14, <1>15, <1>16
     DEF Next, SqliteStep, ClosureStep, ProgramStep

\* The announcements follow the commits, one behind at most.
LEMMA StepFeedInv == ASSUME Single PROVE IInv /\ SingleInv /\ FeedInv /\ [Next]_vars => FeedInv'
<1>. SUFFICES ASSUME IInv, SingleInv, FeedInv, [Next]_vars PROVE FeedInv'
  OBVIOUS
<1>1. /\ TypeOK /\ Len(committed) <= 1
  BY DEF IInv, SingleInv
<1>2. ASSUME UNCHANGED <<engine, committed, log, told>> PROVE FeedInv'
  BY <1>2 DEF FeedInv
<1>3. ASSUME NEW v \in Verdicts, CommitHook(v) PROVE FeedInv'
  <2>1. committed = <<>> /\ engine' # "idle" /\ UNCHANGED <<log, told>>
    BY <1>3, SqlRunsInACall DEF CommitHook, history
  <2>. QED
    BY <2>1 DEF FeedInv
<1>4. CASE Land
  <2>1. /\ engine = "approved" /\ engine' = "idle" /\ log' = Append(log, txid)
        /\ UNCHANGED <<told, committed>>
    BY <1>4 DEF Land, closure
  <2>2. committed # <<>> /\ committed[1].of = txid
    BY <2>1 DEF IInv, StashInv, SingleInv
  <2>. QED
    BY <2>1, <2>2 DEF FeedInv
<1>5. CASE FailCommit
  <2>1. engine = "approved" /\ engine' = "failing" /\ UNCHANGED <<told, log>>
    BY <1>5 DEF FailCommit, history
  <2>. QED
    BY <2>1 DEF FeedInv
<1>6. ASSUME NEW thrown \in 0..1, RollbackHook(thrown) PROVE FeedInv'
  <2>1. committed' = <<>> /\ UNCHANGED <<told, log>>
    BY <1>1, <1>6, StashOfOne DEF RollbackHook
  <2>2. engine = "failing" \/ committed = <<>>
    BY <1>6, SqlRunsInACall DEF RollbackHook
  <2>. QED
    BY <2>1, <2>2 DEF FeedInv
<1>7. CASE DrainNext
  <2>1. /\ engine = "idle" /\ committed # <<>> /\ committed' = Tail(committed)
        /\ log' = log /\ told' = Append(told, Head(committed).of)
    BY <1>7 DEF DrainNext, sqlite
  <2>2. committed' = <<>> /\ Head(committed) = committed[1]
    BY <1>1, <2>1, StashOfOne
  <2>. QED
    BY <2>1, <2>2 DEF FeedInv
<1>8. ASSUME ~DrainNext, ~FailCommit, ~Land, ~ \E v \in Verdicts : CommitHook(v),
             ~ \E thrown \in 0..1 : RollbackHook(thrown)
      PROVE  UNCHANGED <<engine, committed, log, told>>
  BY <1>8 DEF Next, SqliteStep, ClosureStep, ProgramStep, Begin, Write, CommitReadOnly,
     EndCall, Notify, ListenerReturns, FinishCall, FinishClose, BeginCall, BeginClose,
     StartIter, EndIter, vars, sqlite, closure, history
<1>. QED
  BY <1>2, <1>3, <1>4, <1>5, <1>6, <1>7, <1>8

\* What a rollback has reported stays true: its transaction is over.
LEMMA StepRollbackOnlyDiscarded ==
  ASSUME Single
  PROVE  Deliveries /\ SingleInv /\ RollbackOnlyDiscarded /\ [Next]_vars => RollbackOnlyDiscarded'
<1>. SUFFICES ASSUME Deliveries, SingleInv, RollbackOnlyDiscarded, [Next]_vars
              PROVE  RollbackOnlyDiscarded'
  OBVIOUS
<1>1. /\ IInv /\ LogInv /\ LogInv' /\ AccountInv /\ TypeOK /\ rolled \in Seq(Batches)
      /\ Len(committed) <= 1
  BY StepLogInv DEF Deliveries, IInv, TypeOK, SingleInv
\* A batch of a transaction that was discarded, or is being so, keeps its account.
<1>2. ASSUME NEW b \in Batches, b.of \in discarded', AccountsIn(b, seen)
      PROVE  AccountsIn(b, seen')
  <2>1. b.of \in TxIds
    BY DEF Batches
  <2>2. seen'[b.of] = seen[b.of]
    BY <1>1, <1>2, <2>1, SeenMoves DEF LogInv
  <2>. QED
    BY <1>2, <2>2 DEF AccountsIn
<1>3. ASSUME NEW i \in 1..Len(rolled), discarded \subseteq discarded'
      PROVE  rolled[i].of \in discarded' /\ AccountsIn(rolled[i], seen')
  <2>1. rolled[i] \in Batches
    BY <1>1, ElementOfSeq
  <2>2. rolled[i].of \in discarded /\ AccountsIn(rolled[i], seen)
    BY DEF RollbackOnlyDiscarded, BatchAccounts, AccountsIn
  <2>. QED
    BY <1>2, <1>3, <2>1, <2>2
<1>4. ASSUME NEW b \in Batches, rolled' = Append(rolled, b), b.of = txid, AccountsIn(b, seen),
             discarded' = discarded \union {txid}
      PROVE  RollbackOnlyDiscarded'
  <2>1. /\ Len(rolled') = Len(rolled) + 1 /\ rolled'[Len(rolled) + 1] = b /\ Len(rolled) \in Nat
        /\ \A i \in 1..Len(rolled) : rolled'[i] = rolled[i]
    BY <1>1, <1>4, AppendProperties, LenProperties
  <2>2. b.of \in discarded' /\ AccountsIn(b, seen')
    BY <1>2, <1>4
  <2>3. \A i \in 1..Len(rolled') : i \in 1..Len(rolled) \/ i = Len(rolled) + 1
    BY <2>1
  <2>4. \A i \in 1..Len(rolled') : rolled'[i].of \in discarded' /\ AccountsIn(rolled'[i], seen')
    BY <1>3, <1>4, <2>1, <2>2, <2>3
  <2>. QED
    BY <2>4 DEF RollbackOnlyDiscarded, BatchAccounts, AccountsIn
<1>5. ASSUME committed = <<>>, tx # "none"
      PROVE  Batch \in Batches /\ Batch.of = txid /\ AccountsIn(Batch, seen)
  <2>1. txid \notin Queued
    BY <1>5, EmptySeq DEF Queued
  <2>2. BatchAccounts(Batch)
    BY <1>1, <1>5, <2>1, BatchOfPending DEF AccountInv, IInv
  <2>3. Batch \in Batches /\ Batch.of = txid
    BY <1>1, <1>5, BatchIsABatch DEF IInv, OpenInv
  <2>. QED
    BY <2>2, <2>3 DEF BatchAccounts, AccountsIn
<1>6. ASSUME NEW thrown \in 0..1, RollbackHook(thrown) PROVE RollbackOnlyDiscarded'
  <2>1. /\ rolled' = Append(rolled, RolledBack) /\ tx # "none"
        /\ discarded' = discarded \union {txid}
    BY <1>1, <1>6 DEF RollbackHook, IInv, OpenInv
  <2>2. CASE committed = <<>>
    BY <1>4, <1>5, <2>1, <2>2 DEF RolledBack
  <2>3. CASE committed # <<>>
    <3>1. engine # "idle"
      BY <1>1, <1>6, <2>3, SqlRunsInACall DEF RollbackHook
    <3>2. RolledBack = committed[1] /\ committed[1] \in Batches /\ Len(committed) = 1
      BY <1>1, <2>3, StashOfOne DEF RolledBack
    <3>3. committed[1].of = txid
      BY <2>3, <3>1 DEF SingleInv
    <3>4. AccountsIn(committed[1], seen)
      <4>1. 1 \in DOMAIN committed
        BY <1>1, <3>2, LenProperties DEF TypeOK
      <4>. QED
        BY <1>1, <4>1, HeldBatchesAre DEF AccountInv
    <3>. QED
      BY <1>4, <2>1, <3>2, <3>3, <3>4
  <2>. QED
    BY <2>2, <2>3
<1>7. CASE FinishClose
  <2>1. committed = <<>>
    BY <1>7 DEF FinishClose, Drained
  <2>2. CASE tx = "explicit"
    BY <1>4, <1>5, <1>7, <2>1, <2>2 DEF FinishClose
  <2>3. CASE tx # "explicit"
    <3>1. rolled' = rolled /\ discarded' = discarded
      BY <1>1, <1>7, <2>3 DEF FinishClose, TypeOK
    <3>2. \A i \in 1..Len(rolled') : rolled'[i].of \in discarded' /\ AccountsIn(rolled'[i], seen')
      BY <1>3, <3>1
    <3>. QED
      BY <3>2 DEF RollbackOnlyDiscarded, BatchAccounts, AccountsIn
  <2>. QED
    BY <2>2, <2>3
<1>8. CASE ~FinishClose /\ ~ \E thrown \in 0..1 : RollbackHook(thrown)
  <2>1. rolled' = rolled /\ discarded' = discarded
    BY <1>8 DEF Next, SqliteStep, ClosureStep, ProgramStep, Begin, Write, CommitReadOnly,
       CommitHook, Land, FailCommit, EndCall, DrainNext, Notify, ListenerReturns, FinishCall,
       BeginCall, BeginClose, StartIter, EndIter, vars, history
  <2>2. \A i \in 1..Len(rolled') : rolled'[i].of \in discarded' /\ AccountsIn(rolled'[i], seen')
    BY <1>3, <2>1
  <2>. QED
    BY <2>2 DEF RollbackOnlyDiscarded, BatchAccounts, AccountsIn
<1>. QED
  BY <1>6, <1>7, <1>8

\* In the documented use all of it holds together.
SingleDeliveries == Deliveries /\ SingleInv /\ FeedInv /\ RollbackOnlyDiscarded
LEMMA SingleInductive == ASSUME Single PROVE Spec => []SingleDeliveries
<1>1. Init => SingleDeliveries
  <2>1. ASSUME Init
        PROVE  /\ Deliveries /\ iterating = FALSE /\ committed = <<>> /\ engine = "idle"
               /\ log = told /\ rolled = <<>> /\ Len(<<>>) = 0
    BY <2>1, InitDeliveries, EmptySeq DEF Init
  <2>2. ASSUME Init PROVE SingleInv /\ FeedInv
    BY <2>1, <2>2 DEF SingleInv, FeedInv
  <2>3. ASSUME Init PROVE RollbackOnlyDiscarded
    <3>1. Len(rolled) = 0
      BY <2>1, <2>3
    <3>. QED
      BY <3>1 DEF RollbackOnlyDiscarded
  <2>. QED
    BY <2>1, <2>2, <2>3 DEF SingleDeliveries
<1>2. IInv /\ [Next]_vars => IInv'
  BY StepTypeOK, StepDepthBalanced, StepOpenInv, StepFramesInv, StepStashInv,
     StepPostcommitOnlyLanded, StepPendingInv DEF IInv
<1>3. Deliveries /\ [Next]_vars => Deliveries'
  BY <1>2, StepLogInv, StepAccountInv, StepQueueInv, StepHeardInv, StepNoneForgotten DEF Deliveries
<1>4. SingleDeliveries /\ [Next]_vars => SingleDeliveries'
  BY <1>3, StepSingleInv, StepFeedInv, StepRollbackOnlyDiscarded DEF SingleDeliveries, Deliveries
<1>. QED
  BY <1>1, <1>4, PTL DEF Spec

\* A rollback event is only dispatched for a transaction that was discarded, with
\* its own rows (the rollback handler of attach in src/hooks.ts), where an
\* outermost call ends one transaction at most and no iter() writes.
THEOREM RollbackCorrect == ASSUME Single PROVE Spec => []RollbackOnlyDiscarded
<1>1. SingleDeliveries => RollbackOnlyDiscarded
  BY DEF SingleDeliveries
<1>. QED
  BY SingleInductive, <1>1, PTL

-----------------------------------------------------------------------------
(* The refinement: every step is a step of CommitFeed, or none.            *)

\* What rollback events announced, before and after one more.
LEMMA UndoneGrows ==
  ASSUME NEW s \in Seq(Batches), NEW b \in Batches
  PROVE  LET r == Append(s, b)
         IN [i \in 1..Len(r) |-> r[i].of] = Append([i \in 1..Len(s) |-> s[i].of], b.of)
<1>. DEFINE r == Append(s, b)
<1>1. /\ r \in Seq(Batches) /\ Len(r) = Len(s) + 1 /\ r[Len(s) + 1] = b
      /\ \A i \in 1..Len(s) : r[i] = s[i]
  BY AppendProperties
<1>2. Len(s) \in Nat
  BY LenProperties
<1>. HIDE DEF r
<1>. DEFINE u == [i \in 1..Len(s) |-> s[i].of]  v == [i \in 1..Len(r) |-> r[i].of]
<1>3. u \in Seq(TxIds) /\ Len(u) = Len(s)
  <2>1. ASSUME NEW i \in 1..Len(s) PROVE s[i].of \in TxIds
    <3>1. s[i] \in Batches
      BY ElementOfSeq
    <3>. QED
      BY <3>1 DEF Batches
  <2>. QED
    BY <1>2, <2>1
<1>4. v \in Seq(TxIds) /\ Len(v) = Len(r)
  <2>1. ASSUME NEW i \in 1..Len(r) PROVE r[i].of \in TxIds
    <3>1. r[i] \in Batches
      BY <1>1, ElementOfSeq
    <3>. QED
      BY <3>1 DEF Batches
  <2>. QED
    BY <1>1, <1>2, <2>1
<1>5. b.of \in TxIds
  BY DEF Batches
<1>. HIDE DEF u
<1>6. /\ Append(u, b.of) \in Seq(TxIds) /\ Len(Append(u, b.of)) = Len(s) + 1
      /\ Append(u, b.of)[Len(s) + 1] = b.of
      /\ \A i \in 1..Len(s) : Append(u, b.of)[i] = u[i]
  BY <1>3, <1>5, AppendProperties
<1>7. \A i \in 1..Len(v) : v[i] = Append(u, b.of)[i]
  <2>1. ASSUME NEW i \in 1..Len(s) PROVE v[i] = Append(u, b.of)[i]
    BY <1>1, <1>2, <1>6 DEF u
  <2>2. v[Len(s) + 1] = Append(u, b.of)[Len(s) + 1]
    BY <1>1, <1>2, <1>6
  <2>3. \A i \in 1..Len(v) : i \in 1..Len(s) \/ i = Len(s) + 1
    BY <1>1, <1>2, <1>4
  <2>. QED
    BY <2>1, <2>2, <2>3
<1>. HIDE DEF v
<1>8. v = Append(u, b.of)
  BY <1>1, <1>4, <1>6, <1>7, SeqEqual
<1>. QED
  BY <1>8 DEF r, u, v

\* One step.
LEMMA StepKeepsThePromise ==
  ASSUME Single
  PROVE  SingleDeliveries /\ [Next]_vars => Feed!Next \/ UNCHANGED Feed!vars
<1>. SUFFICES ASSUME SingleDeliveries, [Next]_vars PROVE Feed!Next \/ UNCHANGED Feed!vars
  OBVIOUS
<1>1. /\ IInv /\ LogInv /\ TypeOK /\ FeedInv /\ SingleInv /\ rolled \in Seq(Batches)
      /\ log \in Seq(TxIds) /\ told \in Seq(TxIds) /\ Len(committed) <= 1
  BY DEF SingleDeliveries, Deliveries, IInv, TypeOK, SingleInv
<1>2. ASSUME tx # "none", rolled' = Append(rolled, RolledBack) \/ rolled' = Append(rolled, Batch),
             RolledBack \in Batches, RolledBack.of = txid,
             discarded' = discarded \union {txid}, UNCHANGED <<log, told>>
      PROVE  Feed!Next
  <2>1. txid \in TxIds /\ txid \notin Range(log) \union discarded
    BY <1>1, <1>2 DEF LogInv, Landed, IInv, OpenInv
  <2>2. Batch \in Batches /\ Batch.of = txid
    BY <1>1, <2>1, BatchIsABatch
  <2>3. [i \in 1..Len(rolled') |-> rolled'[i].of] = Append([i \in 1..Len(rolled) |-> rolled[i].of], txid)
    BY <1>1, <1>2, <2>2, UndoneGrows
  <2>4. PICK t \in TxIds : t = txid
    BY <2>1
  <2>5. Feed!Discard(t)
    BY <1>2, <2>1, <2>3, <2>4 DEF Feed!Discard, Range, Feed!Range
  <2>. QED
    BY <2>5 DEF Feed!Next
<1>3. ASSUME NEW thrown \in 0..1, RollbackHook(thrown) PROVE Feed!Next
  <2>1. /\ rolled' = Append(rolled, RolledBack) /\ tx # "none"
        /\ discarded' = discarded \union {txid} /\ UNCHANGED <<log, told>>
    BY <1>1, <1>3 DEF RollbackHook, IInv, OpenInv
  <2>2. RolledBack \in Batches /\ RolledBack.of = txid
    <3>1. CASE committed = <<>>
      BY <1>1, <2>1, <3>1, BatchIsABatch DEF RolledBack, IInv, OpenInv
    <3>2. CASE committed # <<>>
      <4>1. engine # "idle"
        BY <1>1, <1>3, <3>2, SqlRunsInACall DEF RollbackHook
      <4>2. RolledBack = committed[1] /\ committed[1] \in Batches
        BY <1>1, <3>2, StashOfOne DEF RolledBack
      <4>. QED
        BY <1>1, <3>2, <4>1, <4>2 DEF SingleInv
    <3>. QED
      BY <3>1, <3>2
  <2>. QED
    BY <1>2, <2>1, <2>2
<1>4. CASE FinishClose
  <2>1. committed = <<>> /\ UNCHANGED <<log, told>>
    BY <1>4 DEF FinishClose, Drained
  <2>2. CASE tx = "explicit"
    <3>1. rolled' = Append(rolled, Batch) /\ discarded' = discarded \union {txid}
      BY <1>4, <2>2 DEF FinishClose
    <3>2. RolledBack = Batch /\ Batch \in Batches /\ Batch.of = txid
      BY <1>1, <2>1, <2>2, BatchIsABatch DEF RolledBack, IInv, OpenInv
    <3>. QED
      BY <1>2, <2>1, <2>2, <3>1, <3>2
  <2>3. CASE tx # "explicit"
    BY <1>1, <1>4, <2>1, <2>3 DEF FinishClose, TypeOK, Feed!vars
  <2>. QED
    BY <2>2, <2>3
<1>5. CASE Land
  <2>1. /\ tx # "none" /\ log' = Append(log, txid)
        /\ UNCHANGED <<told, discarded, rolled>>
    BY <1>1, <1>5 DEF Land, IInv, OpenInv
  <2>2. txid \in TxIds /\ txid \notin Range(log) \union discarded
    BY <1>1, <2>1 DEF LogInv, Landed, IInv, OpenInv
  <2>3. Feed!Land(txid)
    BY <2>1, <2>2 DEF Feed!Land, Range, Feed!Range
  <2>. QED
    BY <2>2, <2>3 DEF Feed!Next
<1>6. CASE DrainNext
  <2>1. /\ engine = "idle" /\ committed # <<>> /\ told' = Append(told, Head(committed).of)
        /\ UNCHANGED <<log, discarded, rolled>>
    BY <1>6 DEF DrainNext
  <2>2. Head(committed) = committed[1] /\ committed[1].of \in TxIds
    BY <1>1, <2>1, StashOfOne DEF Batches
  <2>3. log = Append(told, committed[1].of)
    BY <1>1, <2>1 DEF FeedInv
  <2>4. Len(log) = Len(told) + 1 /\ log[Len(told) + 1] = committed[1].of /\ Len(told) \in Nat
    BY <1>1, <2>2, <2>3, AppendProperties, LenProperties
  <2>5. Feed!Tell
    BY <2>1, <2>2, <2>4 DEF Feed!Tell
  <2>. QED
    BY <2>5 DEF Feed!Next
<1>7. ASSUME ~DrainNext, ~FinishClose, ~Land, ~ \E thrown \in 0..1 : RollbackHook(thrown)
      PROVE  UNCHANGED Feed!vars
  <2>1. UNCHANGED <<log, told, discarded, rolled>>
    BY <1>7 DEF Next, SqliteStep, ClosureStep, ProgramStep, Begin, Write, CommitReadOnly,
       CommitHook, FailCommit, EndCall, Notify, ListenerReturns, FinishCall,
       BeginCall, BeginClose, StartIter, EndIter, vars, history
  <2>. QED
    BY <2>1 DEF Feed!vars
<1>. QED
  BY <1>3, <1>4, <1>5, <1>6, <1>7

\* In the documented use the hooks, the stash and the re-entrant drain implement
\* CommitFeed: each transaction lands and is announced by one postcommit, in
\* commit order, or is discarded and announced by one rollback at that moment.
THEOREM PromiseCorrect == ASSUME Single PROVE Spec => KeepsThePromise
<1>1. Init => Feed!Init
  <2>1. ASSUME Init
        PROVE  log = <<>> /\ told = <<>> /\ discarded = {} /\ Len(rolled) = 0
    BY <2>1, EmptySeq DEF Init
  <2>2. ASSUME Init PROVE [i \in 1..Len(rolled) |-> rolled[i].of] = <<>>
    BY <2>1, <2>2
  <2>. QED
    BY <2>1, <2>2 DEF Feed!Init
<1>2. SingleDeliveries /\ [Next]_vars => [Feed!Next]_Feed!vars
  BY StepKeepsThePromise
<1>. QED
  BY SingleInductive, <1>1, <1>2, PTL DEF Spec, KeepsThePromise, Feed!Spec

=============================================================================
