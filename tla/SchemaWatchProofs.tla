------------------------- MODULE SchemaWatchProofs -------------------------
(* Proofs about SchemaWatch: when the snapshot is current, how often a name is *)
(* asked for, and what disarms the watch.                                      *)
EXTENDS SchemaWatch, SequenceTheorems, TLAPS

-----------------------------------------------------------------------------
(* Stacks, innermost last, in the shapes the actions use them.                 *)

\* The end of a call takes its frame off.
LEMMA DropLast ==
  ASSUME NEW S, NEW s \in Seq(S), s # <<>>
  PROVE  LET r == SubSeq(s, 1, Len(s) - 1)
         IN /\ r \in Seq(S)
            /\ Len(r) = Len(s) - 1
            /\ \A i \in 1..Len(r) : r[i] = s[i]
<1>1. Len(s) \in Nat \ {0}
  BY EmptySeq
<1>2. PICK m \in Nat : Len(s) - 1 = m
  BY <1>1
<1>3. \A i \in 1..m : s[i] \in S
  BY <1>1, <1>2, ElementOfSeq
<1>4. SubSeq(s, 1, m) \in Seq(S) /\ Len(SubSeq(s, 1, m)) = m /\ \A i \in 1..m : SubSeq(s, 1, m)[i] = s[i]
  BY <1>3, SubSeqProperties
<1>. QED
  BY <1>2, <1>4

\* The frame on top, if there is one.
LEMMA LastElement ==
  ASSUME NEW S, NEW s \in Seq(S), s # <<>>
  PROVE  Len(s) \in Nat \ {0} /\ s[Len(s)] \in S /\ Len(s) \in 1..Len(s)
BY ElementOfSeq, EmptySeq, LenProperties

-----------------------------------------------------------------------------
(* The stack.                                                                  *)

\* What holds of every frame, and of those that are not on top.
AnyFits(frame, program, turns) ==
    /\ frame.running => /\ frame.phase = "drain" /\ frame.at # 3
                        /\ turns[frame.at] = "other"
    /\ frame.phase # "drain" => frame.at = 3
    /\ frame.phase = "callback" => frame.kind = "refresh"
    /\ frame.asked # NoName => frame.reason = "unknown-name"
    /\ "script" \notin program /\ frame.kind = "refresh" => frame.at = 3
LowerFits(frame, program) ==
    /\ frame.phase # "sql"
    /\ "script" \notin program /\ frame.kind = "refresh" => frame.phase = "callback" /\ "callback" \in program
    /\ program \subseteq {"callback"} => frame.at # 1

StackFits ==
  /\ \A i \in DOMAIN stack : AnyFits(stack[i], uses, order)
  /\ \A i \in DOMAIN stack : i < Len(stack) => LowerFits(stack[i], uses)

\* The rest of IInv is about the top.
QueueTop ==
  "script" \notin uses /\ queued > 0 =>
    queued = 1 /\ stack # <<>> /\ Top.kind = "call" /\ Top.ended /\ Top.at = 3
CurrentTop ==
  Kept =>
    /\ kept = NoName /\ ready \notin Attachable
    /\ ready # NoName => armed /\ SqlRuns
    /\ stack # <<>> => /\ (Top.phase = "sql" /\ Top.ended) \/ queued > 0 \/ Top.at = 1 => tx = "none"
                       /\ Top.kind = "refresh" /\ Top.phase # "callback" => tx = "none"
                       /\ Top.kind = "refresh" /\ Top.phase = "drain" => Top.reading = catalog
    /\ tx # "none" => /\ map = before /\ (catalog = before \/ armed)
                      /\ catalog \intersect Attachable = before \intersect Attachable
    /\ tx = "none" => map = catalog \/ Pending
Parts == TypeOK /\ OrderInv /\ StackFits /\ QueueTop /\ OnceInv /\ CurrentTop

\* IInv is all of this.
LEMMA PartsOfIInv == IInv <=> Parts
<1>1. StackFits <=>
        /\ FramesInv
        /\ "script" \notin uses => \A i \in DOMAIN stack : stack[i].kind = "refresh" =>
             stack[i].at = 3 /\ (i < Len(stack) => stack[i].phase = "callback" /\ "callback" \in uses)
        /\ Kept => \A i \in DOMAIN stack : i < Len(stack) => stack[i].at # 1
  BY DEF StackFits, AnyFits, LowerFits, FramesInv, Kept
<1>2. QueueInv <=>
        /\ QueueTop
        /\ "script" \notin uses => \A i \in DOMAIN stack : stack[i].kind = "refresh" =>
             stack[i].at = 3 /\ (i < Len(stack) => stack[i].phase = "callback" /\ "callback" \in uses)
  BY DEF QueueInv, QueueTop
<1>3. CurrentInv <=>
        /\ CurrentTop
        /\ Kept => \A i \in DOMAIN stack : i < Len(stack) => stack[i].at # 1
  BY DEF CurrentInv, CurrentTop
<1>. QED
  BY <1>1, <1>2, <1>3 DEF IInv, Parts

\* A stack in order with f on top, after a step.
Onto(f) == stack' \in Seq(Frames) /\ StackFits' /\ stack' # <<>> /\ Top' = f

\* Whatever the step, it is enough to know what is left of the stack before.
LEMMA StackAfter ==
  ASSUME \A i \in DOMAIN stack' : AnyFits(stack'[i], uses, order),
         \A i \in DOMAIN stack' : i < Len(stack') => LowerFits(stack'[i], uses),
         UNCHANGED <<uses, order>>
  PROVE  StackFits'
<1>1. \A i \in DOMAIN stack' : AnyFits(stack'[i], uses', order')
  OBVIOUS
<1>2. \A i \in DOMAIN stack' : i < Len(stack') => LowerFits(stack'[i], uses')
  OBVIOUS
<1>3. \A i \in DOMAIN stack' :
        /\ stack'[i].running => /\ stack'[i].phase = "drain" /\ stack'[i].at # 3
                                /\ order'[stack'[i].at] = "other"
        /\ stack'[i].phase # "drain" => stack'[i].at = 3
        /\ stack'[i].phase = "callback" => stack'[i].kind = "refresh"
        /\ stack'[i].asked # NoName => stack'[i].reason = "unknown-name"
        /\ "script" \notin uses' /\ stack'[i].kind = "refresh" => stack'[i].at = 3
  BY <1>1 DEF AnyFits
<1>4. \A i \in DOMAIN stack' : i < Len(stack') =>
        /\ stack'[i].phase # "sql"
        /\ "script" \notin uses' /\ stack'[i].kind = "refresh" => stack'[i].phase = "callback" /\ "callback" \in uses'
        /\ uses' \subseteq {"callback"} => stack'[i].at # 1
  BY <1>2 DEF LowerFits
<1>. QED
  BY <1>3, <1>4 DEF StackFits, AnyFits, LowerFits

\* The top of a stack.
LEMMA OnTop ==
  ASSUME stack \in Seq(Frames), stack # <<>>
  PROVE  Len(stack) \in Nat \ {0} /\ Len(stack) \in DOMAIN stack /\ Top = stack[Len(stack)] /\ Top \in Frames
         /\ DOMAIN stack = 1..Len(stack)
BY LastElement, LenProperties DEF Top

\* A frame is put on top,
LEMMA Pushes ==
  ASSUME stack \in Seq(Frames), StackFits, UNCHANGED <<uses, order>>,
         NEW f \in Frames, AnyFits(f, uses, order), stack # <<>> => LowerFits(Top, uses),
         stack' = Append(stack, f)
  PROVE  Onto(f)
<1>1. /\ stack' \in Seq(Frames) /\ Len(stack') = Len(stack) + 1 /\ stack'[Len(stack) + 1] = f
      /\ stack' # <<>> /\ \A i \in 1..Len(stack) : stack'[i] = stack[i]
  BY AppendProperties
<1>2. /\ DOMAIN stack = 1..Len(stack) /\ DOMAIN stack' = 1..Len(stack') /\ Len(stack) \in Nat
      /\ stack = <<>> => Len(stack) = 0
  BY <1>1, LenProperties, EmptySeq
<1>3. \A i \in DOMAIN stack' : \/ i \in DOMAIN stack /\ stack'[i] = stack[i]
                               \/ stack'[i] = f /\ ~(i < Len(stack'))
  <2>1. TAKE i \in DOMAIN stack'
  <2>2. i \in DOMAIN stack \/ (i = Len(stack) + 1 /\ ~(i < Len(stack')))
    BY <1>1, <1>2
  <2>. QED
    BY <1>1, <1>2, <2>2
<1>4. \A i \in DOMAIN stack' : AnyFits(stack'[i], uses, order)
  BY <1>3 DEF StackFits
<1>5. \A i \in DOMAIN stack' : i < Len(stack') => LowerFits(stack'[i], uses)
  <2>1. TAKE i \in DOMAIN stack'
  <2>2. HAVE i < Len(stack')
  <2>3. stack'[i] = stack[i] /\ i \in DOMAIN stack
    BY <1>3, <2>2
  <2>4. i < Len(stack) \/ (i = Len(stack) /\ stack # <<>>)
    BY <1>1, <1>2, <2>2, <2>3
  <2>. QED
    BY <2>3, <2>4 DEF StackFits, Top
<1>6. Top' = f
  BY <1>1 DEF Top
<1>. QED
  BY <1>1, <1>4, <1>5, <1>6, StackAfter DEF Onto

\* put in its place,
LEMMA Sets ==
  ASSUME stack \in Seq(Frames), stack # <<>>, StackFits, UNCHANGED <<uses, order>>,
         NEW f \in Frames, AnyFits(f, uses, order), stack' = Append(Rest, f)
  PROVE  Onto(f) /\ Len(stack') = Len(stack) /\ \A i \in DOMAIN stack' : i < Len(stack') => LowerFits(stack'[i], uses)
<1>1. /\ Rest \in Seq(Frames) /\ Len(Rest) = Len(stack) - 1
      /\ \A i \in 1..Len(Rest) : Rest[i] = stack[i]
  BY DropLast DEF Rest
<1>. HIDE DEF Rest
<1>2. /\ stack' \in Seq(Frames) /\ Len(stack') = Len(Rest) + 1 /\ stack'[Len(Rest) + 1] = f
      /\ stack' # <<>> /\ \A i \in 1..Len(Rest) : stack'[i] = Rest[i]
  BY <1>1, AppendProperties
<1>3. DOMAIN stack = 1..Len(stack) /\ DOMAIN stack' = 1..Len(stack') /\ Len(stack) \in Nat \ {0}
  BY <1>2, LenProperties, OnTop
<1>4. Len(stack') = Len(stack) /\ stack'[Len(stack)] = f
  BY <1>1, <1>2, <1>3
<1>5. \A i \in DOMAIN stack' : i # Len(stack) => i \in DOMAIN stack /\ stack'[i] = stack[i] /\ i < Len(stack)
  BY <1>1, <1>2, <1>3, <1>4
<1>6. \A i \in DOMAIN stack' : AnyFits(stack'[i], uses, order)
  <2>1. \A i \in DOMAIN stack' : stack'[i] = f \/ (i \in DOMAIN stack /\ stack'[i] = stack[i])
    BY <1>4, <1>5
  <2>. QED
    BY <2>1 DEF StackFits
<1>7. \A i \in DOMAIN stack' : i < Len(stack') => LowerFits(stack'[i], uses)
  <2>1. \A n \in Nat : \A i \in 1..n : i < n => i # n
    OBVIOUS
  <2>2. DOMAIN stack' = 1..Len(stack) /\ Len(stack) \in Nat
    BY <1>3, <1>4
  <2>3. \A i \in DOMAIN stack' : i < Len(stack') => i # Len(stack)
    BY <1>4, <2>1, <2>2
  <2>. QED
    BY <1>5, <2>3 DEF StackFits
<1>8. Top' = f
  BY <1>4 DEF Top
<1>. QED
  BY <1>2, <1>4, <1>6, <1>7, <1>8, StackAfter DEF Onto

\* or taken off.
LEMMA Pops ==
  ASSUME stack \in Seq(Frames), stack # <<>>, StackFits, UNCHANGED <<uses, order>>, stack' = Rest
  PROVE  /\ stack' \in Seq(Frames) /\ StackFits'
         /\ stack' # <<>> => Top' \in Frames /\ AnyFits(Top', uses, order) /\ LowerFits(Top', uses)
<1>1. /\ stack' \in Seq(Frames) /\ Len(stack') = Len(stack) - 1
      /\ \A i \in 1..Len(stack') : stack'[i] = stack[i]
  BY DropLast DEF Rest
<1>2. DOMAIN stack = 1..Len(stack) /\ DOMAIN stack' = 1..Len(stack') /\ Len(stack) \in Nat \ {0}
  BY <1>1, LenProperties, OnTop
<1>3. \A i \in DOMAIN stack' : i \in DOMAIN stack /\ i < Len(stack) /\ stack'[i] = stack[i]
  BY <1>1, <1>2
<1>4. StackFits'
  BY <1>3, StackAfter DEF StackFits
<1>5. stack' # <<>> => Len(stack') \in DOMAIN stack' /\ stack'[Len(stack')] \in Frames
  BY <1>1, <1>2, LastElement
<1>. QED
  BY <1>1, <1>3, <1>4, <1>5 DEF Top, StackFits

\* A refresh comes on top of the listener that observed.
LEMMA Observes ==
  ASSUME stack \in Seq(Frames), stack # <<>>, StackFits, UNCHANGED <<uses, order>>,
         NEW g \in Frames, AnyFits(g, uses, order), LowerFits(g, uses),
         NEW f \in Frames, AnyFits(f, uses, order),
         stack' = Append(Append(Rest, g), f)
  PROVE  Onto(f) /\ Len(stack') = Len(stack) + 1
<1>1. /\ Rest \in Seq(Frames) /\ Len(Rest) = Len(stack) - 1
      /\ \A i \in 1..Len(Rest) : Rest[i] = stack[i]
  BY DropLast DEF Rest
<1>. HIDE DEF Rest
<1>2. PICK t : t = Append(Rest, g)
  OBVIOUS
<1>3. /\ t \in Seq(Frames) /\ Len(t) = Len(Rest) + 1 /\ t[Len(Rest) + 1] = g
      /\ \A i \in 1..Len(Rest) : t[i] = Rest[i]
  BY <1>1, <1>2, AppendProperties
<1>4. stack' = Append(t, f)
  BY <1>2, <1>3
<1>5. /\ stack' \in Seq(Frames) /\ Len(stack') = Len(t) + 1 /\ stack'[Len(t) + 1] = f
      /\ stack' # <<>> /\ \A i \in 1..Len(t) : stack'[i] = t[i]
  BY <1>3, <1>4, AppendProperties
<1>6. DOMAIN stack = 1..Len(stack) /\ DOMAIN stack' = 1..Len(stack') /\ Len(stack) \in Nat \ {0}
  BY <1>5, LenProperties, OnTop
<1>7. Len(stack') = Len(stack) + 1 /\ stack'[Len(stack)] = g /\ stack'[Len(stack')] = f
  BY <1>1, <1>3, <1>5, <1>6
<1>8. \A i \in DOMAIN stack' : \/ i \in DOMAIN stack /\ stack'[i] = stack[i] /\ i < Len(stack)
                               \/ stack'[i] = g
                               \/ stack'[i] = f /\ ~(i < Len(stack'))
  <2>1. TAKE i \in DOMAIN stack'
  <2>2. \/ i \in DOMAIN stack /\ i < Len(stack) /\ i \in 1..Len(Rest) /\ i \in 1..Len(t)
        \/ i = Len(stack)
        \/ i = Len(stack') /\ ~(i < Len(stack'))
    BY <1>1, <1>3, <1>6, <1>7
  <2>. QED
    BY <1>1, <1>3, <1>5, <1>7, <2>2
<1>9. \A i \in DOMAIN stack' : AnyFits(stack'[i], uses, order)
  BY <1>8 DEF StackFits
<1>10. \A i \in DOMAIN stack' : i < Len(stack') => LowerFits(stack'[i], uses)
  BY <1>8 DEF StackFits
<1>. QED
  BY <1>5, <1>7, <1>9, <1>10, StackAfter DEF Onto, Top

-----------------------------------------------------------------------------
(* The steps.  What none of them disturbs comes first.                         *)

\* The uses and the order of registration never change.
LEMMA Settled ==
  ASSUME OrderInv, UNCHANGED <<uses, order>>
  PROVE  OrderInv'
BY DEF OrderInv

\* The top of a stack in order is itself in order.
LEMMA TopFits ==
  ASSUME Parts, stack # <<>>
  PROVE  Top \in Frames /\ AnyFits(Top, uses, order)
<1>1. Len(stack) \in DOMAIN stack /\ Top \in Frames
  BY OnTop DEF Parts, TypeOK
<1>. QED
  BY <1>1 DEF Parts, StackFits, Top

\* Where the program's own code runs, nothing awaits a drain, no statement is
\* about to be stepped and, as long as the watch is used as documented, the
\* snapshot is not about to be replaced.
Quiet ==
  /\ stack # <<>> => LowerFits(Top, uses)
  /\ "script" \notin uses => queued = 0
  /\ Kept => ready = NoName /\ ~Pending
  /\ stack # <<>> /\ "callback" \notin uses => Top.phase # "callback"

\* The three places the program runs are quiet.
LEMMA ProgramIsQuiet ==
  ASSUME Parts, ProgramRuns
  PROVE  Quiet
<1>1. ASSUME stack # <<>>
      PROVE  /\ Top.phase \in {"drain", "callback"}
             /\ "script" \notin uses /\ Top.kind = "refresh" => Top.phase = "callback" /\ "callback" \in uses
             /\ Kept => Top.at # 1
             /\ "script" \notin uses => ~(Top.kind = "call" /\ Top.at = 3)
             /\ "callback" \notin uses => Top.phase # "callback"
  <2>1. AnyFits(Top, uses, order) /\ Top \in Frames
    BY <1>1, TopFits
  <2>2. CASE Top.running
    <3>1. Top.phase = "drain" /\ Top.at # 3 /\ order[Top.at] = "other"
      BY <2>1, <2>2 DEF AnyFits
    <3>2. "script" \notin uses => Top.kind # "refresh"
      BY <2>1, <3>1 DEF AnyFits
    <3>3. Kept => Top.at # 1
      BY <3>1 DEF Parts, OrderInv, Kept
    <3>. QED
      BY <3>1, <3>2, <3>3
  <2>3. CASE Top.phase = "callback" /\ "callback" \in uses
    <3>1. Top.at = 3 /\ Top.kind = "refresh"
      BY <2>1, <2>3 DEF AnyFits
    <3>. QED
      BY <2>3, <3>1
  <2>. QED
    BY <1>1, <2>2, <2>3 DEF ProgramRuns
<1>2. stack # <<>> => LowerFits(Top, uses)
  BY <1>1 DEF LowerFits, Kept
<1>3. "script" \notin uses => queued = 0
  BY <1>1 DEF Parts, QueueTop, TypeOK
<1>4. Kept => ready = NoName
  BY <1>1 DEF Parts, CurrentTop, SqlRuns
<1>5. Kept => ~Pending
  <2>1. Kept => queued = 0 /\ "script" \notin uses
    BY <1>3 DEF Kept
  <2>. QED
    BY <1>1, <2>1 DEF Pending
<1>. QED
  BY <1>1, <1>2, <1>3, <1>4, <1>5 DEF Quiet

\* A frame that no listener runs in, on top of the program's code.
LEMMA PushesOnQuiet ==
  ASSUME Parts, ProgramRuns, UNCHANGED <<uses, order>>,
         NEW kind \in {"call", "refresh"}, NEW reason \in Reasons, NEW asked \in Names \union {NoName},
         asked # NoName => reason = "unknown-name",
         stack' = Append(stack, Frame(kind, reason, asked))
  PROVE  Onto(Frame(kind, reason, asked))
<1>1. Frame(kind, reason, asked) \in Frames
  BY DEF Frame, Frames
<1>2. AnyFits(Frame(kind, reason, asked), uses, order)
  BY DEF Frame, AnyFits
<1>3. stack # <<>> => LowerFits(Top, uses)
  BY ProgramIsQuiet DEF Quiet
<1>4. stack \in Seq(Frames) /\ StackFits
  BY DEF Parts, TypeOK
<1>. QED
  BY <1>1, <1>2, <1>3, <1>4, Pushes

\* The program makes a driver call: it finds nothing pending that it could
\* disturb.
LEMMA BeginCallStep == Parts /\ BeginCall => Parts'
<1>. SUFFICES ASSUME Parts, BeginCall PROVE Parts'
  OBVIOUS
<1>. DEFINE f == Frame("call", "manual", NoName)
<1>1. /\ ProgramRuns /\ stack' = Append(stack, f)
      /\ UNCHANGED <<catalog, before, tx, ready, kept, moved, queued, map, armed, tried, uses, order, version, asks>>
  BY DEF BeginCall, connection, watch, history
<1>2. Onto(f)
  BY <1>1, PushesOnQuiet DEF Reasons
<1>3. Quiet
  BY <1>1, ProgramIsQuiet
<1>4. f.kind = "call" /\ f.phase = "sql" /\ f.at = 3 /\ ~f.ended
  BY DEF Frame
<1>. HIDE DEF f
<1>5. TypeOK'
  BY <1>1, <1>2 DEF Parts, TypeOK, Onto
<1>6. OrderInv'
  BY <1>1, Settled DEF Parts
<1>7. QueueTop'
  BY <1>1, <1>3 DEF Quiet, QueueTop
<1>8. OnceInv'
  BY <1>1, <1>2, <1>3, <1>4 DEF Parts, OnceInv, Quiet, Onto
<1>9. CurrentTop'
  <2>1. SUFFICES ASSUME Kept PROVE CurrentTop'
    BY <1>1 DEF CurrentTop, Kept
  <2>2. queued = 0 /\ ready = NoName /\ ~Pending
    BY <1>3, <2>1 DEF Quiet, Kept
  <2>3. kept = NoName /\ (tx = "none" => map = catalog)
        /\ (tx # "none" => /\ map = before /\ (catalog = before \/ armed)
                           /\ catalog \intersect Attachable = before \intersect Attachable)
        /\ ready \notin Attachable
    BY <2>1, <2>2 DEF Parts, CurrentTop
  <2>. QED
    BY <1>1, <1>2, <1>4, <2>2, <2>3 DEF CurrentTop, Onto, Pending, SqlRuns
<1>. QED
  BY <1>2, <1>5, <1>6, <1>7, <1>8, <1>9 DEF Parts, Onto

\* A refresh starts: the snapshot is about to be replaced.
LEMMA RefreshStep ==
  ASSUME Parts, MayRefresh,
         NEW reason \in Reasons, NEW asked \in Names \union {NoName},
         asked # NoName => reason = "unknown-name" /\ asked \notin tried,
         StartRefresh(reason, asked), armed' \in BOOLEAN, UNCHANGED <<connection, map, tried, history>>
  PROVE  Parts'
<1>. DEFINE f == Frame("refresh", reason, asked)
<1>1. /\ ProgramRuns /\ stack' = Append(stack, f)
      /\ UNCHANGED <<catalog, before, tx, ready, kept, moved, queued, map, tried, uses, order, version, asks>>
  BY DEF MayRefresh, StartRefresh, connection, history
<1>2. Onto(f)
  BY <1>1, PushesOnQuiet
<1>3. Quiet
  BY <1>1, ProgramIsQuiet
<1>4. f.kind = "refresh" /\ f.phase = "sql" /\ f.at = 3 /\ ~f.ended /\ f.asked = asked
  BY DEF Frame
<1>. HIDE DEF f
<1>5. TypeOK'
  BY <1>1, <1>2 DEF Parts, TypeOK, Onto
<1>6. OrderInv'
  BY <1>1, Settled DEF Parts
<1>7. QueueTop'
  BY <1>1, <1>3 DEF Quiet, QueueTop
<1>8. OnceInv'
  <2>1. SUFFICES ASSUME uses \intersect {"callback", "script"} = {}, NEW n \in Names
                 PROVE  /\ asks[n] # 0 => asks[n] = 1 /\ n \in tried
                        /\ asked = n => asks[n] = 0
    BY <1>1, <1>2, <1>4 DEF OnceInv, Onto
  <2>2. asks[n] # 0 => asks[n] = 1 /\ n \in tried
    BY <1>3, <2>1 DEF Parts, OnceInv, Quiet
  <2>3. asked = n => n \notin tried
    BY <2>1, NamesAssumption
  <2>. QED
    BY <2>2, <2>3
<1>9. CurrentTop'
  <2>1. SUFFICES ASSUME Kept PROVE CurrentTop'
    BY <1>1 DEF CurrentTop, Kept
  <2>2. ready = NoName /\ tx = "none" /\ kept = NoName /\ ready \notin Attachable
    BY <1>3, <2>1 DEF Quiet, MayRefresh, Kept, Parts, CurrentTop
  <2>. QED
    BY <1>1, <1>2, <1>4, <2>2 DEF CurrentTop, Onto, Pending
<1>. QED
  BY <1>2, <1>5, <1>6, <1>7, <1>8, <1>9 DEF Parts, Onto

-----------------------------------------------------------------------------
(* Steps of a statement, under a driver call.                                  *)

\* A statement runs in the innermost call, before its drain.
LEMMA UnderACall ==
  ASSUME Parts, SqlRuns
  PROVE  /\ stack # <<>> /\ Top \in Frames /\ AnyFits(Top, uses, order)
         /\ Top.kind = "call" /\ Top.phase = "sql" /\ Top.at = 3 /\ ~Top.running
<1>1. stack # <<>> /\ Top.kind = "call" /\ Top.phase = "sql"
  BY DEF SqlRuns
<1>2. Top \in Frames /\ AnyFits(Top, uses, order)
  BY <1>1, TopFits
<1>. QED
  BY <1>1, <1>2 DEF AnyFits

\* A statement that neither ends a transaction nor its call leaves the stack alone.
LEMMA StackStays ==
  ASSUME Parts, UNCHANGED <<stack, uses, order>>
  PROVE  StackFits' /\ OrderInv' /\ Top' = Top
<1>1. OrderInv'
  BY Settled DEF Parts
<1>2. StackFits'
  BY DEF Parts, StackFits
<1>. QED
  BY <1>1, <1>2 DEF Top

\* Such a statement disturbs the snapshot at most.
LEMMA SqlStays ==
  ASSUME Parts, TypeOK', CurrentTop', UNCHANGED <<stack, uses, order, queued, asks, tried>>
  PROVE  Parts'
<1>1. StackFits' /\ OrderInv' /\ Top' = Top
  BY StackStays
<1>2. QueueTop'
  BY <1>1 DEF Parts, QueueTop
<1>3. OnceInv'
  BY <1>1 DEF Parts, OnceInv
<1>. QED
  BY <1>1, <1>2, <1>3 DEF Parts

\* What CurrentTop says under a statement.
SnapshotKept ==
  /\ kept = NoName /\ ready \notin Attachable
  /\ ready # NoName => armed
  /\ Top.ended \/ queued > 0 => tx = "none"
  /\ tx # "none" => /\ map = before /\ (catalog = before \/ armed)
                    /\ catalog \intersect Attachable = before \intersect Attachable
  /\ tx = "none" => map = catalog \/ (armed /\ queued > 0)

\* It finds the snapshot kept,
LEMMA KeptUnderACall ==
  ASSUME Parts, SqlRuns, Kept
  PROVE  SnapshotKept
BY UnderACall DEF Parts, CurrentTop, SnapshotKept, Pending

\* and need only leave it so,
LEMMA CurrentIfKept ==
  ASSUME SqlRuns', Top.kind' = "call", Top.phase' = "sql", Top.at' = 3, Kept' => SnapshotKept'
  PROVE  CurrentTop'
<1>1. SUFFICES ASSUME Kept' PROVE CurrentTop'
  BY DEF CurrentTop
<1>2. SnapshotKept'
  BY <1>1
<1>. QED
  BY <1>2 DEF CurrentTop, SnapshotKept, Pending, SqlRuns

\* which is all that Parts asks of it.
LEMMA StaysUnderACall ==
  ASSUME Parts, SqlRuns, TypeOK', UNCHANGED <<stack, uses, order, queued, asks, tried>>,
         Kept => SnapshotKept'
  PROVE  Parts'
<1>1. Top' = Top /\ SqlRuns' /\ (Kept' <=> Kept)
  BY StackStays DEF SqlRuns, Kept
<1>2. Top.kind' = "call" /\ Top.phase' = "sql" /\ Top.at' = 3
  BY <1>1, UnderACall
<1>3. CurrentTop'
  BY <1>1, <1>2, CurrentIfKept
<1>. QED
  BY <1>3, SqlStays

\* A prepared change of the schema arms the watch before it can be stepped.
LEMMA PrepareStep ==
  ASSUME Parts, NEW name \in Names, Prepare(name) PROVE Parts'
<1>1. /\ SqlRuns /\ ready' = name /\ armed' = TRUE
      /\ name \in Attachable => "attach" \in uses
      /\ UNCHANGED <<catalog, before, tx, kept, moved, queued, stack, map, tried, uses, order, version, asks>>
  BY DEF Prepare, Authorized, IsSchemaChanging, history
<1>2. TypeOK'
  BY <1>1 DEF Parts, TypeOK
<1>3. Kept => SnapshotKept'
  <2>1. SUFFICES ASSUME Kept PROVE SnapshotKept'
    OBVIOUS
  <2>2. SnapshotKept /\ name \notin Attachable /\ Top' = Top
    BY <1>1, <2>1, KeptUnderACall, StackStays DEF Kept
  <2>. QED
    BY <1>1, <2>2 DEF SnapshotKept
<1>. QED
  BY <1>1, <1>2, <1>3, StaysUnderACall

\* Preparing ahead is no documented use.
LEMMA PrepareAheadStep ==
  ASSUME Parts, NEW name \in Names, PrepareAhead(name) PROVE Parts'
<1>1. /\ SqlRuns /\ kept' = name /\ moved' = FALSE /\ armed' = TRUE /\ "ahead" \in uses
      /\ UNCHANGED <<catalog, before, tx, ready, queued, stack, map, tried, uses, order, version, asks>>
  BY DEF PrepareAhead, Authorized, IsSchemaChanging, history
<1>2. TypeOK'
  BY <1>1 DEF Parts, TypeOK
<1>. QED
  BY <1>1, <1>2, StaysUnderACall DEF Kept

\* Nor is running what was prepared ahead.
LEMMA RunKeptStep == Parts /\ RunKept => Parts'
<1>. SUFFICES ASSUME Parts, RunKept PROVE Parts'
  OBVIOUS
<1>1. /\ SqlRuns /\ kept # NoName /\ ready' = kept /\ kept' = NoName
      /\ armed' = (armed \/ (moved /\ kept \in Names))
      /\ UNCHANGED <<catalog, before, tx, moved, queued, stack, map, tried, uses, order, version, asks>>
  BY DEF RunKept, Authorized, IsSchemaChanging, history
<1>2. armed' \in BOOLEAN
  BY <1>1 DEF Parts, TypeOK
<1>3. TypeOK'
  BY <1>1, <1>2 DEF Parts, TypeOK
<1>4. ~Kept
  BY <1>1 DEF Parts, CurrentTop
<1>. QED
  BY <1>1, <1>3, <1>4, StaysUnderACall

\* A prepare that fails leaves the watch armed, which only costs a refresh.
LEMMA AbandonStep == Parts /\ Abandon => Parts'
<1>. SUFFICES ASSUME Parts, Abandon PROVE Parts'
  OBVIOUS
<1>1. /\ SqlRuns /\ ready' = NoName
      /\ UNCHANGED <<catalog, before, tx, kept, moved, queued, stack, map, armed, tried, uses, order, version, asks>>
  BY DEF Abandon, history, watch
<1>2. TypeOK'
  BY <1>1 DEF Parts, TypeOK
<1>3. Kept => SnapshotKept'
  <2>1. SUFFICES ASSUME Kept PROVE SnapshotKept'
    OBVIOUS
  <2>2. SnapshotKept /\ NoName \notin Attachable /\ Top' = Top
    BY <1>1, <2>1, KeptUnderACall, StackStays, NamesAssumption
  <2>. QED
    BY <1>1, <2>2 DEF SnapshotKept
<1>. QED
  BY <1>1, <1>2, <1>3, StaysUnderACall

\* A statement opens a transaction only if its call has ended none.
LEMMA NothingQueuedYet ==
  ASSUME Parts, SqlRuns, CanEnd, "script" \notin uses
  PROVE  queued = 0 /\ ~Top.ended
<1>1. ~Top.ended
  BY DEF CanEnd
<1>2. queued = 0
  BY <1>1 DEF Parts, QueueTop, TypeOK
<1>. QED
  BY <1>1, <1>2

\* A change of the schema: outside a transaction it begins one from a current
\* snapshot.
LEMMA ExecuteStep == Parts /\ Execute => Parts'
<1>. SUFFICES ASSUME Parts, Execute PROVE Parts'
  OBVIOUS
<1>1. /\ SqlRuns /\ ready # NoName
      /\ catalog' = IF ready \in catalog THEN catalog \ {ready} ELSE catalog \union {ready}
      /\ version' = version + 1 /\ moved' = TRUE /\ ready' = NoName
      /\ IF ready \in Attachable THEN UNCHANGED <<tx, before>>
         ELSE (tx # "none" \/ CanEnd) /\ IF tx = "none" THEN tx' = "implicit" /\ before' = catalog
                                         ELSE UNCHANGED <<tx, before>>
      /\ UNCHANGED <<kept, queued, stack, map, armed, tried, uses, order, asks>>
  BY DEF Execute, Open, watch
<1>2. TypeOK'
  <2>1. catalog' \in SUBSET Names /\ before' \in SUBSET Names
    BY <1>1 DEF Parts, TypeOK
  <2>2. tx' \in {"none", "implicit", "explicit"}
    BY <1>1 DEF Parts, TypeOK
  <2>. QED
    BY <1>1, <2>1, <2>2 DEF Parts, TypeOK
<1>3. Kept => SnapshotKept'
  <2>1. SUFFICES ASSUME Kept PROVE SnapshotKept'
    OBVIOUS
  <2>2. SnapshotKept /\ Top' = Top /\ armed /\ ready \notin Attachable
    BY <1>1, <2>1, KeptUnderACall, StackStays DEF SnapshotKept
  <2>3. catalog' \intersect Attachable = catalog \intersect Attachable
    BY <1>1, <2>2
  <2>4. CASE tx = "none"
    <3>1. tx' = "implicit" /\ before' = catalog /\ queued = 0 /\ ~Top.ended
      BY <1>1, <2>1, <2>2, <2>4, NothingQueuedYet DEF Kept
    <3>2. map = catalog
      BY <2>2, <2>4, <3>1 DEF SnapshotKept
    <3>3. kept = NoName /\ NoName \notin Attachable
      BY <2>2, NamesAssumption DEF SnapshotKept
    <3>. QED
      BY <1>1, <2>2, <2>3, <3>1, <3>2, <3>3 DEF SnapshotKept
  <2>5. CASE tx # "none"
    <3>1. UNCHANGED <<tx, before>>
      BY <1>1, <2>5
    <3>2. kept = NoName /\ NoName \notin Attachable
      BY <2>2, NamesAssumption DEF SnapshotKept
    <3>. QED
      BY <1>1, <2>2, <2>3, <2>5, <3>1, <3>2 DEF SnapshotKept
  <2>. QED
    BY <2>4, <2>5
<1>. QED
  BY <1>1, <1>2, <1>3, StaysUnderACall

\* A transaction begins, from a current snapshot.
LEMMA WriteStep ==
  ASSUME Parts, NEW kind \in {"implicit", "explicit"}, Write(kind) PROVE Parts'
<1>1. /\ SqlRuns /\ CanEnd /\ tx = "none" /\ tx' = kind /\ before' = catalog /\ armed' = (armed \/ FALSE)
      /\ UNCHANGED <<catalog, ready, kept, moved, queued, stack, map, tried, uses, order, version, asks>>
  BY DEF Write, Open, Authorized, history
<1>2. armed' = armed
  BY <1>1 DEF Parts, TypeOK
<1>3. TypeOK'
  BY <1>1, <1>2 DEF Parts, TypeOK
<1>4. Kept => SnapshotKept'
  <2>1. SUFFICES ASSUME Kept PROVE SnapshotKept'
    OBVIOUS
  <2>2. SnapshotKept /\ Top' = Top
    BY <1>1, <2>1, KeptUnderACall, StackStays
  <2>3. queued = 0 /\ ~Top.ended
    BY <1>1, <2>1, NothingQueuedYet DEF Kept
  <2>. QED
    BY <1>1, <1>2, <2>2, <2>3 DEF SnapshotKept
<1>. QED
  BY <1>1, <1>3, <1>4, StaysUnderACall

\* A refresh asked for inside a hook is no documented use.
LEMMA RefusedRefreshStep == Parts /\ RefusedRefresh => Parts'
<1>. SUFFICES ASSUME Parts, RefusedRefresh PROVE Parts'
  OBVIOUS
<1>1. /\ SqlRuns /\ "inhook" \in uses /\ armed' = FALSE
      /\ UNCHANGED <<catalog, before, tx, ready, kept, moved, queued, stack, map, tried, uses, order, version, asks>>
  BY DEF RefusedRefresh, connection, history
<1>2. TypeOK'
  BY <1>1 DEF Parts, TypeOK
<1>. QED
  BY <1>1, <1>2, StaysUnderACall DEF Kept

\* The end of a transaction: the top is marked.
LEMMA EndTxOnto ==
  ASSUME Parts, SqlRuns, EndTx, UNCHANGED <<uses, order>>
  PROVE  /\ Onto([Top EXCEPT !.ended = TRUE]) /\ tx' = "none"
         /\ Top'.kind = "call" /\ Top'.phase = "sql" /\ Top'.at = 3 /\ Top'.ended
<1>. DEFINE f == [Top EXCEPT !.ended = TRUE]
<1>1. stack' = Append(Rest, f) /\ tx' = "none"
  BY DEF EndTx, SetTop
<1>2. /\ stack # <<>> /\ Top \in Frames /\ AnyFits(Top, uses, order)
      /\ Top.kind = "call" /\ Top.phase = "sql" /\ Top.at = 3 /\ ~Top.running
  BY UnderACall
<1>3. /\ f \in Frames /\ f.kind = "call" /\ f.phase = "sql" /\ f.at = 3 /\ f.ended
      /\ f.running = Top.running /\ f.asked = Top.asked /\ f.reason = Top.reason
  BY <1>2 DEF Frames
<1>4. AnyFits(f, uses, order)
  BY <1>2, <1>3 DEF AnyFits
<1>. HIDE DEF f
<1>5. Onto(f)
  BY <1>1, <1>2, <1>3, <1>4, Sets DEF Parts, TypeOK
<1>. QED
  BY <1>1, <1>3, <1>5 DEF f, Onto

\* A call that is not asked for a name of its own leaves the account of the names alone.
LEMMA OnceStays ==
  ASSUME Parts, UNCHANGED <<uses, asks, tried>>,
         stack' # <<>> /\ "script" \notin uses => Top'.kind = "call" \/ Top'.phase = "callback" \/ Top'.asked = NoName,
         stack # <<>> /\ Top.phase = "callback" => "callback" \in uses
  PROVE  OnceInv'
<1>1. SUFFICES ASSUME uses \intersect {"callback", "script"} = {}, NEW n \in Names
               PROVE  /\ asks[n] # 0 => asks[n] = 1 /\ n \in tried
                      /\ stack' # <<>> /\ Top'.kind = "refresh" /\ Top'.phase # "callback" /\ Top'.asked = n => asks[n] = 0
  BY DEF OnceInv
<1>2. asks[n] # 0 => asks[n] = 1 /\ n \in tried
  BY <1>1 DEF Parts, OnceInv
<1>. QED
  BY <1>1, <1>2, NamesAssumption

\* A commit of a changed schema leaves a postcommit that will refresh.
LEMMA CommitStep ==
  ASSUME Parts, NEW wrote \in BOOLEAN, Commit(wrote) PROVE Parts'
<1>1. /\ SqlRuns /\ ready = NoName /\ tx # "none" /\ CanEnd /\ EndTx
      /\ ~wrote => catalog = before
      /\ queued' = IF wrote THEN queued + 1 ELSE queued
      /\ UNCHANGED <<catalog, before, ready, kept, moved, map, armed, tried, uses, order, version, asks>>
  BY DEF Commit, watch, history
<1>2. /\ stack' \in Seq(Frames) /\ StackFits' /\ stack' # <<>> /\ tx' = "none"
      /\ Top'.kind = "call" /\ Top'.phase = "sql" /\ Top'.at = 3 /\ Top'.ended
  BY <1>1, EndTxOnto DEF Onto
<1>3. "script" \notin uses => queued = 0
  BY <1>1, NothingQueuedYet
<1>4. queued \in Nat /\ queued' \in Nat /\ (queued = 0 => queued' = IF wrote THEN 1 ELSE 0)
  BY <1>1 DEF Parts, TypeOK
<1>5. TypeOK'
  BY <1>1, <1>2, <1>4 DEF Parts, TypeOK
<1>6. OrderInv'
  BY <1>1, Settled DEF Parts
<1>7. QueueTop'
  BY <1>1, <1>2, <1>3, <1>4 DEF QueueTop
<1>8. OnceInv'
  BY <1>1, <1>2, UnderACall, OnceStays
<1>9. CurrentTop'
  <2>1. SqlRuns'
    BY <1>2 DEF SqlRuns
  <2>2. ASSUME Kept PROVE SnapshotKept'
    <3>1. SnapshotKept /\ queued = 0
      BY <1>1, <1>3, <2>2, KeptUnderACall DEF Kept
    <3>2. map = before /\ (catalog = before \/ (armed /\ wrote)) /\ kept = NoName /\ NoName \notin Attachable
      BY <1>1, <3>1, NamesAssumption DEF SnapshotKept
    <3>3. wrote => queued' > 0
      BY <1>4, <3>1
    <3>. QED
      BY <1>1, <1>2, <3>2, <3>3 DEF SnapshotKept
  <2>3. Kept' => Kept
    BY <1>1 DEF Kept
  <2>. QED
    BY <1>2, <2>1, <2>2, <2>3, CurrentIfKept
<1>. QED
  BY <1>2, <1>5, <1>6, <1>7, <1>8, <1>9 DEF Parts

\* A rollback gives the schema back the names of the snapshot.
LEMMA RollbackStep == Parts /\ Rollback => Parts'
<1>. SUFFICES ASSUME Parts, Rollback PROVE Parts'
  OBVIOUS
<1>1. /\ SqlRuns /\ ready = NoName /\ tx # "none" /\ CanEnd /\ EndTx
      /\ catalog' = (before \ Attachable) \union (catalog \intersect Attachable)
      /\ version' = IF catalog' = catalog THEN version ELSE version + 1
      /\ moved' = (moved \/ catalog' # catalog)
      /\ queued' = IF queued > 0 THEN queued - 1 ELSE 0
      /\ armed' = FALSE
      /\ UNCHANGED <<before, ready, kept, map, tried, uses, order, asks>>
  BY DEF Rollback
<1>2. /\ stack' \in Seq(Frames) /\ StackFits' /\ stack' # <<>> /\ tx' = "none"
      /\ Top'.kind = "call" /\ Top'.phase = "sql" /\ Top'.at = 3 /\ Top'.ended
  BY <1>1, EndTxOnto DEF Onto
<1>3. "script" \notin uses => queued = 0
  BY <1>1, NothingQueuedYet
<1>4. queued \in Nat /\ queued' \in Nat /\ (queued = 0 => queued' = 0)
  BY <1>1 DEF Parts, TypeOK
<1>5. TypeOK'
  <2>1. catalog' \in SUBSET Names
    BY <1>1 DEF Parts, TypeOK
  <2>2. moved' \in BOOLEAN
    BY <1>1 DEF Parts, TypeOK
  <2>3. version' \in Nat
    BY <1>1 DEF Parts, TypeOK
  <2>. QED
    BY <1>1, <1>2, <1>4, <2>1, <2>2, <2>3 DEF Parts, TypeOK
<1>6. OrderInv'
  BY <1>1, Settled DEF Parts
<1>7. QueueTop'
  BY <1>1, <1>2, <1>3, <1>4 DEF QueueTop
<1>8. OnceInv'
  BY <1>1, <1>2, UnderACall, OnceStays
<1>9. CurrentTop'
  <2>1. SqlRuns'
    BY <1>2 DEF SqlRuns
  <2>2. ASSUME Kept PROVE SnapshotKept'
    <3>1. SnapshotKept
      BY <1>1, <2>2, KeptUnderACall
    <3>2. map = before /\ catalog \intersect Attachable = before \intersect Attachable
          /\ kept = NoName /\ NoName \notin Attachable
      BY <1>1, <3>1, NamesAssumption DEF SnapshotKept
    <3>3. catalog' = before
      BY <1>1, <3>2
    <3>. QED
      BY <1>1, <1>2, <3>2, <3>3 DEF SnapshotKept
  <2>3. Kept' => Kept
    BY <1>1 DEF Kept
  <2>. QED
    BY <1>2, <2>1, <2>2, <2>3, CurrentIfKept
<1>. QED
  BY <1>2, <1>5, <1>6, <1>7, <1>8, <1>9 DEF Parts

-----------------------------------------------------------------------------
(* Steps of the drain.                                                         *)

\* The frame on top moves on, and what is not on the stack stays.
TopMoves(f) == stack # <<>> /\ SetTop(f) /\ UNCHANGED <<catalog, before, tx, ready, kept, moved, watch, history>>

\* Its type and its order stay.
LEMMA MovesOnto ==
  ASSUME Parts, NEW f \in Frames, AnyFits(f, uses, order), TopMoves(f), queued' \in Nat
  PROVE  Onto(f) /\ TypeOK' /\ OrderInv'
<1>1. /\ stack' = Append(Rest, f) /\ stack # <<>>
      /\ UNCHANGED <<catalog, before, tx, ready, kept, moved, map, armed, tried, uses, order, version, asks>>
  BY DEF TopMoves, SetTop, watch, history
<1>2. Onto(f)
  BY <1>1, Sets DEF Parts, TypeOK
<1>3. TypeOK'
  BY <1>1, <1>2 DEF Parts, TypeOK, Onto
<1>4. OrderInv'
  BY <1>1, Settled DEF Parts
<1>. QED
  BY <1>2, <1>3, <1>4

\* What CurrentTop says when no statement runs.
LEMMA KeptAboveSql ==
  ASSUME Parts, Kept, ~SqlRuns
  PROVE  /\ kept = NoName /\ ready = NoName /\ NoName \notin Attachable
         /\ tx # "none" => /\ map = before /\ (catalog = before \/ armed)
                           /\ catalog \intersect Attachable = before \intersect Attachable
BY NamesAssumption DEF Parts, CurrentTop

\* The statements of a call are over and its drain begins.
LEMMA EndSqlStep == Parts /\ EndSql => Parts'
<1>. SUFFICES ASSUME Parts, EndSql PROVE Parts'
  OBVIOUS
<1>. DEFINE f == [Top EXCEPT !.phase = "drain"]
<1>1. /\ SqlRuns /\ ready = NoName /\ TopMoves(f)
      /\ UNCHANGED <<catalog, before, tx, ready, kept, moved, queued, map, armed, tried, uses, order, version, asks>>
  BY DEF EndSql, TopMoves, SqlRuns, connection, watch, history
<1>2. /\ stack # <<>> /\ Top \in Frames /\ AnyFits(Top, uses, order)
      /\ Top.kind = "call" /\ Top.phase = "sql" /\ Top.at = 3 /\ ~Top.running
  BY <1>1, UnderACall
<1>3. /\ f \in Frames /\ f.kind = "call" /\ f.phase = "drain" /\ f.at = 3 /\ f.ended = Top.ended
      /\ f.running = Top.running /\ f.asked = Top.asked /\ f.reason = Top.reason
  BY <1>2 DEF Frames
<1>4. AnyFits(f, uses, order)
  BY <1>2, <1>3 DEF AnyFits
<1>. HIDE DEF f
<1>5. queued' \in Nat
  BY <1>1 DEF Parts, TypeOK
<1>6. Onto(f) /\ TypeOK' /\ OrderInv'
  BY <1>1, <1>3, <1>4, <1>5, MovesOnto
<1>7. QueueTop'
  BY <1>1, <1>2, <1>3, <1>6 DEF Parts, QueueTop, Onto
<1>8. OnceInv'
  BY <1>1, <1>2, <1>3, <1>6, OnceStays DEF Onto
<1>9. CurrentTop'
  <2>1. SUFFICES ASSUME Kept PROVE CurrentTop'
    BY <1>1 DEF CurrentTop, Kept
  <2>2. SnapshotKept
    BY <1>1, <2>1, KeptUnderACall
  <2>. QED
    BY <1>1, <1>3, <1>6, <2>2 DEF SnapshotKept, CurrentTop, Onto, Pending
<1>. QED
  BY <1>6, <1>7, <1>8, <1>9 DEF Parts, Onto

\* The stashed batch is taken: it is the watch that hears of it first.
LEMMA TakeBatchStep == Parts /\ TakeBatch => Parts'
<1>. SUFFICES ASSUME Parts, TakeBatch PROVE Parts'
  OBVIOUS
<1>. DEFINE f == [Top EXCEPT !.at = 1]
<1>1. /\ Top.phase = "drain" /\ Top.at = 3 /\ queued > 0 /\ queued' = queued - 1 /\ TopMoves(f)
      /\ stack # <<>>
      /\ UNCHANGED <<catalog, before, tx, ready, kept, moved, map, armed, tried, uses, order, version, asks>>
  BY DEF TakeBatch, DispatchDone, TopMoves, watch, history
<1>2. Top \in Frames /\ AnyFits(Top, uses, order)
  BY <1>1, TopFits
<1>3. /\ f \in Frames /\ f.kind = Top.kind /\ f.phase = "drain" /\ f.at = 1 /\ f.ended = Top.ended
      /\ f.running = Top.running /\ f.asked = Top.asked /\ f.reason = Top.reason
  BY <1>1, <1>2 DEF Frames
<1>4. "script" \notin uses => queued = 1 /\ Top.kind = "call"
  BY <1>1 DEF Parts, QueueTop
<1>5. AnyFits(f, uses, order)
  BY <1>1, <1>2, <1>3, <1>4 DEF AnyFits
<1>. HIDE DEF f
<1>6. queued' \in Nat /\ (queued = 1 => ~(queued' > 0))
  BY <1>1 DEF Parts, TypeOK
<1>7. Onto(f) /\ TypeOK' /\ OrderInv'
  BY <1>1, <1>3, <1>5, <1>6, MovesOnto
<1>8. QueueTop'
  BY <1>1, <1>4, <1>6 DEF QueueTop
<1>9. OnceInv'
  BY <1>1, <1>3, <1>4, <1>7, OnceStays DEF Onto
<1>10. CurrentTop'
  <2>1. SUFFICES ASSUME Kept PROVE CurrentTop'
    BY <1>1 DEF CurrentTop, Kept
  <2>2. Top.kind = "call" /\ tx = "none" /\ (map = catalog \/ armed)
    BY <1>1, <1>4, <2>1 DEF Kept, Parts, CurrentTop, Pending
  <2>3. kept = NoName /\ ready = NoName /\ NoName \notin Attachable
    BY <1>1, <2>1, KeptAboveSql DEF SqlRuns
  <2>. QED
    BY <1>1, <1>3, <1>7, <2>2, <2>3 DEF CurrentTop, Onto, Pending
<1>. QED
  BY <1>7, <1>8, <1>9, <1>10 DEF Parts, Onto

\* A listener's turn, in a drain: as long as calls end one transaction at most it is
\* the drain of a call, and this was the last batch.
LEMMA AtAListener ==
  ASSUME Parts, stack # <<>>, Top.phase = "drain", Top.at # 3
  PROVE  /\ Top \in Frames /\ AnyFits(Top, uses, order) /\ ~SqlRuns /\ Top.at \in {1, 2}
         /\ "script" \notin uses => Top.kind = "call" /\ queued = 0
<1>1. Top \in Frames /\ AnyFits(Top, uses, order)
  BY TopFits
<1>2. Top.kind \in {"call", "refresh"} /\ Top.at \in 1..3
  BY <1>1 DEF Frames
<1>3. "script" \notin uses => Top.kind = "call"
  BY <1>1, <1>2 DEF AnyFits
<1>4. "script" \notin uses => queued = 0
  BY DEF Parts, QueueTop, TypeOK
<1>. QED
  BY <1>1, <1>2, <1>3, <1>4 DEF SqlRuns

\* The next listener's turn comes.
LEMMA NextFits ==
  ASSUME Parts, stack # <<>>, Top.phase = "drain", Top.at # 3
  PROVE  /\ NextListener \in Frames /\ AnyFits(NextListener, uses, order) /\ LowerFits(NextListener, uses)
         /\ NextListener.kind = Top.kind /\ NextListener.phase = "drain" /\ NextListener.asked = Top.asked
         /\ NextListener.at = Top.at + 1 /\ NextListener.at # 1
<1>. DEFINE f == NextListener
<1>1. /\ Top \in Frames /\ AnyFits(Top, uses, order) /\ Top.at \in {1, 2}
      /\ "script" \notin uses => Top.kind = "call"
  BY AtAListener
<1>2. Top.at + 1 \in 1..3 /\ Top.at + 1 # 1
  BY <1>1
<1>3. /\ f \in Frames /\ f.kind = Top.kind /\ f.phase = "drain" /\ f.at = Top.at + 1
      /\ f.running = FALSE /\ f.asked = Top.asked /\ f.reason = Top.reason
  BY <1>1, <1>2 DEF Frames, NextListener
<1>. HIDE DEF f
<1>4. AnyFits(f, uses, order)
  BY <1>1, <1>3 DEF AnyFits
<1>5. LowerFits(f, uses)
  BY <1>1, <1>2, <1>3 DEF LowerFits
<1>. QED
  BY <1>2, <1>3, <1>4, <1>5 DEF f

\* The watch hears of a postcommit: armed, it refreshes on the spot; otherwise
\* the snapshot is current.
LEMMA ObservePostcommitStep == Parts /\ ObservePostcommit => Parts'
<1>. SUFFICES ASSUME Parts, ObservePostcommit PROVE Parts'
  OBVIOUS
<1>. DEFINE f == Frame("refresh", "ddl", NoName)
<1>1. /\ stack # <<>> /\ Top.phase = "drain" /\ Top.at # 3 /\ order[Top.at] = "watch" /\ armed' = FALSE
      /\ stack' = IF armed THEN Append(Append(Rest, NextListener), f) ELSE Append(Rest, NextListener)
      /\ UNCHANGED <<catalog, before, tx, ready, kept, moved, queued, map, tried, uses, order, version, asks>>
  BY DEF ObservePostcommit, ItsTurn, DispatchDone, connection, history
<1>2. /\ NextListener \in Frames /\ AnyFits(NextListener, uses, order) /\ LowerFits(NextListener, uses)
      /\ NextListener.kind = Top.kind /\ NextListener.phase = "drain" /\ NextListener.asked = Top.asked
      /\ NextListener.at # 1
  BY <1>1, NextFits
<1>3. ~SqlRuns /\ ("script" \notin uses => Top.kind = "call" /\ queued = 0)
  BY <1>1, AtAListener
<1>4. /\ f \in Frames /\ AnyFits(f, uses, order)
      /\ f.kind = "refresh" /\ f.phase = "sql" /\ f.at = 3 /\ ~f.ended /\ f.asked = NoName
  BY DEF Frame, Frames, Reasons, AnyFits
<1>. HIDE DEF f
<1>5. Onto(IF armed THEN f ELSE NextListener)
  <2>1. CASE armed
    BY <1>1, <1>2, <1>4, <2>1, Observes DEF Parts, TypeOK
  <2>2. CASE ~armed
    BY <1>1, <1>2, <2>2, Sets DEF Parts, TypeOK
  <2>. QED
    BY <2>1, <2>2
<1>6. TypeOK'
  BY <1>1, <1>5 DEF Parts, TypeOK, Onto
<1>7. OrderInv'
  BY <1>1, Settled DEF Parts
<1>8. QueueTop'
  BY <1>1, <1>3 DEF QueueTop
<1>9. OnceInv'
  BY <1>1, <1>2, <1>3, <1>4, <1>5, OnceStays DEF Onto
<1>10. CurrentTop'
  <2>1. SUFFICES ASSUME Kept PROVE CurrentTop'
    BY <1>1 DEF CurrentTop, Kept
  <2>2. Top.at = 1
    <3>1. order[1] = "watch" /\ order[2] # "watch"
      BY <2>1 DEF Parts, OrderInv, Kept
    <3>2. Top.at \in {1, 2}
      BY <1>1, AtAListener
    <3>. QED
      BY <1>1, <3>1, <3>2
  <2>3. tx = "none" /\ kept = NoName /\ ready = NoName /\ NoName \notin Attachable
    BY <1>1, <1>3, <2>1, <2>2, KeptAboveSql DEF Parts, CurrentTop
  <2>4. queued = 0 /\ Top.kind = "call"
    BY <1>3, <2>1 DEF Kept
  <2>5. armed \/ map = catalog
    BY <1>1, <2>1, <2>3, <2>4 DEF Parts, CurrentTop, Pending
  <2>6. CASE armed
    BY <1>1, <1>4, <1>5, <2>3, <2>6 DEF CurrentTop, Onto, Pending
  <2>7. CASE ~armed
    BY <1>1, <1>2, <1>5, <2>3, <2>4, <2>5, <2>7 DEF CurrentTop, Onto, Pending
  <2>. QED
    BY <2>6, <2>7
<1>. QED
  BY <1>5, <1>6, <1>7, <1>8, <1>9, <1>10 DEF Parts, Onto

\* The other listener comes second, with the snapshot current.
LEMMA OtherListenerStep == Parts /\ OtherListener => Parts'
<1>. SUFFICES ASSUME Parts, OtherListener PROVE Parts'
  OBVIOUS
<1>. DEFINE f == [Top EXCEPT !.running = TRUE]
<1>1. /\ stack # <<>> /\ Top.phase = "drain" /\ Top.at # 3 /\ order[Top.at] = "other" /\ TopMoves(f)
      /\ UNCHANGED <<catalog, before, tx, ready, kept, moved, queued, map, armed, tried, uses, order, version, asks>>
  BY DEF OtherListener, ItsTurn, DispatchDone, TopMoves, connection, watch, history
<1>2. /\ Top \in Frames /\ AnyFits(Top, uses, order) /\ ~SqlRuns
      /\ "script" \notin uses => Top.kind = "call" /\ queued = 0
  BY <1>1, AtAListener
<1>3. /\ f \in Frames /\ f.kind = Top.kind /\ f.phase = "drain" /\ f.at = Top.at
      /\ f.asked = Top.asked /\ f.reason = Top.reason
  BY <1>1, <1>2 DEF Frames
<1>4. AnyFits(f, uses, order)
  BY <1>1, <1>2, <1>3 DEF AnyFits
<1>. HIDE DEF f
<1>5. queued' \in Nat
  BY <1>1 DEF Parts, TypeOK
<1>6. Onto(f) /\ TypeOK' /\ OrderInv'
  BY <1>1, <1>3, <1>4, <1>5, MovesOnto
<1>7. QueueTop'
  BY <1>1, <1>2 DEF QueueTop
<1>8. OnceInv'
  BY <1>1, <1>2, <1>3, <1>6, OnceStays DEF Onto
<1>9. CurrentTop'
  <2>1. SUFFICES ASSUME Kept PROVE CurrentTop'
    BY <1>1 DEF CurrentTop, Kept
  <2>2. queued = 0 /\ Top.kind = "call"
    BY <1>2, <2>1 DEF Kept
  <2>3. Top.at = 2
    <3>1. order[1] = "watch"
      BY <2>1 DEF Parts, OrderInv, Kept
    <3>2. Top.at \in {1, 2}
      BY <1>1, AtAListener
    <3>. QED
      BY <1>1, <3>1, <3>2
  <2>4. /\ kept = NoName /\ ready = NoName /\ NoName \notin Attachable
        /\ tx # "none" => /\ map = before /\ (catalog = before \/ armed)
                          /\ catalog \intersect Attachable = before \intersect Attachable
    BY <1>2, <2>1, KeptAboveSql
  <2>5. tx = "none" => map = catalog
    BY <1>1, <2>1, <2>2, <2>3 DEF Parts, CurrentTop, Pending
  <2>. QED
    BY <1>1, <1>3, <1>6, <2>2, <2>3, <2>4, <2>5 DEF CurrentTop, Onto, Pending
<1>. QED
  BY <1>6, <1>7, <1>8, <1>9 DEF Parts, Onto

\* It returns, and the batch is done.
LEMMA OtherReturnsStep == Parts /\ OtherReturns => Parts'
<1>. SUFFICES ASSUME Parts, OtherReturns PROVE Parts'
  OBVIOUS
<1>. DEFINE f == NextListener
<1>1. /\ stack # <<>> /\ Top.running /\ TopMoves(f)
      /\ UNCHANGED <<catalog, before, tx, ready, kept, moved, queued, map, armed, tried, uses, order, version, asks>>
  BY DEF OtherReturns, TopMoves, connection, watch, history
<1>2. Top.phase = "drain" /\ Top.at # 3 /\ order[Top.at] = "other"
  BY <1>1, TopFits DEF AnyFits
<1>3. ~SqlRuns /\ ("script" \notin uses => Top.kind = "call" /\ queued = 0) /\ Top.at \in {1, 2}
  BY <1>1, <1>2, AtAListener
<1>4. /\ f \in Frames /\ AnyFits(f, uses, order)
      /\ f.kind = Top.kind /\ f.phase = "drain" /\ f.asked = Top.asked /\ f.at = Top.at + 1
  BY <1>1, <1>2, NextFits
<1>. HIDE DEF f
<1>5. queued' \in Nat
  BY <1>1 DEF Parts, TypeOK
<1>6. Onto(f) /\ TypeOK' /\ OrderInv'
  BY <1>1, <1>4, <1>5, MovesOnto
<1>7. QueueTop'
  BY <1>1, <1>3 DEF QueueTop
<1>8. OnceInv'
  BY <1>1, <1>2, <1>3, <1>4, <1>6, OnceStays DEF Onto
<1>9. CurrentTop'
  <2>1. SUFFICES ASSUME Kept PROVE CurrentTop'
    BY <1>1 DEF CurrentTop, Kept
  <2>2. queued = 0 /\ Top.kind = "call"
    BY <1>3, <2>1 DEF Kept
  <2>3. Top.at = 2 /\ f.at = 3
    <3>1. order[1] = "watch"
      BY <2>1 DEF Parts, OrderInv, Kept
    <3>2. Top.at = 2
      BY <1>2, <1>3, <3>1
    <3>. QED
      BY <1>4, <3>2
  <2>4. /\ kept = NoName /\ ready = NoName /\ NoName \notin Attachable
        /\ tx # "none" => /\ map = before /\ (catalog = before \/ armed)
                          /\ catalog \intersect Attachable = before \intersect Attachable
    BY <1>3, <2>1, KeptAboveSql
  <2>5. tx = "none" => map = catalog
    BY <1>1, <2>1, <2>2, <2>3 DEF Parts, CurrentTop, Pending
  <2>. QED
    BY <1>1, <1>4, <1>6, <2>2, <2>3, <2>4, <2>5 DEF CurrentTop, Onto, Pending
<1>. QED
  BY <1>6, <1>7, <1>8, <1>9 DEF Parts, Onto

\* A call or a refresh returns with nothing left to drain.
LEMMA PopsOff ==
  ASSUME Parts, stack # <<>>, stack' = Rest, ~SqlRuns,
         UNCHANGED <<catalog, before, tx, ready, kept, moved, queued, map, armed, uses, order, version, asks>>,
         tried' \in SUBSET Names, tried \subseteq tried',
         "script" \notin uses => queued = 0,
         Kept => ~Pending,
         uses \intersect {"callback", "script"} = {} /\ Top.phase = "callback" => Top.asked \in tried' \union {NoName}
  PROVE  Parts'
<1>1. /\ stack' \in Seq(Frames) /\ StackFits'
      /\ stack' # <<>> => Top' \in Frames /\ AnyFits(Top', uses, order) /\ LowerFits(Top', uses)
  BY Pops DEF Parts, TypeOK
<1>2. TypeOK'
  BY <1>1 DEF Parts, TypeOK
<1>3. OrderInv'
  BY Settled DEF Parts
<1>4. QueueTop'
  BY DEF QueueTop
<1>5. OnceInv'
  <2>1. SUFFICES ASSUME uses \intersect {"callback", "script"} = {}, NEW n \in Names
                 PROVE  /\ asks[n] # 0 => asks[n] = 1 /\ n \in tried'
                        /\ stack' # <<>> => ~(Top'.kind = "refresh" /\ Top'.phase # "callback")
    BY DEF OnceInv
  <2>2. asks[n] # 0 => asks[n] = 1 /\ n \in tried'
    BY <2>1, NamesAssumption DEF Parts, OnceInv
  <2>3. stack' # <<>> => ~(Top'.kind = "refresh" /\ Top'.phase # "callback")
    BY <1>1, <2>1 DEF LowerFits
  <2>. QED
    BY <2>2, <2>3
<1>6. CurrentTop'
  <2>1. SUFFICES ASSUME Kept PROVE CurrentTop'
    BY DEF CurrentTop, Kept
  <2>2. /\ kept = NoName /\ ready = NoName /\ NoName \notin Attachable
        /\ tx # "none" => /\ map = before /\ (catalog = before \/ armed)
                          /\ catalog \intersect Attachable = before \intersect Attachable
    BY <2>1, KeptAboveSql
  <2>3. tx = "none" => map = catalog
    BY <2>1 DEF Parts, CurrentTop
  <2>4. stack' # <<>> => /\ Top'.phase # "sql" /\ Top'.at # 1
                         /\ Top'.kind = "refresh" => Top'.phase = "callback"
    BY <1>1, <2>1 DEF LowerFits, Kept
  <2>5. queued = 0
    BY <2>1 DEF Kept
  <2>. QED
    BY <2>2, <2>3, <2>4, <2>5 DEF CurrentTop
<1>. QED
  BY <1>1, <1>2, <1>3, <1>4, <1>5, <1>6 DEF Parts

\* A call returns with nothing pending.
LEMMA FinishCallStep == Parts /\ FinishCall => Parts'
<1>. SUFFICES ASSUME Parts, FinishCall PROVE Parts'
  OBVIOUS
<1>1. /\ stack # <<>> /\ Top.kind = "call" /\ Top.phase = "drain" /\ Top.at = 3 /\ queued = 0 /\ stack' = Rest
      /\ UNCHANGED <<catalog, before, tx, ready, kept, moved, queued, map, armed, tried, uses, order, version, asks>>
  BY DEF FinishCall, Drained, DispatchDone, connection, watch, history
<1>2. tried' \in SUBSET Names /\ tried \subseteq tried'
  BY <1>1 DEF Parts, TypeOK
<1>3. ~Pending
  BY <1>1 DEF Pending
<1>. QED
  BY <1>1, <1>2, <1>3, PopsOff DEF SqlRuns

-----------------------------------------------------------------------------
(* Steps of a refresh.                                                         *)

\* Nothing awaits a drain while a refresh runs, as long as calls end one
\* transaction at most.
LEMMA UnderARefresh ==
  ASSUME Parts, stack # <<>>, Top.kind = "refresh"
  PROVE  /\ Top \in Frames /\ AnyFits(Top, uses, order) /\ ~SqlRuns
         /\ "script" \notin uses => queued = 0
<1>1. Top \in Frames /\ AnyFits(Top, uses, order)
  BY TopFits
<1>2. "script" \notin uses => queued = 0
  BY DEF Parts, QueueTop, TypeOK
<1>. QED
  BY <1>1, <1>2 DEF SqlRuns

\* The reading holds the names of the schema.
LEMMA ReadSchemaStep == Parts /\ ReadSchema => Parts'
<1>. SUFFICES ASSUME Parts, ReadSchema PROVE Parts'
  OBVIOUS
<1>. DEFINE f == [Top EXCEPT !.phase = "drain", !.reading = catalog]
<1>1. /\ stack # <<>> /\ Top.kind = "refresh" /\ Top.phase = "sql" /\ TopMoves(f)
      /\ UNCHANGED <<catalog, before, tx, ready, kept, moved, queued, map, armed, tried, uses, order, version, asks>>
  BY DEF ReadSchema, TopMoves, connection, watch, history
<1>2. /\ Top \in Frames /\ AnyFits(Top, uses, order) /\ ~SqlRuns
      /\ "script" \notin uses => queued = 0
  BY <1>1, UnderARefresh
<1>3. /\ f \in Frames /\ f.kind = "refresh" /\ f.phase = "drain" /\ f.at = Top.at /\ f.reading = catalog
      /\ f.running = Top.running /\ f.asked = Top.asked /\ f.reason = Top.reason
  BY <1>1, <1>2 DEF Frames, Parts, TypeOK
<1>4. AnyFits(f, uses, order) /\ Top.at = 3
  BY <1>1, <1>2, <1>3 DEF AnyFits
<1>. HIDE DEF f
<1>5. queued' \in Nat
  BY <1>1 DEF Parts, TypeOK
<1>6. Onto(f) /\ TypeOK' /\ OrderInv'
  BY <1>1, <1>3, <1>4, <1>5, MovesOnto
<1>7. QueueTop'
  BY <1>1, <1>2 DEF QueueTop
<1>8. OnceInv'
  <2>1. SUFFICES ASSUME uses \intersect {"callback", "script"} = {}, NEW n \in Names
                 PROVE  /\ asks[n] # 0 => asks[n] = 1 /\ n \in tried
                        /\ Top.asked = n => asks[n] = 0
    BY <1>1, <1>3, <1>6 DEF OnceInv, Onto
  <2>. QED
    BY <1>1, <2>1 DEF Parts, OnceInv
<1>9. CurrentTop'
  <2>1. SUFFICES ASSUME Kept PROVE CurrentTop'
    BY <1>1 DEF CurrentTop, Kept
  <2>2. tx = "none" /\ kept = NoName /\ ready = NoName /\ NoName \notin Attachable
    BY <1>1, <1>2, <2>1, KeptAboveSql DEF Parts, CurrentTop
  <2>. QED
    BY <1>1, <1>3, <1>4, <1>6, <2>2 DEF CurrentTop, Onto, Pending
<1>. QED
  BY <1>6, <1>7, <1>8, <1>9 DEF Parts, Onto

\* A reading that fails is no documented condition.
LEMMA ReadFailsStep == Parts /\ ReadFails => Parts'
<1>. SUFFICES ASSUME Parts, ReadFails PROVE Parts'
  OBVIOUS
<1>1. /\ "failing" \in uses /\ stack # <<>> /\ Top.kind = "refresh" /\ Top.phase = "sql" /\ stack' = Rest
      /\ UNCHANGED <<catalog, before, tx, ready, kept, moved, queued, map, armed, tried, uses, order, version, asks>>
  BY DEF ReadFails, connection, watch, history
<1>2. tried' \in SUBSET Names /\ tried \subseteq tried'
  BY <1>1 DEF Parts, TypeOK
<1>3. ~Kept
  BY <1>1 DEF Kept
<1>. QED
  BY <1>1, <1>2, <1>3, UnderARefresh, PopsOff

\* Nothing ran between the reading and the assignment, so the snapshot is
\* current; the name asked for is counted.
LEMMA InstallMapStep == Parts /\ InstallMap => Parts'
<1>. SUFFICES ASSUME Parts, InstallMap PROVE Parts'
  OBVIOUS
<1>. DEFINE f == [Top EXCEPT !.phase = "callback"]
<1>1. /\ stack # <<>> /\ Top.kind = "refresh" /\ Top.phase = "drain" /\ Top.at = 3 /\ queued = 0
      /\ map' = Top.reading
      /\ tried' = IF Top.reason \in {"ddl", "manual"} THEN {} ELSE tried
      /\ asks' = IF Top.asked # NoName THEN [asks EXCEPT ![Top.asked] = IF @ < 2 THEN @ + 1 ELSE @]
                 ELSE [n \in Names |-> 0]
      /\ stack' = Append(Rest, f)
      /\ UNCHANGED <<catalog, before, tx, ready, kept, moved, queued, armed, uses, order, version>>
  BY DEF InstallMap, Drained, DispatchDone, ForgetTried, SetTop, connection
<1>2. /\ Top \in Frames /\ AnyFits(Top, uses, order) /\ ~SqlRuns
  BY <1>1, UnderARefresh
<1>3. /\ f \in Frames /\ f.kind = "refresh" /\ f.phase = "callback" /\ f.at = 3 /\ f.asked = Top.asked
      /\ f.running = Top.running /\ f.reason = Top.reason
  BY <1>1, <1>2 DEF Frames
<1>4. AnyFits(f, uses, order)
  BY <1>1, <1>2, <1>3 DEF AnyFits
<1>. HIDE DEF f
<1>5. Onto(f)
  BY <1>1, <1>3, <1>4, Sets DEF Parts, TypeOK
<1>6. TypeOK'
  <2>1. map' \in SUBSET Names
    BY <1>1, <1>2 DEF Frames
  <2>2. tried' \in SUBSET Names
    BY <1>1 DEF Parts, TypeOK
  <2>3. asks' \in [Names -> 0..2]
    <3>1. Top.asked \in Names \union {NoName} /\ asks \in [Names -> 0..2]
      BY <1>2 DEF Frames, Parts, TypeOK
    <3>2. \A k \in 0..2 : (IF k < 2 THEN k + 1 ELSE k) \in 0..2
      OBVIOUS
    <3>. QED
      BY <1>1, <3>1, <3>2
  <2>. QED
    BY <1>1, <1>5, <2>1, <2>2, <2>3 DEF Parts, TypeOK, Onto
<1>7. OrderInv'
  BY <1>1, Settled DEF Parts
<1>8. QueueTop'
  BY <1>1 DEF QueueTop
<1>9. OnceInv'
  <2>1. SUFFICES ASSUME uses \intersect {"callback", "script"} = {}, NEW n \in Names
                 PROVE  asks'[n] # 0 => asks'[n] = 1 /\ (n \in tried' \/ Top.asked = n)
    BY <1>1, <1>3, <1>5 DEF OnceInv, Onto
  <2>2. /\ asks[n] # 0 => asks[n] = 1 /\ n \in tried
        /\ Top.asked = n => asks[n] = 0
    BY <1>1, <2>1 DEF Parts, OnceInv
  <2>3. CASE Top.asked = NoName
    BY <1>1, <2>3
  <2>4. CASE Top.asked # NoName
    <3>1. tried' = tried
      BY <1>1, <1>2, <2>4 DEF AnyFits
    <3>2. asks' = [asks EXCEPT ![Top.asked] = IF @ < 2 THEN @ + 1 ELSE @] /\ asks \in [Names -> 0..2]
      BY <1>1, <2>4 DEF Parts, TypeOK
    <3>3. CASE Top.asked = n
      BY <2>2, <3>2, <3>3
    <3>4. CASE Top.asked # n
      BY <2>2, <3>1, <3>2, <3>4
    <3>. QED
      BY <3>3, <3>4
  <2>. QED
    BY <2>3, <2>4
<1>10. CurrentTop'
  <2>1. SUFFICES ASSUME Kept PROVE CurrentTop'
    BY <1>1 DEF CurrentTop, Kept
  <2>2. tx = "none" /\ Top.reading = catalog /\ kept = NoName /\ ready = NoName /\ NoName \notin Attachable
    BY <1>1, <1>2, <2>1, KeptAboveSql DEF Parts, CurrentTop
  <2>. QED
    BY <1>1, <1>3, <1>5, <2>2 DEF CurrentTop, Onto
<1>. QED
  BY <1>5, <1>6, <1>7, <1>8, <1>9, <1>10 DEF Parts, Onto

\* onRefresh is over.
LEMMA AfterCallback ==
  ASSUME Parts, stack # <<>>, Top.phase = "callback"
  PROVE  /\ Top \in Frames /\ ~SqlRuns /\ (Kept => ~Pending)
         /\ "script" \notin uses => queued = 0
<1>1. Top.kind = "refresh" /\ Top.at = 3 /\ Top \in Frames
  BY TopFits DEF AnyFits
<1>2. ~SqlRuns /\ ("script" \notin uses => queued = 0)
  BY <1>1, UnderARefresh
<1>3. Kept => queued = 0
  BY <1>2 DEF Kept
<1>4. Kept => ~Pending
  BY <1>1, <1>3 DEF Pending
<1>. QED
  BY <1>1, <1>2, <1>4

\* The name asked for is recorded as onRefresh returns.
LEMMA FinishRefreshStep == Parts /\ FinishRefresh => Parts'
<1>. SUFFICES ASSUME Parts, FinishRefresh PROVE Parts'
  OBVIOUS
<1>1. /\ stack # <<>> /\ Top.phase = "callback" /\ stack' = Rest
      /\ tried' = tried \union ({Top.asked} \ {NoName})
      /\ UNCHANGED <<catalog, before, tx, ready, kept, moved, queued, map, armed, uses, order, version, asks>>
  BY DEF FinishRefresh, connection, history
<1>2. Top.asked \in Names \union {NoName}
  BY <1>1, AfterCallback DEF Frames
<1>3. /\ tried' \in SUBSET Names /\ tried \subseteq tried'
      /\ Top.asked \in tried' \union {NoName}
  BY <1>1, <1>2 DEF Parts, TypeOK
<1>. QED
  BY <1>1, <1>3, AfterCallback, PopsOff

\* A callback that throws leaves the snapshot in place.
LEMMA CallbackThrowsStep == Parts /\ CallbackThrows => Parts'
<1>. SUFFICES ASSUME Parts, CallbackThrows PROVE Parts'
  OBVIOUS
<1>1. /\ "callback" \in uses /\ stack # <<>> /\ Top.phase = "callback" /\ stack' = Rest
      /\ UNCHANGED <<catalog, before, tx, ready, kept, moved, queued, map, armed, tried, uses, order, version, asks>>
  BY DEF CallbackThrows, connection, watch, history
<1>2. tried' \in SUBSET Names /\ tried \subseteq tried'
  BY <1>1 DEF Parts, TypeOK
<1>3. ~(uses \intersect {"callback", "script"} = {})
  BY <1>1
<1>. QED
  BY <1>1, <1>2, <1>3, AfterCallback, PopsOff

-----------------------------------------------------------------------------
(* The specification keeps the invariant.                                      *)

\* Nothing is pending at first.
LEMMA InitParts == Init => Parts
<1>. SUFFICES ASSUME Init PROVE Parts
  OBVIOUS
<1>1. stack = <<>> /\ DOMAIN stack = {} /\ stack \in Seq(Frames)
  BY EmptySeq DEF Init
<1>2. TypeOK
  <2>1. asks \in [Names -> 0..2]
    BY DEF Init
  <2>2. /\ catalog \in SUBSET Names /\ before \in SUBSET Names /\ map \in SUBSET Names
        /\ tried \in SUBSET Names /\ uses \in Programs
    BY DEF Init
  <2>3. moved \in BOOLEAN /\ armed \in BOOLEAN /\ queued \in Nat /\ version \in Nat
    BY DEF Init
  <2>. QED
    BY <1>1, <2>1, <2>2, <2>3 DEF Init, TypeOK
<1>3. OrderInv
  BY DEF Init, OrderInv
<1>4. StackFits
  BY <1>1 DEF StackFits
<1>5. QueueTop
  BY DEF Init, QueueTop
<1>6. OnceInv
  BY DEF Init, OnceInv
<1>7. CurrentTop
  BY <1>1, NamesAssumption DEF Init, CurrentTop
<1>. QED
  BY <1>2, <1>3, <1>4, <1>5, <1>6, <1>7 DEF Parts

\* The entry points start refreshes.
LEMMA RefreshesKeepParts ==
  Parts /\ (RefreshIfArmed \/ RefreshNow \/ \E name \in Names : ResolveOrRefresh(name)) => Parts'
<1>. SUFFICES ASSUME Parts, RefreshIfArmed \/ RefreshNow \/ \E name \in Names : ResolveOrRefresh(name)
              PROVE  Parts'
  OBVIOUS
<1>1. CASE RefreshIfArmed
  BY <1>1, RefreshStep DEF RefreshIfArmed, Reasons
<1>2. CASE RefreshNow
  BY <1>2, RefreshStep DEF RefreshNow, Reasons
<1>3. ASSUME NEW name \in Names, ResolveOrRefresh(name) PROVE Parts'
  <2>1. MayRefresh /\ name \notin tried /\ StartRefresh("unknown-name", name)
        /\ UNCHANGED <<connection, map, armed, tried, history>>
    BY <1>3 DEF ResolveOrRefresh, watch
  <2>2. armed' \in BOOLEAN
    BY <2>1 DEF Parts, TypeOK
  <2>. QED
    BY <2>1, <2>2, RefreshStep DEF Reasons
<1>. QED
  BY <1>1, <1>2, <1>3

\* Every step keeps the parts.
LEMMA NextParts == Parts /\ [Next]_vars => Parts'
<1>. SUFFICES ASSUME Parts, [Next]_vars PROVE Parts'
  OBVIOUS
<1>1. CASE UNCHANGED vars
  <2>1. UNCHANGED <<catalog, before, tx, ready, kept, moved, queued, stack, map, armed, tried, uses, order, version, asks>>
    BY <1>1 DEF vars, connection, watch, history
  <2>2. TypeOK'
    BY <2>1 DEF Parts, TypeOK
  <2>3. Top' = Top
    BY <2>1 DEF Top
  <2>4. CurrentTop'
    BY <2>1, <2>3 DEF Parts, CurrentTop, Kept, SqlRuns, Pending
  <2>. QED
    BY <2>1, <2>2, <2>4, SqlStays
<1>2. CASE BeginCall
  BY <1>2, BeginCallStep
<1>3. CASE SqliteStep
  BY <1>3, PrepareStep, PrepareAheadStep, RunKeptStep, AbandonStep, ExecuteStep, WriteStep, CommitStep, RollbackStep
     DEF SqliteStep
<1>4. CASE DrainStep
  BY <1>4, EndSqlStep, TakeBatchStep, ObservePostcommitStep, OtherListenerStep, OtherReturnsStep, FinishCallStep
     DEF DrainStep
<1>5. CASE WatchStep
  BY <1>5, RefreshesKeepParts, RefusedRefreshStep, ReadSchemaStep, ReadFailsStep, InstallMapStep, FinishRefreshStep,
     CallbackThrowsStep
     DEF WatchStep
<1>. QED
  BY <1>1, <1>2, <1>3, <1>4, <1>5 DEF Next

\* So they hold of every behaviour.
LEMMA AlwaysParts == Spec => []Parts
BY InitParts, NextParts, PTL DEF Spec

\* The invariant the model checker is given holds of every behaviour.
THEOREM InvariantCorrect == Spec => []IInv
BY AlwaysParts, PartsOfIInv, PTL

\* The state has its type.
THEOREM TypeCorrect == Spec => []TypeOK
<1>1. Parts => TypeOK
  BY DEF Parts
<1>. QED
  BY <1>1, AlwaysParts, PTL

\* Used as documented, a watch that considers its snapshot current is right, once
\* every call has returned: nothing is pending where no call is under way.
THEOREM CurrentCorrect == Spec => []MapIsCurrent
<1>1. Parts => MapIsCurrent
  BY DEF Parts, CurrentTop, Pending, MapIsCurrent, AtRest
<1>. QED
  BY <1>1, AlwaysParts, PTL

\* resolveOrRefresh refreshes once for a name the schema does not have, until a
\* refresh for another reason.
THEOREM OnceCorrect == Spec => []OneRefreshPerName
<1>1. Parts => OneRefreshPerName
  <2>1. SUFFICES ASSUME Parts, uses \intersect {"callback", "script"} = {}, NEW n \in Names
                 PROVE  asks[n] <= 1
    BY DEF OneRefreshPerName
  <2>2. asks[n] \in 0..2 /\ (asks[n] # 0 => asks[n] = 1)
    BY <2>1 DEF Parts, TypeOK, OnceInv
  <2>. QED
    BY <2>2
<1>. QED
  BY <1>1, AlwaysParts, PTL

\* What disarms the watch, a listener in a hook aside: the rollback of the
\* transaction, and a refresh, which is on the stack from then on.
LEMMA Disarming == Parts /\ [Next]_vars => (uses \intersect {"inhook"} = {} => DisarmsAtSafePoint)
<1>. SUFFICES ASSUME Parts, [Next]_vars, uses \intersect {"inhook"} = {}, armed, ~armed'
              PROVE  \/ tx # "none" /\ tx' = "none"
                     \/ Len(stack') > Len(stack)
  BY DEF DisarmsAtSafePoint
<1>1. stack \in Seq(Frames) /\ Len(stack) \in Nat
  BY LenProperties DEF Parts, TypeOK
<1>2. ASSUME NEW f \in Frames, stack' = Append(stack, f) PROVE Len(stack') > Len(stack)
  BY <1>1, <1>2, AppendProperties
<1>3. CASE ObservePostcommit
  <2>. DEFINE f == Frame("refresh", "ddl", NoName)
  <2>1. /\ stack # <<>> /\ Top.phase = "drain" /\ Top.at # 3 /\ UNCHANGED <<uses, order>>
        /\ stack' = Append(Append(Rest, NextListener), f)
    BY <1>3 DEF ObservePostcommit, ItsTurn, DispatchDone, history
  <2>2. NextListener \in Frames /\ AnyFits(NextListener, uses, order) /\ LowerFits(NextListener, uses)
    BY <2>1, NextFits
  <2>3. f \in Frames /\ AnyFits(f, uses, order)
    BY DEF Frame, Frames, Reasons, AnyFits
  <2>. HIDE DEF f
  <2>4. Len(stack') = Len(stack) + 1
    BY <2>1, <2>2, <2>3, Observes DEF Parts, TypeOK
  <2>. QED
    BY <1>1, <2>4
<1>4. CASE RefreshIfArmed \/ RefreshNow
  <2>1. Frame("refresh", "ddl", NoName) \in Frames /\ Frame("refresh", "manual", NoName) \in Frames
    BY DEF Frame, Frames, Reasons
  <2>. QED
    BY <1>2, <1>4, <2>1 DEF RefreshIfArmed, RefreshNow, StartRefresh
<1>5. CASE SqliteStep
  <2>1. CASE Rollback
    BY <2>1 DEF Rollback, EndTx
  <2>2. CASE ~Rollback
    BY <1>5, <2>2 DEF SqliteStep, Prepare, PrepareAhead, RunKept, Abandon, Execute, Write, Commit, Authorized, watch
  <2>. QED
    BY <2>1, <2>2
<1>6. CASE RefusedRefresh
  BY <1>6 DEF RefusedRefresh
<1>7. armed' = armed => FALSE
  OBVIOUS
<1>8. CASE UNCHANGED vars
  BY <1>7, <1>8 DEF vars, watch
<1>9. CASE BeginCall
  BY <1>7, <1>9 DEF BeginCall, watch
<1>10. CASE DrainStep
  BY <1>3, <1>7, <1>10 DEF DrainStep, EndSql, TakeBatch, OtherListener, OtherReturns, FinishCall, watch
<1>11. CASE WatchStep
  BY <1>4, <1>6, <1>7, <1>11
     DEF WatchStep, ResolveOrRefresh, ReadSchema, ReadFails, InstallMap, FinishRefresh, CallbackThrows, watch
<1>. QED
  BY <1>5, <1>8, <1>9, <1>10, <1>11 DEF Next

\* An armed watch stays armed until the transaction that changed the schema is
\* undone, or until a refresh that really starts.
THEOREM ArmedCorrect == Spec => ArmedUntilSafePoint
<1>1. Parts /\ [Next]_vars => [uses \intersect {"inhook"} = {} => DisarmsAtSafePoint]_vars
  BY Disarming
<1>. QED
  BY <1>1, AlwaysParts, PTL DEF Spec, ArmedUntilSafePoint

=============================================================================
