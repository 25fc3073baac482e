-------------------------- MODULE LifecycleProofs --------------------------
(* Proofs about Lifecycle: what is torn down and when, what runs inside a hook *)
(* or on a closed connection, and who is served.                               *)
EXTENDS Lifecycle, SequenceTheorems, FiniteSetTheorems, TLAPS

-----------------------------------------------------------------------------
(* Stacks, innermost last, in the shapes the actions use them.                 *)

\* The end of a call takes its frame off.
LEMMA DropLast ==
  ASSUME NEW S, NEW s \in Seq(S), s # <<>>
  PROVE  LET r == SubSeq(s, 1, Len(s) - 1)
         IN /\ r \in Seq(S)
            /\ Len(r) = Len(s) - 1
            /\ \A i \in 1..Len(r) : r[i] = s[i]
<1>1. Len(s) \in Nat \ {0}
  BY EmptySeq
<1>2. PICK m \in Nat : Len(s) - 1 = m
  BY <1>1
<1>3. \A i \in 1..m : s[i] \in S
  BY <1>1, <1>2, ElementOfSeq
<1>4. SubSeq(s, 1, m) \in Seq(S) /\ Len(SubSeq(s, 1, m)) = m /\ \A i \in 1..m : SubSeq(s, 1, m)[i] = s[i]
  BY <1>3, SubSeqProperties
<1>. QED
  BY <1>2, <1>4

\* The frame on top, if there is one.
LEMMA LastElement ==
  ASSUME NEW S, NEW s \in Seq(S), s # <<>>
  PROVE  Len(s) \in Nat \ {0} /\ s[Len(s)] \in S /\ Len(s) \in 1..Len(s)
BY ElementOfSeq, EmptySeq, LenProperties

\* What comes on top is the last element, whatever it is.
LEMMA LastOfAppend ==
  ASSUME NEW S, NEW s \in Seq(S), NEW x
  PROVE  Len(Append(s, x)) = Len(s) + 1 /\ Append(s, x)[Len(s) + 1] = x
OBVIOUS

-----------------------------------------------------------------------------
(* The stack as the actions change it.                                         *)

\* The same frame, but for the report that a close() has made.
Alike(g, f) ==
    /\ g.kind = f.kind /\ g.conn = f.conn /\ g.reg = f.reg
    /\ g.draining = f.draining /\ g.outer = f.outer
    /\ f.kind # "close" => g.lands = f.lands

\* f is put on top.
Grows(f) ==
    /\ Len(stack') = Len(stack) + 1 /\ stack'[Len(stack) + 1] = f
    /\ \A i \in 1..Len(stack) : Alike(stack'[i], stack[i])

\* The top is taken off.
Shrinks ==
    /\ Len(stack) # 0 /\ Len(stack') = Len(stack) - 1
    /\ \A i \in 1..(Len(stack) - 1) : Alike(stack'[i], stack[i])

\* The call on top begins to drain.
Turns ==
    /\ Len(stack) # 0 /\ Len(stack') = Len(stack)
    /\ \A i \in 1..(Len(stack) - 1) : Alike(stack'[i], stack[i])
    /\ stack'[Len(stack)].kind = Top.kind /\ stack'[Len(stack)].conn = Top.conn
    /\ stack'[Len(stack)].reg = Top.reg /\ stack'[Len(stack)].outer = Top.outer
    /\ stack'[Len(stack)].lands = Top.lands /\ stack'[Len(stack)].draining = TRUE

\* The places and the frames of a stack.
LEMMA Places ==
  ASSUME NEW s \in Seq(Frames)
  PROVE  /\ Len(s) \in Nat /\ DOMAIN s = 1..Len(s)
         /\ \A i \in 1..Len(s) :
              /\ s[i] \in Frames /\ s[i].kind \in {"call", "hook", "event", "close"}
              /\ s[i].conn \in Conns /\ s[i].reg \in Regs \union {NoReg}
              /\ s[i].draining \in BOOLEAN /\ s[i].outer \in BOOLEAN /\ s[i].lands \in BOOLEAN
         /\ s # <<>> <=> Len(s) # 0
<1>1. Len(s) \in Nat /\ DOMAIN s = 1..Len(s)
  BY LenProperties
<1>2. \A i \in 1..Len(s) : s[i] \in Frames
  BY ElementOfSeq
<1>3. s # <<>> <=> Len(s) # 0
  BY EmptySeq
<1>. QED
  BY <1>1, <1>2, <1>3 DEF Frames

\* A new frame is a frame.
Begins(f, kind, c, r) ==
    /\ f \in Frames /\ f.kind = kind /\ f.conn = c /\ f.reg = r
    /\ f.draining = FALSE /\ f.lands = FALSE
    /\ f.outer <=> r # NoReg /\ inListener[r]

\* A new frame has its type.
LEMMA FrameType ==
  ASSUME inListener \in [Regs -> BOOLEAN],
         NEW kind \in {"call", "hook", "event", "close"}, NEW c \in Conns,
         NEW r \in Regs \union {NoReg}
  PROVE  Begins(Frame(kind, c, r), kind, c, r)
<1>. DEFINE b == r # NoReg /\ inListener[r]
<1>2. b \in BOOLEAN
  OBVIOUS
<1>3. Frame(kind, c, r) = [kind |-> kind, conn |-> c, reg |-> r, draining |-> FALSE,
                           outer |-> b, lands |-> FALSE]
  BY DEF Frame
<1>4. b <=> r # NoReg /\ inListener[r]
  OBVIOUS
<1>. HIDE DEF b
<1>5. Frame(kind, c, r).outer = b
  BY <1>3
<1>. QED
  BY <1>2, <1>3, <1>4, <1>5 DEF Frames, Begins

\* A frame is like itself.
LEMMA AlikeItself == \A f : Alike(f, f)
BY DEF Alike

\* A step that adds a frame.
LEMMA Push ==
  ASSUME stack \in Seq(Frames), NEW f \in Frames, stack' = Append(stack, f)
  PROVE  Grows(f) /\ stack' \in Seq(Frames)
<1>1. /\ stack' \in Seq(Frames) /\ Len(stack') = Len(stack) + 1
      /\ stack'[Len(stack) + 1] = f /\ \A i \in 1..Len(stack) : stack'[i] = stack[i]
  BY AppendProperties
<1>. QED
  BY <1>1, AlikeItself DEF Grows

\* A step that drops one.
LEMMA Pop ==
  ASSUME stack \in Seq(Frames), stack # <<>>, stack' = Rest
  PROVE  Shrinks /\ stack' \in Seq(Frames)
<1>1. /\ stack' \in Seq(Frames) /\ Len(stack') = Len(stack) - 1
      /\ \A i \in 1..Len(stack') : stack'[i] = stack[i]
  BY DropLast DEF Rest
<1>2. Len(stack) # 0
  BY LastElement
<1>. QED
  BY <1>1, <1>2, AlikeItself DEF Shrinks

\* A step that replaces the top.
LEMMA Replace ==
  ASSUME stack \in Seq(Frames), stack # <<>>, NEW f \in Frames
  PROVE  LET t == Append(Rest, f)
         IN /\ t \in Seq(Frames) /\ Len(t) = Len(stack) /\ t[Len(stack)] = f
            /\ \A i \in 1..(Len(stack) - 1) : t[i] = stack[i]
<1>1. /\ Rest \in Seq(Frames) /\ Len(Rest) = Len(stack) - 1
      /\ \A i \in 1..(Len(stack) - 1) : Rest[i] = stack[i]
  BY DropLast DEF Rest
<1>2. Len(stack) \in Nat \ {0}
  BY LastElement
<1>. HIDE DEF Rest
<1>3. LET t == Append(Rest, f)
      IN /\ t \in Seq(Frames) /\ Len(t) = Len(Rest) + 1 /\ t[Len(Rest) + 1] = f
         /\ \A i \in 1..Len(Rest) : t[i] = Rest[i]
  BY <1>1, AppendProperties
<1>. QED
  BY <1>1, <1>2, <1>3

-----------------------------------------------------------------------------
(* The flags of a registration and its dispatches.                             *)

\* The dispatches under way are the same before and after.
SameDispatches ==
  \A i \in Nat :
    /\ (i \in DOMAIN stack' /\ Dispatches(stack'[i])) <=> (i \in DOMAIN stack /\ Dispatches(stack[i]))
    /\ i \in DOMAIN stack /\ Dispatches(stack[i]) =>
         /\ stack'[i].kind = stack[i].kind /\ stack'[i].reg = stack[i].reg
         /\ stack'[i].outer = stack[i].outer

\* As long as they are, so are the flags right.
LEMMA FlagsStay ==
  ASSUME stack \in Seq(Frames), stack' \in Seq(Frames), FlagInv, SameDispatches,
         UNCHANGED <<inHook, inListener>>
  PROVE  FlagInv'
<1>1. DOMAIN stack = 1..Len(stack) /\ Len(stack) \in Nat /\ DOMAIN stack' = 1..Len(stack') /\ Len(stack') \in Nat
  BY Places
<1>2. \A i \in DOMAIN stack : i \in Nat
  BY <1>1
<1>3. \A i \in DOMAIN stack' : i \in Nat
  BY <1>1
<1>4. \A r \in Regs : inListener'[r] <=> (\E i \in DOMAIN stack' :
                        stack'[i].kind \in {"hook", "event"} /\ stack'[i].reg = r)
  BY <1>2, <1>3 DEF FlagInv, SameDispatches, Dispatches, Dispatching
<1>5. \A r \in Regs : inHook'[r] <=> (\E i \in DOMAIN stack' :
                        stack'[i].kind = "hook" /\ stack'[i].reg = r)
  BY <1>2, <1>3 DEF FlagInv, SameDispatches, Dispatches
<1>6. \A i \in DOMAIN stack' : Dispatches(stack'[i]) =>
        (stack'[i].outer <=> \E j \in DOMAIN stack' : j < i /\ Dispatches(stack'[j])
                                                        /\ stack'[j].reg = stack'[i].reg)
  BY <1>2, <1>3 DEF FlagInv, SameDispatches
<1>7. \A i, j \in DOMAIN stack' :
        stack'[i].kind = "hook" /\ stack'[j].kind = "hook" /\ stack'[i].reg = stack'[j].reg => i = j
  BY <1>2, <1>3 DEF FlagInv, SameDispatches, Dispatches
<1>. QED
  BY <1>4, <1>5, <1>6, <1>7 DEF FlagInv, Dispatching, Dispatches

\* They are when a call or a close() comes on top,
LEMMA QuietGrowth ==
  ASSUME stack \in Seq(Frames), stack' \in Seq(Frames),
         NEW f, Grows(f), f.kind \in {"call", "close"}
  PROVE  SameDispatches
BY Places DEF Grows, Alike, SameDispatches, Dispatches

\* when one goes,
LEMMA QuietShrinking ==
  ASSUME stack \in Seq(Frames), stack' \in Seq(Frames), Shrinks, Top.kind \in {"call", "close"}
  PROVE  SameDispatches
BY Places DEF Shrinks, Alike, SameDispatches, Dispatches, Top

\* and when one begins to drain.
LEMMA QuietTurn ==
  ASSUME stack \in Seq(Frames), stack' \in Seq(Frames), Turns, Top.kind = "call"
  PROVE  SameDispatches
BY Places DEF Turns, Alike, SameDispatches, Dispatches, Top

\* What growing and shrinking do to the places.
GrownPlaces(top, f) ==
    /\ \A i \in DOMAIN stack' : i = top \/ i \in DOMAIN stack
    /\ \A i \in DOMAIN stack : /\ i \in DOMAIN stack' /\ i # top /\ i < top /\ ~(top < i)
                               /\ Alike(stack'[i], stack[i])
    /\ top \in DOMAIN stack' /\ ~(top < top) /\ stack'[top] = f

\* A frame put on top leaves the others where they are.
LEMMA Growth ==
  ASSUME stack \in Seq(Frames), stack' \in Seq(Frames), NEW f, Grows(f)
  PROVE  GrownPlaces(Len(stack) + 1, f)
<1>1. DOMAIN stack = 1..Len(stack) /\ Len(stack) \in Nat /\ DOMAIN stack' = 1..Len(stack') /\ Len(stack') \in Nat
  BY Places
<1>. QED
  BY <1>1 DEF Grows, GrownPlaces

ShrunkPlaces(top) ==
    /\ \A i \in DOMAIN stack : i = top \/ i \in DOMAIN stack'
    /\ \A i \in DOMAIN stack' : /\ i \in DOMAIN stack /\ i # top /\ i < top /\ ~(top < i)
                                /\ Alike(stack'[i], stack[i])
    /\ top \in DOMAIN stack /\ ~(top < top) /\ stack[top] = Top

\* So does taking the top off.
LEMMA Shrinking ==
  ASSUME stack \in Seq(Frames), stack' \in Seq(Frames), Shrinks
  PROVE  ShrunkPlaces(Len(stack))
<1>1. DOMAIN stack = 1..Len(stack) /\ Len(stack) \in Nat /\ DOMAIN stack' = 1..Len(stack') /\ Len(stack') \in Nat
  BY Places
<1>. QED
  BY <1>1 DEF Shrinks, ShrunkPlaces, Top

\* A dispatch raises the flags, and remembers one of them.
LEMMA FlagsRise ==
  ASSUME stack \in Seq(Frames), stack' \in Seq(Frames), FlagInv,
         inHook \in [Regs -> BOOLEAN], inListener \in [Regs -> BOOLEAN],
         NEW f, Grows(f), f.kind \in {"hook", "event"},
         NEW r \in Regs, f.reg = r, f.outer <=> inListener[r],
         inListener' = [inListener EXCEPT ![r] = TRUE],
         f.kind = "hook" => ~inHook[r] /\ inHook' = [inHook EXCEPT ![r] = TRUE],
         f.kind # "hook" => inHook' = inHook
  PROVE  FlagInv'
<1>. DEFINE top == Len(stack) + 1
<1>1. GrownPlaces(top, f)
  BY Growth
<1>. HIDE DEF top
<1>2. \A i \in DOMAIN stack : stack'[i].kind = stack[i].kind /\ stack'[i].reg = stack[i].reg
                              /\ stack'[i].outer = stack[i].outer
  BY <1>1 DEF GrownPlaces, Alike
<1>3. \A q \in Regs : inListener'[q] <=> inListener[q] \/ q = r
  OBVIOUS
<1>4. \A q \in Regs : inListener'[q] <=> (\E i \in DOMAIN stack' :
                        stack'[i].kind \in {"hook", "event"} /\ stack'[i].reg = q)
  <2>1. TAKE q \in Regs
  <2>2. inListener[q] <=> \E j \in DOMAIN stack : stack[j].kind \in {"hook", "event"} /\ stack[j].reg = q
    BY DEF FlagInv, Dispatching
  <2>3. (\E i \in DOMAIN stack' : stack'[i].kind \in {"hook", "event"} /\ stack'[i].reg = q)
        <=> q = r \/ \E j \in DOMAIN stack : stack[j].kind \in {"hook", "event"} /\ stack[j].reg = q
    <3>1. ASSUME NEW i \in DOMAIN stack', stack'[i].kind \in {"hook", "event"}, stack'[i].reg = q, q # r
          PROVE  i \in DOMAIN stack /\ stack[i].kind \in {"hook", "event"} /\ stack[i].reg = q
      BY <1>1, <1>2, <3>1 DEF GrownPlaces
    <3>2. ASSUME NEW j \in DOMAIN stack, stack[j].kind \in {"hook", "event"}, stack[j].reg = q
          PROVE  j \in DOMAIN stack' /\ stack'[j].kind \in {"hook", "event"} /\ stack'[j].reg = q
      BY <1>1, <1>2, <3>2 DEF GrownPlaces
    <3>3. top \in DOMAIN stack' /\ stack'[top].kind \in {"hook", "event"} /\ stack'[top].reg = r
      BY <1>1 DEF GrownPlaces
    <3>. QED
      BY <3>1, <3>2, <3>3
  <2>. QED
    BY <1>3, <2>2, <2>3
<1>5. \A q \in Regs : inHook'[q] <=> inHook[q] \/ (q = r /\ f.kind = "hook")
  OBVIOUS
<1>6. \A q \in Regs : inHook'[q] <=> (\E i \in DOMAIN stack' :
                        stack'[i].kind = "hook" /\ stack'[i].reg = q)
  BY <1>1, <1>2, <1>5 DEF FlagInv, GrownPlaces
<1>7. \A i \in DOMAIN stack' : stack'[i].kind \in {"hook", "event"} =>
        (stack'[i].outer <=> \E j \in DOMAIN stack' : j < i /\ stack'[j].kind \in {"hook", "event"}
                                                        /\ stack'[j].reg = stack'[i].reg)
  <2>1. TAKE i \in DOMAIN stack'
  <2>2. HAVE stack'[i].kind \in {"hook", "event"}
  <2>3. CASE i = top
    <3>1. inListener[r] <=> \E j \in DOMAIN stack : stack[j].kind \in {"hook", "event"} /\ stack[j].reg = r
      BY DEF FlagInv, Dispatching
    <3>2. (\E j \in DOMAIN stack : stack[j].kind \in {"hook", "event"} /\ stack[j].reg = r)
          <=> \E j \in DOMAIN stack' : j < top /\ stack'[j].kind \in {"hook", "event"} /\ stack'[j].reg = r
      BY <1>1, <1>2 DEF GrownPlaces
    <3>3. stack'[i] = f
      BY <1>1, <2>3 DEF GrownPlaces
    <3>. QED
      BY <2>3, <3>1, <3>2, <3>3
  <2>4. CASE i \in DOMAIN stack
    <3>1. stack[i].outer <=> \E j \in DOMAIN stack : j < i /\ stack[j].kind \in {"hook", "event"}
                                                        /\ stack[j].reg = stack[i].reg
      BY <1>2, <2>2, <2>4 DEF FlagInv, Dispatches
    <3>2. (\E j \in DOMAIN stack : j < i /\ stack[j].kind \in {"hook", "event"}
                                     /\ stack[j].reg = stack[i].reg)
          <=> \E j \in DOMAIN stack' : j < i /\ stack'[j].kind \in {"hook", "event"}
                                      /\ stack'[j].reg = stack[i].reg
      BY <1>1, <1>2, <2>4 DEF GrownPlaces
    <3>. QED
      BY <1>2, <2>4, <3>1, <3>2
  <2>. QED
    BY <1>1, <2>3, <2>4 DEF GrownPlaces
<1>8. \A i \in DOMAIN stack : f.kind = "hook" /\ stack[i].kind = "hook" => stack[i].reg # r
  BY DEF FlagInv
<1>9. \A i, j \in DOMAIN stack' :
        stack'[i].kind = "hook" /\ stack'[j].kind = "hook" /\ stack'[i].reg = stack'[j].reg => i = j
  BY <1>1, <1>2, <1>8 DEF FlagInv, GrownPlaces
<1>. QED
  BY <1>4, <1>6, <1>7, <1>9 DEF FlagInv, Dispatching, Dispatches

\* Its end puts them back.
LEMMA FlagsFall ==
  ASSUME stack \in Seq(Frames), stack' \in Seq(Frames), FlagInv,
         inHook \in [Regs -> BOOLEAN], inListener \in [Regs -> BOOLEAN],
         Shrinks, Top.kind \in {"hook", "event"},
         NEW r \in Regs, Top.reg = r,
         inListener' = [inListener EXCEPT ![r] = Top.outer],
         Top.kind = "hook" => inHook' = [inHook EXCEPT ![r] = FALSE],
         Top.kind # "hook" => inHook' = inHook
  PROVE  FlagInv'
<1>. DEFINE top == Len(stack)
<1>1. ShrunkPlaces(top)
  BY Shrinking
<1>. HIDE DEF top
<1>2. \A i \in DOMAIN stack' : stack'[i].kind = stack[i].kind /\ stack'[i].reg = stack[i].reg
                               /\ stack'[i].outer = stack[i].outer
  BY <1>1 DEF ShrunkPlaces, Alike
<1>3. stack[top].kind = Top.kind /\ stack[top].reg = r /\ stack[top].outer = Top.outer
  BY <1>1 DEF ShrunkPlaces
<1>4. \A q \in Regs : inListener'[q] <=> (\E i \in DOMAIN stack' :
                        stack'[i].kind \in {"hook", "event"} /\ stack'[i].reg = q)
  <2>1. TAKE q \in Regs
  <2>2. CASE q = r
    <3>1. inListener'[q] <=> stack[top].outer
      BY <1>3, <2>2
    <3>2. stack[top].outer <=> \E j \in DOMAIN stack : j < top
             /\ stack[j].kind \in {"hook", "event"} /\ stack[j].reg = stack[top].reg
      BY <1>1, <1>3 DEF FlagInv, Dispatches, ShrunkPlaces
    <3>3. (\E j \in DOMAIN stack : j < top
             /\ stack[j].kind \in {"hook", "event"} /\ stack[j].reg = stack[top].reg)
          <=> \E j \in DOMAIN stack' : stack'[j].kind \in {"hook", "event"} /\ stack'[j].reg = r
      BY <1>1, <1>2, <1>3 DEF ShrunkPlaces
    <3>. QED
      BY <2>2, <3>1, <3>2, <3>3
  <2>3. CASE q # r
    <3>1. inListener'[q] <=> inListener[q]
      BY <2>3
    <3>2. inListener[q] <=> \E j \in DOMAIN stack : stack[j].kind \in {"hook", "event"} /\ stack[j].reg = q
      BY DEF FlagInv, Dispatching
    <3>3. (\E j \in DOMAIN stack : stack[j].kind \in {"hook", "event"} /\ stack[j].reg = q)
          <=> \E j \in DOMAIN stack' : stack'[j].kind \in {"hook", "event"} /\ stack'[j].reg = q
      BY <1>1, <1>2, <1>3, <2>3 DEF ShrunkPlaces
    <3>. QED
      BY <3>1, <3>2, <3>3
  <2>. QED
    BY <2>2, <2>3
<1>5. \A q \in Regs : inHook'[q] <=> (\E i \in DOMAIN stack' :
                        stack'[i].kind = "hook" /\ stack'[i].reg = q)
  <2>1. TAKE q \in Regs
  <2>2. CASE q = r /\ Top.kind = "hook"
    <3>1. ~inHook'[q]
      BY <2>2
    <3>2. \A i \in DOMAIN stack : stack[i].kind = "hook" /\ stack[i].reg = q => i = top
      BY <1>1, <1>3, <2>2 DEF FlagInv, ShrunkPlaces
    <3>. QED
      BY <1>1, <1>2, <3>1, <3>2 DEF ShrunkPlaces
  <2>3. CASE ~(q = r /\ Top.kind = "hook")
    <3>1. inHook'[q] <=> inHook[q]
      BY <2>3
    <3>2. inHook[q] <=> \E j \in DOMAIN stack : stack[j].kind = "hook" /\ stack[j].reg = q
      BY DEF FlagInv
    <3>3. (\E j \in DOMAIN stack : stack[j].kind = "hook" /\ stack[j].reg = q)
          <=> \E j \in DOMAIN stack' : stack'[j].kind = "hook" /\ stack'[j].reg = q
      BY <1>1, <1>2, <1>3, <2>3 DEF ShrunkPlaces
    <3>. QED
      BY <3>1, <3>2, <3>3
  <2>. QED
    BY <2>2, <2>3
<1>6. \A i \in DOMAIN stack' : stack'[i].kind \in {"hook", "event"} =>
        (stack'[i].outer <=> \E j \in DOMAIN stack' : j < i /\ stack'[j].kind \in {"hook", "event"}
                                                        /\ stack'[j].reg = stack'[i].reg)
  <2>1. TAKE i \in DOMAIN stack'
  <2>2. HAVE stack'[i].kind \in {"hook", "event"}
  <2>3. i \in DOMAIN stack
    BY <1>1 DEF ShrunkPlaces
  <2>4. stack[i].outer <=> \E j \in DOMAIN stack : j < i /\ stack[j].kind \in {"hook", "event"}
                                                        /\ stack[j].reg = stack[i].reg
    BY <1>2, <2>2, <2>3 DEF FlagInv, Dispatches
  <2>. QED
    BY <1>1, <1>2, <2>3, <2>4 DEF ShrunkPlaces
<1>7. \A i, j \in DOMAIN stack' :
        stack'[i].kind = "hook" /\ stack'[j].kind = "hook" /\ stack'[i].reg = stack'[j].reg => i = j
  BY <1>1, <1>2 DEF FlagInv, ShrunkPlaces
<1>. QED
  BY <1>4, <1>5, <1>6, <1>7 DEF FlagInv, Dispatching, Dispatches

-----------------------------------------------------------------------------
(* What the frames of the stack are about.                                     *)

\* A frame by itself, and a frame and one above it.
FrameFits(frame, regs, live, of) ==
    /\ frame.reg \in regs
    /\ frame.draining => frame.kind = "call"
    /\ Dispatches(frame) \/ Serves(frame) => frame.reg \in live
    /\ frame.kind \in {"hook", "close"} => frame.conn = of[frame.reg]
NextFits(frame, next) ==
    Serves(frame) => Dispatches(next) /\ next.reg = frame.reg
AboveFits(above, frame) ==
    above.kind = "close" /\ Dispatches(frame) => frame.reg # above.reg

\* StackInv in these terms, and after a step.
LEMMA StackParts ==
  ASSUME StackInv
  PROVE  /\ \A i \in DOMAIN stack : FrameFits(stack[i], 1..made \union {NoReg}, LiveRegs, connOf)
         /\ \A i \in DOMAIN stack : i < Len(stack) => NextFits(stack[i], stack[i + 1])
         /\ \A i, j \in DOMAIN stack : j < i => AboveFits(stack[i], stack[j])
<1>1. \A i \in DOMAIN stack : FrameFits(stack[i], 1..made \union {NoReg}, LiveRegs, connOf)
  BY DEF FrameFits, StackInv
<1>2. \A i \in DOMAIN stack : i < Len(stack) => NextFits(stack[i], stack[i + 1])
  BY DEF NextFits, StackInv
<1>3. \A i, j \in DOMAIN stack : j < i => AboveFits(stack[i], stack[j])
  BY DEF AboveFits, StackInv
<1>. QED
  BY <1>1, <1>2, <1>3

\* The same of the next state.
LEMMA StackPartsNext ==
  ASSUME \A i \in DOMAIN stack' : FrameFits(stack'[i], 1..made' \union {NoReg}, LiveRegs', connOf'),
         \A i \in DOMAIN stack' : i < Len(stack') => NextFits(stack'[i], stack'[i + 1]),
         \A i, j \in DOMAIN stack' : j < i => AboveFits(stack'[i], stack'[j])
  PROVE  StackInv'
<1>1. \A i \in DOMAIN stack' :
        /\ stack'[i].reg \in 1..made' \union {NoReg}
        /\ stack'[i].draining => stack'[i].kind = "call"
        /\ stack'[i].kind \in {"hook", "event"} \/ stack'[i].kind = "close" \/ stack'[i].draining
             => stack'[i].reg \in LiveRegs'
        /\ stack'[i].kind \in {"hook", "close"} => stack'[i].conn = connOf'[stack'[i].reg]
  BY DEF FrameFits, Dispatches, Serves
<1>2. \A i \in DOMAIN stack' : (stack'[i].kind = "close" \/ stack'[i].draining) /\ i < Len(stack')
        => stack'[i + 1].kind \in {"hook", "event"} /\ stack'[i + 1].reg = stack'[i].reg
  BY DEF NextFits, Dispatches, Serves
<1>3. \A i, j \in DOMAIN stack' :
        j < i /\ stack'[i].kind = "close" /\ stack'[j].kind \in {"hook", "event"}
          => stack'[j].reg # stack'[i].reg
  BY DEF AboveFits, Dispatches
<1>. QED
  BY <1>1, <1>2, <1>3 DEF StackInv, Dispatches, Serves

\* Frames that are alike fit alike.
LEMMA AlikeFits ==
  ASSUME NEW g, NEW f, Alike(g, f)
  PROVE  /\ \A regs, live, of : FrameFits(f, regs, live, of) => FrameFits(g, regs, live, of)
         /\ Dispatches(g) <=> Dispatches(f)
         /\ Serves(g) <=> Serves(f)
         /\ g.kind = f.kind /\ g.reg = f.reg /\ g.conn = f.conn
BY DEF Alike, FrameFits, Dispatches, Serves

\* A frame that fits is put on a stack of which none ends.
LEMMA StackRises ==
  ASSUME stack \in Seq(Frames), stack' \in Seq(Frames), StackInv,
         made' = made, connOf' = connOf, LiveRegs' = LiveRegs,
         NEW f, Grows(f), FrameFits(f, 1..made \union {NoReg}, LiveRegs, connOf),
         stack # <<>> => NextFits(Top, f),
         f.kind = "close" => \A i \in DOMAIN stack : Dispatches(stack[i]) => stack[i].reg # f.reg
  PROVE  StackInv'
<1>. DEFINE top == Len(stack) + 1
<1>1. GrownPlaces(top, f)
  BY Growth
<1>2. DOMAIN stack = 1..Len(stack) /\ Len(stack) \in Nat /\ DOMAIN stack' = 1..Len(stack') /\ Len(stack') = top
  BY Places DEF Grows
<1>3. \A i \in DOMAIN stack : i < Len(stack) => i + 1 \in DOMAIN stack
  BY <1>2
<1>4. \A i \in DOMAIN stack : ~(i < Len(stack)) => i = Len(stack) /\ i + 1 = top /\ stack # <<>>
  BY <1>2, Places
<1>5. \A i \in DOMAIN stack' : i < Len(stack') => i \in DOMAIN stack
  BY <1>2
<1>. HIDE DEF top
<1>6. \A i \in DOMAIN stack : /\ \A regs, live, of : FrameFits(stack[i], regs, live, of) => FrameFits(stack'[i], regs, live, of)
                              /\ Dispatches(stack'[i]) <=> Dispatches(stack[i])
                              /\ Serves(stack'[i]) <=> Serves(stack[i])
                              /\ stack'[i].kind = stack[i].kind /\ stack'[i].reg = stack[i].reg
  BY <1>1, AlikeFits DEF GrownPlaces
<1>7. \A i \in DOMAIN stack' : FrameFits(stack'[i], 1..made' \union {NoReg}, LiveRegs', connOf')
  BY <1>1, <1>6, StackParts DEF GrownPlaces
<1>8. \A i \in DOMAIN stack' : i < Len(stack') => NextFits(stack'[i], stack'[i + 1])
  <2>1. TAKE i \in DOMAIN stack'
  <2>2. HAVE i < Len(stack')
  <2>3. CASE i < Len(stack)
    <3>1. NextFits(stack[i], stack[i + 1]) /\ i \in DOMAIN stack /\ i + 1 \in DOMAIN stack
      BY <1>3, <1>5, <2>2, <2>3, StackParts
    <3>. QED
      BY <1>6, <3>1 DEF NextFits
  <2>4. CASE ~(i < Len(stack))
    <3>1. i \in DOMAIN stack /\ stack[i] = Top /\ stack'[i + 1] = f /\ stack # <<>>
      BY <1>1, <1>4, <1>5, <2>2, <2>4 DEF Top, GrownPlaces
    <3>. QED
      BY <1>6, <3>1 DEF NextFits
  <2>. QED
    BY <2>3, <2>4
<1>9. \A i, j \in DOMAIN stack' : j < i => AboveFits(stack'[i], stack'[j])
  <2>1. TAKE i, j \in DOMAIN stack'
  <2>2. HAVE j < i
  <2>3. CASE i = top
    BY <1>1, <1>6, <2>2, <2>3 DEF GrownPlaces, AboveFits
  <2>4. CASE i # top
    <3>1. i \in DOMAIN stack /\ j \in DOMAIN stack
      BY <1>1, <2>2, <2>4 DEF GrownPlaces
    <3>. QED
      BY <1>6, <2>2, <3>1, StackParts DEF AboveFits
  <2>. QED
    BY <2>3, <2>4
<1>. QED
  BY <1>7, <1>8, <1>9, StackPartsNext

\* The top is taken off, and the frames left still have a live registration.
LEMMA StackFalls ==
  ASSUME stack \in Seq(Frames), stack' \in Seq(Frames), StackInv,
         made' = made, connOf' = connOf, Shrinks,
         \A i \in DOMAIN stack' : Dispatches(stack[i]) \/ Serves(stack[i]) => stack[i].reg \in LiveRegs'
  PROVE  StackInv'
<1>. DEFINE top == Len(stack)
<1>1. ShrunkPlaces(top)
  BY Shrinking
<1>2. DOMAIN stack = 1..Len(stack) /\ Len(stack) \in Nat /\ DOMAIN stack' = 1..Len(stack') /\ Len(stack') = Len(stack) - 1
  BY Places DEF Shrinks
<1>3. \A i \in DOMAIN stack' : i < Len(stack') => i + 1 \in DOMAIN stack' /\ i < Len(stack)
  BY <1>2
<1>. HIDE DEF top
<1>4. \A i \in DOMAIN stack' : /\ i \in DOMAIN stack
                               /\ \A regs, live, of : FrameFits(stack[i], regs, live, of) => FrameFits(stack'[i], regs, live, of)
                               /\ Dispatches(stack'[i]) <=> Dispatches(stack[i])
                               /\ Serves(stack'[i]) <=> Serves(stack[i])
                               /\ stack'[i].kind = stack[i].kind /\ stack'[i].reg = stack[i].reg
  BY <1>1, AlikeFits DEF ShrunkPlaces
<1>5. \A i \in DOMAIN stack' : FrameFits(stack'[i], 1..made' \union {NoReg}, LiveRegs', connOf')
  <2>1. TAKE i \in DOMAIN stack'
  <2>2. FrameFits(stack[i], 1..made \union {NoReg}, LiveRegs, connOf)
    BY <1>4, StackParts
  <2>3. FrameFits(stack[i], 1..made' \union {NoReg}, LiveRegs', connOf')
    BY <2>2 DEF FrameFits
  <2>. QED
    BY <1>4, <2>3
<1>6. \A i \in DOMAIN stack' : i < Len(stack') => NextFits(stack'[i], stack'[i + 1])
  BY <1>3, <1>4, StackParts DEF NextFits
<1>7. \A i, j \in DOMAIN stack' : j < i => AboveFits(stack'[i], stack'[j])
  BY <1>4, StackParts DEF AboveFits
<1>. QED
  BY <1>5, <1>6, <1>7, StackPartsNext

\* The call on top begins to drain for a live registration.
LEMMA StackTurns ==
  ASSUME stack \in Seq(Frames), stack' \in Seq(Frames), StackInv,
         made' = made, connOf' = connOf, LiveRegs' = LiveRegs,
         Turns, Top.kind = "call", Top.reg \in LiveRegs
  PROVE  StackInv'
<1>. DEFINE top == Len(stack)
<1>1. DOMAIN stack = 1..Len(stack) /\ Len(stack) \in Nat /\ DOMAIN stack' = 1..Len(stack') /\ Len(stack') = Len(stack)
  BY Places DEF Turns
<1>2. \A i \in DOMAIN stack' : i < Len(stack') => i + 1 \in DOMAIN stack /\ i # top
  BY <1>1
<1>3. \A i \in DOMAIN stack' : i # top => Alike(stack'[i], stack[i])
  BY <1>1 DEF Turns
<1>4. top \in DOMAIN stack
  BY <1>1 DEF Turns
<1>5. /\ stack'[top].kind = "call" /\ stack[top].kind = "call" /\ stack'[top].reg = stack[top].reg
      /\ stack[top].reg \in LiveRegs
  BY DEF Turns, Top
<1>6. DOMAIN stack' = DOMAIN stack
  BY <1>1
<1>. HIDE DEF top
<1>7. \A i \in DOMAIN stack' : i # top =>
        /\ \A regs, live, of : FrameFits(stack[i], regs, live, of) => FrameFits(stack'[i], regs, live, of)
        /\ Serves(stack'[i]) <=> Serves(stack[i])
  BY <1>3, AlikeFits
<1>8. \A i \in DOMAIN stack' : /\ Dispatches(stack'[i]) <=> Dispatches(stack[i])
                               /\ stack'[i].kind = stack[i].kind /\ stack'[i].reg = stack[i].reg
  BY <1>3, <1>5, AlikeFits DEF Dispatches
<1>9. \A i \in DOMAIN stack' : FrameFits(stack'[i], 1..made' \union {NoReg}, LiveRegs', connOf')
  <2>1. TAKE i \in DOMAIN stack'
  <2>2. FrameFits(stack[i], 1..made \union {NoReg}, LiveRegs, connOf)
    BY <1>6, StackParts
  <2>3. CASE i # top
    BY <1>7, <2>2, <2>3
  <2>4. CASE i = top
    BY <1>5, <2>2, <2>4 DEF FrameFits
  <2>. QED
    BY <2>3, <2>4
<1>10. \A i \in DOMAIN stack' : i < Len(stack') => NextFits(stack'[i], stack'[i + 1])
  BY <1>1, <1>2, <1>6, <1>7, <1>8, StackParts DEF NextFits
<1>11. \A i, j \in DOMAIN stack' : j < i => AboveFits(stack'[i], stack'[j])
  BY <1>6, <1>8, StackParts DEF AboveFits
<1>. QED
  BY <1>9, <1>10, <1>11, StackPartsNext

\* The stack is left alone, and its frames still have a live registration.
LEMMA StackStays ==
  ASSUME StackInv, stack' = stack, 1..made \subseteq 1..made',
         \A i \in DOMAIN stack : Dispatches(stack[i]) \/ Serves(stack[i])
                                   => stack[i].reg \in LiveRegs' /\ connOf'[stack[i].reg] = connOf[stack[i].reg]
  PROVE  StackInv'
<1>1. \A i \in DOMAIN stack' : FrameFits(stack'[i], 1..made' \union {NoReg}, LiveRegs', connOf')
  <2>1. TAKE i \in DOMAIN stack'
  <2>2. FrameFits(stack[i], 1..made \union {NoReg}, LiveRegs, connOf)
    BY StackParts
  <2>. QED
    BY <2>2 DEF FrameFits, Dispatches, Serves
<1>. QED
  BY <1>1, StackParts, StackPartsNext

-----------------------------------------------------------------------------
(* The registrations and the connections.                                      *)

\* What RegistrationInv says of a registration, of a subscription, of a connection.
RegFits(r) ==
    /\ r \in 1..made => Live(r) \/ Closed(r) \/ Disposed(r)
    /\ r \notin 1..made => listeners[r] = {} /\ ~torn[r] /\ ~closed[r] /\ ~detached[r]
SubFits(r, listener) == <<r, listener>> \in subs <=> listener \in listeners[r]
ConnFits(c) ==
    /\ c \in open => /\ native[c] = wrappers[c] /\ regOf[c] = wrappers[c]
                     /\ wrappers[c] # NoReg => Live(wrappers[c]) /\ connOf[wrappers[c]] = c
    /\ c \notin open => /\ native[c] = NoReg /\ regOf[c] = NoReg
                        /\ wrappers[c] # NoReg => wrappers[c] \in 1..made /\ closed[wrappers[c]]

\* The three together.
AllFit ==
    /\ \A r \in Regs : RegFits(r)
    /\ \A r \in Regs, listener \in Listeners : SubFits(r, listener)
    /\ \A c \in Conns : ConnFits(c)
    /\ \A s \in statements : s[2] \in 1..made \union {NoReg}

\* They are RegistrationInv, also after a step.
LEMMA RegistrationParts == TypeOK => (RegistrationInv <=> AllFit)
<1>. SUFFICES ASSUME TypeOK PROVE RegistrationInv <=> AllFit
  OBVIOUS
<1>1. \A c \in Conns : wrappers[c] # NoReg => (wrappers[c] \in LiveRegs <=> Live(wrappers[c]))
  BY DEF LiveRegs, TypeOK
<1>2. (\A c \in Conns : ConnFits(c)) <=>
        \A c \in Conns :
          IF c \in open
          THEN /\ native[c] = wrappers[c] /\ regOf[c] = wrappers[c]
               /\ wrappers[c] # NoReg => wrappers[c] \in LiveRegs /\ connOf[wrappers[c]] = c
          ELSE /\ native[c] = NoReg /\ regOf[c] = NoReg
               /\ wrappers[c] # NoReg => wrappers[c] \in 1..made /\ closed[wrappers[c]]
  BY <1>1 DEF ConnFits
<1>3. (\A r \in Regs : RegFits(r)) <=>
        \A r \in Regs : /\ r \in 1..made => Live(r) \/ Closed(r) \/ Disposed(r)
                        /\ r \notin 1..made => listeners[r] = {} /\ ~torn[r] /\ ~closed[r] /\ ~detached[r]
  BY DEF RegFits
<1>4. (\A r \in Regs, listener \in Listeners : SubFits(r, listener)) <=>
        \A r \in Regs, listener \in Listeners : <<r, listener>> \in subs <=> listener \in listeners[r]
  BY DEF SubFits
<1>. QED
  BY <1>2, <1>3, <1>4 DEF RegistrationInv, AllFit

\* The same of the next state.
LEMMA RegistrationPartsNext == (TypeOK => (RegistrationInv <=> AllFit))'
BY RegistrationParts, PTL

\* Nothing a registration is about changes.
LEMMA RegistryStays ==
  ASSUME AllFit, UNCHANGED <<open, native, regOf, wrappers, statements, registrations, subs>>
  PROVE  AllFit' /\ LiveRegs' = LiveRegs
<1>1. \A r \in Regs : Live(r)' <=> Live(r)
  BY DEF Live, registrations
<1>2. \A r \in Regs : RegFits(r)'
  BY DEF AllFit, RegFits, Live, Closed, Disposed, registrations
<1>3. \A r \in Regs, listener \in Listeners : SubFits(r, listener)'
  BY DEF AllFit, SubFits, registrations
<1>4. \A c \in Conns : ConnFits(c)'
  BY DEF AllFit, ConnFits, Live, registrations
<1>5. \A s \in statements' : s[2] \in 1..made' \union {NoReg}
  BY DEF AllFit, registrations
<1>. QED
  BY <1>1, <1>2, <1>3, <1>4, <1>5 DEF AllFit, LiveRegs

\* A statement is prepared under the registration in force.
LEMMA PrepareRegistry ==
  ASSUME TypeOK, AllFit, NEW c \in Conns, Prepare(c)
  PROVE  AllFit' /\ LiveRegs' = LiveRegs
<1>. USE DEF Prepare, registrations, program, driver
<1>1. \A r \in Regs : Live(r)' <=> Live(r)
  BY DEF Live
<1>2. \A r \in Regs : RegFits(r)'
  BY DEF AllFit, RegFits, Live, Closed, Disposed
<1>3. \A r \in Regs, listener \in Listeners : SubFits(r, listener)'
  BY DEF AllFit, SubFits
<1>4. \A d \in Conns : ConnFits(d)'
  BY DEF AllFit, ConnFits, Live
<1>5. wrappers[c] \in 1..made \union {NoReg}
  BY DEF AllFit, ConnFits, Live
<1>6. \A s \in statements' : s[2] \in 1..made' \union {NoReg}
  BY <1>5 DEF AllFit
<1>. QED
  BY <1>1, <1>2, <1>3, <1>4, <1>6 DEF AllFit, LiveRegs

\* A registration is made on a connection that has none.
LEMMA AttachRegistry ==
  ASSUME TypeOK, AllFit, NEW c \in Conns, NEW listener \in Listeners, Attach(c, listener)
  PROVE  /\ AllFit' /\ made' = made + 1 /\ made' \in Regs /\ ~detached'[made']
         /\ \A q \in Regs : Live(q) => Live(q)' /\ connOf'[q] = connOf[q]
<1>0. made + 1 \in Regs
  BY RegAssumption DEF Attach, TypeOK, Regs
<1>. PICK r \in Regs : r = made + 1
  BY <1>0
<1>1. r \in Regs /\ r = made + 1 /\ r \notin 1..made /\ 1..(made + 1) = 1..made \union {r}
  BY DEF TypeOK
<1>2. /\ c \in open /\ native[c] = NoReg /\ regOf[c] = NoReg /\ wrappers[c] = NoReg
      /\ listeners[r] = {} /\ ~torn[r] /\ ~closed[r] /\ ~detached[r]
  BY <1>1 DEF AllFit, ConnFits, RegFits, Attach
<1>3. /\ made' = r /\ connOf' = [connOf EXCEPT ![r] = c] /\ listeners' = [listeners EXCEPT ![r] = {listener}]
      /\ native' = [native EXCEPT ![c] = r] /\ regOf' = [regOf EXCEPT ![c] = r]
      /\ wrappers' = [wrappers EXCEPT ![c] = r] /\ subs' = subs \union {<<r, listener>>}
      /\ 1..made' = 1..made \union {r}
      /\ UNCHANGED <<open, statements, torn, closed, detached>>
  BY <1>1 DEF Attach, Wrap
<1>4. Live(r)'
  BY <1>1, <1>2, <1>3 DEF Live, TypeOK
<1>5. \A q \in Regs : Live(q) => Live(q)' /\ connOf'[q] = connOf[q] /\ q # r
  <2>1. TAKE q \in Regs
  <2>2. HAVE Live(q)
  <2>3. q # r /\ connOf[q] # c /\ connOf[q] \in Conns
    BY <1>1, <1>2, <2>2, RegAssumption DEF Live, TypeOK, Regs
  <2>. QED
    BY <1>3, <2>2, <2>3 DEF Live, TypeOK
<1>6. \A q \in Regs : RegFits(q)'
  <2>1. TAKE q \in Regs
  <2>2. CASE q = r
    BY <1>1, <1>3, <1>4, <2>2 DEF RegFits
  <2>3. CASE q # r /\ q \in 1..made
    <3>1. Live(q) \/ Closed(q) \/ Disposed(q)
      BY <2>3 DEF AllFit, RegFits
    <3>2. Closed(q) => Closed(q)'
      BY <1>3, <2>3 DEF Closed, TypeOK
    <3>3. Disposed(q) => Disposed(q)'
      BY <1>3, <2>3 DEF Disposed, TypeOK
    <3>. QED
      BY <1>3, <1>5, <2>3, <3>1, <3>2, <3>3 DEF RegFits
  <2>4. CASE q # r /\ q \notin 1..made
    BY <1>3, <2>4 DEF AllFit, RegFits, TypeOK
  <2>. QED
    BY <2>2, <2>3, <2>4
<1>7. \A q \in Regs, other \in Listeners : SubFits(q, other)'
  BY <1>2, <1>3 DEF AllFit, SubFits, TypeOK
<1>8. \A d \in Conns : ConnFits(d)'
  <2>1. TAKE d \in Conns
  <2>2. CASE d = c
    BY <1>1, <1>2, <1>3, <1>4, <2>2 DEF ConnFits, TypeOK
  <2>3. CASE d # c
    <3>1. native'[d] = native[d] /\ regOf'[d] = regOf[d] /\ wrappers'[d] = wrappers[d]
      BY <1>3, <2>3 DEF TypeOK
    <3>2. wrappers[d] # NoReg => wrappers[d] \in Regs
      BY DEF TypeOK
    <3>3. PICK w \in Regs \union {NoReg} : w = wrappers[d]
      BY DEF TypeOK
    <3>4. ConnFits(d)
      BY DEF AllFit
    <3>5. w # NoReg /\ Live(w) => Live(w)' /\ connOf'[w] = connOf[w]
      BY <1>5
    <3>. QED
      BY <1>3, <3>1, <3>3, <3>4, <3>5 DEF ConnFits, Live
  <2>. QED
    BY <2>2, <2>3
<1>9. \A s \in statements' : s[2] \in 1..made' \union {NoReg}
  BY <1>3 DEF AllFit
<1>10. AllFit'
  BY <1>6, <1>7, <1>8, <1>9 DEF AllFit
<1>. QED
  BY <1>1, <1>2, <1>3, <1>5, <1>10

\* Another subscription to the registration of a connection.
LEMMA JoinRegistry ==
  ASSUME TypeOK, AllFit, NEW c \in Conns, NEW listener \in Listeners, Join(c, listener)
  PROVE  AllFit' /\ \A q \in Regs : Live(q) => Live(q)'
<1>1. PICK r \in Regs \union {NoReg} : r = regOf[c]
  BY DEF TypeOK
<1>2. r \in Regs /\ Live(r) /\ r \in 1..made
  BY <1>1 DEF AllFit, ConnFits, Join, Live
<1>3. /\ listeners' = [listeners EXCEPT ![r] = listeners[r] \union {listener}]
      /\ subs' = subs \union {<<r, listener>>}
      /\ UNCHANGED <<open, native, regOf, wrappers, statements, made, connOf, torn, closed, detached>>
  BY <1>1 DEF Join, driver, patches
<1>4. \A q \in Regs : listeners'[q] = IF q = r THEN listeners[q] \union {listener} ELSE listeners[q]
  BY <1>2, <1>3 DEF TypeOK
<1>5. \A q \in Regs : Live(q) => Live(q)'
  BY <1>3, <1>4 DEF Live
<1>6. \A q \in Regs : RegFits(q)'
  <2>1. TAKE q \in Regs
  <2>2. CASE q = r
    BY <1>2, <1>3, <1>5, <2>2 DEF RegFits
  <2>3. CASE q # r
    <3>1. Closed(q) => Closed(q)'
      BY <1>3 DEF Closed
    <3>2. Disposed(q) => Disposed(q)'
      BY <1>3, <1>4, <2>3 DEF Disposed
    <3>. QED
      BY <1>3, <1>4, <1>5, <2>3, <3>1, <3>2 DEF AllFit, RegFits
  <2>. QED
    BY <2>2, <2>3
<1>7. \A q \in Regs, other \in Listeners : SubFits(q, other)'
  <2>1. TAKE q \in Regs, other \in Listeners
  <2>2. <<q, other>> \in subs <=> other \in listeners[q]
    BY DEF AllFit, SubFits
  <2>3. <<q, other>> \in subs' <=> <<q, other>> \in subs \/ (q = r /\ other = listener)
    BY <1>3
  <2>4. other \in listeners'[q] <=> other \in listeners[q] \/ (q = r /\ other = listener)
    BY <1>4
  <2>. QED
    BY <2>2, <2>3, <2>4 DEF SubFits
<1>8. \A d \in Conns : ConnFits(d)'
  <2>1. TAKE d \in Conns
  <2>2. PICK w \in Regs \union {NoReg} : w = wrappers[d]
    BY DEF TypeOK
  <2>3. ConnFits(d)
    BY DEF AllFit
  <2>4. w # NoReg /\ Live(w) => Live(w)'
    BY <1>5
  <2>. QED
    BY <1>3, <2>2, <2>3, <2>4 DEF ConnFits
<1>9. \A s \in statements' : s[2] \in 1..made' \union {NoReg}
  BY <1>3 DEF AllFit
<1>. QED
  BY <1>5, <1>6, <1>7, <1>8, <1>9 DEF AllFit

\* A subscription is disposed: its registration ends with the last one, and no
\* other does.
LEMMA DisposeRegistry ==
  ASSUME TypeOK, AllFit, NEW r \in Regs, NEW listener \in Listeners, Dispose(r, listener)
  PROVE  /\ AllFit'
         /\ \A q \in Regs : q # r /\ Live(q) => Live(q)'
         /\ r \in 1..made
         /\ \/ UNCHANGED <<detached, iterDepth, iterPatched>>
            \/ /\ ~detached[r] /\ detached' = [detached EXCEPT ![r] = TRUE]
               /\ UnpatchIter
<1>1. /\ listener \in listeners[r] /\ <<r, listener>> \in subs
      /\ r \in 1..made /\ (Live(r) \/ Closed(r))
  <2>1. <<r, listener>> \in subs
    BY DEF Dispose, StillSubscribed
  <2>2. listener \in listeners[r]
    BY <2>1 DEF AllFit, SubFits
  <2>. QED
    BY <2>1, <2>2 DEF AllFit, RegFits, Disposed
<1>2. /\ listeners' = [listeners EXCEPT ![r] = listeners[r] \ {listener}]
      /\ subs' = subs \ {<<r, listener>>}
      /\ UNCHANGED <<open, statements, made, connOf, closed>>
  BY DEF Dispose
<1>3. \A q \in Regs : listeners'[q] = IF q = r THEN listeners[q] \ {listener} ELSE listeners[q]
  BY <1>2 DEF TypeOK
<1>4. \A q \in Regs, other \in Listeners : SubFits(q, other)'
  <2>1. TAKE q \in Regs, other \in Listeners
  <2>2. <<q, other>> \in subs <=> other \in listeners[q]
    BY DEF AllFit, SubFits
  <2>3. <<q, other>> \in subs' <=> <<q, other>> \in subs /\ ~(q = r /\ other = listener)
    BY <1>2
  <2>4. other \in listeners'[q] <=> other \in listeners[q] /\ ~(q = r /\ other = listener)
    BY <1>3
  <2>. QED
    BY <2>2, <2>3, <2>4 DEF SubFits
<1>5. \A s \in statements' : s[2] \in 1..made' \union {NoReg}
  BY <1>2 DEF AllFit
<1>6. CASE listeners'[r] # {}
  <2>1. UNCHANGED <<native, torn, regOf, detached, wrappers, iterDepth, iterPatched>>
    BY <1>6 DEF Dispose
  <2>2. \A q \in Regs : Live(q) => Live(q)'
    BY <1>2, <1>3, <1>6, <2>1 DEF Live
  <2>3. \A q \in Regs : RegFits(q)'
    <3>1. TAKE q \in Regs
    <3>2. Closed(q) => Closed(q)'
      BY <1>2, <2>1 DEF Closed
    <3>3. Disposed(q) => Disposed(q)'
      BY <1>2, <1>3, <2>1 DEF Disposed
    <3>4. q \notin 1..made => listeners'[q] = {}
      BY <1>3 DEF AllFit, RegFits
    <3>. QED
      BY <1>2, <2>1, <2>2, <3>2, <3>3, <3>4 DEF AllFit, RegFits
  <2>4. \A d \in Conns : ConnFits(d)'
    <3>1. TAKE d \in Conns
    <3>2. PICK w \in Regs \union {NoReg} : w = wrappers[d]
      BY DEF TypeOK
    <3>3. ConnFits(d)
      BY DEF AllFit
    <3>4. w # NoReg /\ Live(w) => Live(w)'
      BY <2>2
    <3>. QED
      BY <1>2, <2>1, <3>2, <3>3, <3>4 DEF ConnFits
  <2>. QED
    BY <1>1, <1>4, <1>5, <2>1, <2>2, <2>3, <2>4 DEF AllFit
<1>7. CASE listeners'[r] = {}
  <2>1. /\ Teardown(r)
        /\ IF closed[r] THEN UNCHANGED <<detached, wrappers, iterDepth, iterPatched>> ELSE Detach(r)
        /\ regOf' = [regOf EXCEPT ![connOf[r]] = NoReg]
    BY <1>7 DEF Dispose
  <2>2. CASE Live(r)
    <3>1. PICK c \in Conns : c = connOf[r]
      BY <2>2 DEF Live, TypeOK
    <3>2. /\ torn' = [torn EXCEPT ![r] = TRUE] /\ native' = [native EXCEPT ![c] = NoReg]
          /\ detached' = [detached EXCEPT ![r] = TRUE] /\ wrappers' = [wrappers EXCEPT ![c] = NoReg]
          /\ regOf' = [regOf EXCEPT ![c] = NoReg] /\ UnpatchIter /\ ~detached[r]
      BY <2>1, <2>2, <3>1 DEF Live, Teardown, Detach
    <3>3. \A q \in Regs : q # r /\ Live(q) => connOf[q] # c /\ connOf[q] \in Conns
      BY <2>2, <3>1 DEF Live, TypeOK
    <3>4. \A q \in Regs : q # r /\ Live(q) => Live(q)'
      <4>1. TAKE q \in Regs
      <4>2. HAVE q # r /\ Live(q)
      <4>3. connOf[q] # c /\ connOf[q] \in Conns
        BY <3>3, <4>2
      <4>. QED
        BY <1>2, <1>3, <3>2, <4>2, <4>3 DEF Live, TypeOK
    <3>5. Disposed(r)'
      BY <1>2, <1>7, <2>2, <3>1, <3>2 DEF Disposed, Live, TypeOK
    <3>6. \A q \in Regs : RegFits(q)'
      <4>1. TAKE q \in Regs
      <4>2. CASE q = r
        BY <1>1, <1>2, <3>5, <4>2 DEF RegFits
      <4>3. CASE q # r
        <5>1. torn'[q] = torn[q] /\ detached'[q] = detached[q] /\ listeners'[q] = listeners[q]
          BY <1>3, <3>2, <4>3 DEF TypeOK
        <5>2. Closed(q) => Closed(q)'
          BY <1>2, <5>1 DEF Closed
        <5>3. Disposed(q) => Disposed(q)'
          BY <1>2, <5>1 DEF Disposed
        <5>. QED
          BY <1>2, <3>4, <4>3, <5>1, <5>2, <5>3 DEF AllFit, RegFits
      <4>. QED
        BY <4>2, <4>3
    <3>7. \A d \in Conns : ConnFits(d)'
      <4>1. TAKE d \in Conns
      <4>2. CASE d = c
        BY <1>2, <2>2, <3>1, <3>2, <4>2 DEF ConnFits, Live, TypeOK
      <4>3. CASE d # c
        <5>1. native'[d] = native[d] /\ regOf'[d] = regOf[d] /\ wrappers'[d] = wrappers[d]
          BY <3>2, <4>3 DEF TypeOK
        <5>2. PICK w \in Regs \union {NoReg} : w = wrappers[d]
          BY DEF TypeOK
        <5>3. ConnFits(d)
          BY DEF AllFit
        <5>4. w # NoReg /\ w # r /\ Live(w) => Live(w)'
          BY <3>4
        <5>. QED
          BY <1>2, <3>1, <4>3, <5>1, <5>2, <5>3, <5>4 DEF ConnFits
      <4>. QED
        BY <4>2, <4>3
    <3>. QED
      BY <1>1, <1>4, <1>5, <3>2, <3>4, <3>6, <3>7 DEF AllFit
  <2>3. CASE Closed(r)
    <3>1. PICK c \in Conns : c = connOf[r] /\ c \notin open
      BY <2>3 DEF Closed
    <3>2. regOf[c] = NoReg
      BY <3>1 DEF AllFit, ConnFits
    <3>3. UNCHANGED <<native, torn, regOf, detached, wrappers, iterDepth, iterPatched>>
      <4>1. regOf' = regOf
        BY <2>1, <3>1, <3>2 DEF TypeOK
      <4>2. torn' = torn
        BY <2>1, <2>3 DEF Closed, Teardown, TypeOK
      <4>. QED
        BY <2>1, <2>3, <4>1, <4>2 DEF Closed, Teardown
    <3>4. \A q \in Regs : q # r /\ Live(q) => Live(q)'
      BY <1>2, <1>3, <3>3 DEF Live
    <3>5. \A q \in Regs : RegFits(q)'
      <4>1. TAKE q \in Regs
      <4>2. Closed(q) => Closed(q)'
        BY <1>2, <3>3 DEF Closed
      <4>3. Disposed(q) => Disposed(q)'
        BY <1>2, <1>3, <3>3 DEF Disposed
      <4>4. q \notin 1..made => listeners'[q] = {}
        BY <1>3 DEF AllFit, RegFits
      <4>. QED
        BY <1>1, <1>2, <2>3, <3>3, <3>4, <4>2, <4>3, <4>4 DEF AllFit, RegFits
    <3>6. \A d \in Conns : ConnFits(d)'
      <4>1. TAKE d \in Conns
      <4>2. PICK w \in Regs \union {NoReg} : w = wrappers[d]
        BY DEF TypeOK
      <4>3. ConnFits(d)
        BY DEF AllFit
      <4>4. w # NoReg /\ w # r /\ Live(w) => Live(w)'
        BY <3>4
      <4>5. ~Live(r)
        BY <2>3 DEF Closed, Live
      <4>. QED
        BY <1>2, <3>3, <4>2, <4>3, <4>4, <4>5 DEF ConnFits
    <3>. QED
      BY <1>1, <1>4, <1>5, <3>3, <3>4, <3>5, <3>6 DEF AllFit
  <2>. QED
    BY <1>1, <2>2, <2>3
<1>. QED
  BY <1>6, <1>7

\* A connection without wrappers is closed.
LEMMA DriverCloseRegistry ==
  ASSUME TypeOK, AllFit, NEW c \in Conns, DriverClose(c)
  PROVE  AllFit' /\ \A q \in Regs : Live(q) => Live(q)'
<1>1. /\ c \in open /\ wrappers[c] = NoReg /\ native[c] = NoReg /\ regOf[c] = NoReg
      /\ open' = open \ {c}
      /\ UNCHANGED <<native, regOf, wrappers, statements, made, connOf, listeners, torn, closed, detached, subs>>
  BY DEF DriverClose, AllFit, ConnFits, patches, registrations, program
<1>2. \A q \in Regs : Live(q) => Live(q)'
  BY <1>1, RegAssumption DEF Live, Regs, TypeOK
<1>3. \A q \in Regs : RegFits(q)'
  BY <1>1, <1>2 DEF AllFit, RegFits, Closed, Disposed
<1>4. \A q \in Regs, other \in Listeners : SubFits(q, other)'
  BY <1>1 DEF AllFit, SubFits
<1>5. \A d \in Conns : ConnFits(d)'
  <2>1. TAKE d \in Conns
  <2>2. PICK w \in Regs \union {NoReg} : w = wrappers[d]
    BY DEF TypeOK
  <2>3. ConnFits(d)
    BY DEF AllFit
  <2>4. w # NoReg /\ Live(w) => Live(w)'
    BY <1>2
  <2>. QED
    BY <1>1, <2>2, <2>3, <2>4 DEF ConnFits
<1>6. \A s \in statements' : s[2] \in 1..made' \union {NoReg}
  BY <1>1 DEF AllFit
<1>. QED
  BY <1>2, <1>3, <1>4, <1>5, <1>6 DEF AllFit

\* A connection is closed with the registration it has, and no other ends.
LEMMA FinishCloseRegistry ==
  ASSUME TypeOK, AllFit, NEW r \in Regs, r = Top.reg, Live(r), Top.conn = connOf[r], FinishClose
  PROVE  AllFit' /\ torn'[r] /\ \A q \in Regs : q # r /\ Live(q) => Live(q)'
<1>1. PICK c \in Conns : c = connOf[r] /\ c \in open
  BY DEF Live, TypeOK
<1>2. /\ torn' = [torn EXCEPT ![r] = TRUE] /\ native' = [native EXCEPT ![c] = NoReg]
      /\ closed' = [closed EXCEPT ![r] = TRUE] /\ open' = open \ {c}
      /\ regOf' = [regOf EXCEPT ![c] = NoReg]
      /\ UNCHANGED <<wrappers, statements, made, connOf, listeners, detached, subs>>
  BY <1>1 DEF FinishClose, CloseTeardown, Teardown, Live, program
<1>3. \A q \in Regs : q # r /\ Live(q) => Live(q)'
  <2>1. TAKE q \in Regs
  <2>2. HAVE q # r /\ Live(q)
  <2>3. connOf[q] # c /\ connOf[q] \in Conns
    BY <1>1, <2>2 DEF Live, TypeOK
  <2>. QED
    BY <1>2, <2>2, <2>3 DEF Live, TypeOK
<1>4. Closed(r)' /\ torn'[r]
  BY <1>1, <1>2 DEF Closed, TypeOK
<1>5. \A q \in Regs : RegFits(q)'
  <2>1. TAKE q \in Regs
  <2>2. CASE q = r
    BY <1>2, <1>4, <2>2 DEF RegFits, Live
  <2>3. CASE q # r
    <3>1. torn'[q] = torn[q] /\ closed'[q] = closed[q]
      BY <1>2, <2>3 DEF TypeOK
    <3>2. Closed(q) => Closed(q)'
      BY <1>2, <3>1 DEF Closed
    <3>3. Disposed(q) => Disposed(q)'
      BY <1>2, <3>1 DEF Disposed
    <3>. QED
      BY <1>2, <1>3, <2>3, <3>1, <3>2, <3>3 DEF AllFit, RegFits
  <2>. QED
    BY <2>2, <2>3
<1>6. \A q \in Regs, other \in Listeners : SubFits(q, other)'
  BY <1>2 DEF AllFit, SubFits
<1>7. \A d \in Conns : ConnFits(d)'
  <2>1. TAKE d \in Conns
  <2>2. CASE d = c
    BY <1>1, <1>2, <2>2 DEF ConnFits, Live, TypeOK
  <2>3. CASE d # c
    <3>1. native'[d] = native[d] /\ regOf'[d] = regOf[d] /\ (d \in open' <=> d \in open)
      BY <1>2, <2>3 DEF TypeOK
    <3>2. PICK w \in Regs \union {NoReg} : w = wrappers[d]
      BY DEF TypeOK
    <3>3. ConnFits(d)
      BY DEF AllFit
    <3>4. w # NoReg /\ w # r /\ Live(w) => Live(w)'
      BY <1>3
    <3>5. w # NoReg /\ closed[w] => closed'[w]
      BY <1>2 DEF TypeOK
    <3>. QED
      BY <1>1, <1>2, <2>3, <3>1, <3>2, <3>3, <3>4, <3>5 DEF ConnFits
  <2>. QED
    BY <2>2, <2>3
<1>8. \A s \in statements' : s[2] \in 1..made' \union {NoReg}
  BY <1>2 DEF AllFit
<1>. QED
  BY <1>3, <1>4, <1>5, <1>6, <1>7, <1>8 DEF AllFit

-----------------------------------------------------------------------------
(* Who relies on the wrapper of iter().                                        *)

Relying == {r \in 1..made : ~detached[r]}

\* Finitely many registrations rely on the prototype, so they can be counted.
LEMMA RelyingFinite ==
  ASSUME TypeOK
  PROVE  IsFiniteSet(Relying) /\ Cardinality(Relying) \in Nat
<1>1. IsFiniteSet(1..made)
  BY FS_Interval DEF TypeOK
<1>2. Relying \subseteq 1..made
  BY DEF Relying
<1>3. IsFiniteSet(Relying)
  BY <1>1, <1>2, FS_Subset
<1>. QED
  BY <1>3, FS_CardinalityType

\* The depth and the patch of the prototype are right as long as nothing is made
\* or detached.
LEMMA IterStays ==
  ASSUME IterInv, UNCHANGED <<made, detached, iterDepth, iterPatched>>
  PROVE  IterInv'
BY DEF IterInv

\* One registration more relies on it,
LEMMA IterGrows ==
  ASSUME TypeOK, IterInv, made' = made + 1, detached' = detached, ~detached[made + 1], PatchIter
  PROVE  IterInv'
<1>1. made + 1 \notin Relying
  BY DEF Relying, TypeOK
<1>2. {r \in 1..(made + 1) : ~detached[r]} = Relying \union {made + 1}
  <2>1. 1..(made + 1) = 1..made \union {made + 1}
    BY DEF TypeOK
  <2>. QED
    BY <2>1 DEF Relying
<1>3. Cardinality({r \in 1..(made + 1) : ~detached[r]}) = Cardinality(Relying) + 1
  BY <1>1, <1>2, RelyingFinite, FS_AddElement
<1>4. iterDepth = Cardinality(Relying)
  BY DEF IterInv, Relying
<1>5. iterDepth' = iterDepth + 1 /\ iterPatched'
  BY DEF PatchIter
<1>6. iterDepth' > 0
  BY <1>5 DEF TypeOK
<1>. QED
  BY <1>3, <1>4, <1>5, <1>6 DEF IterInv

\* or one less.
LEMMA IterFalls ==
  ASSUME TypeOK, IterInv, made' = made, NEW r \in 1..made, r \in Regs, ~detached[r],
         detached' = [detached EXCEPT ![r] = TRUE], UnpatchIter
  PROVE  IterInv' /\ iterDepth' \in Nat
<1>1. r \in Relying
  BY DEF Relying
<1>2. {q \in 1..made : ~detached'[q]} = Relying \ {r}
  <2>1. \A q \in 1..made : q \in Regs
    BY RegAssumption DEF TypeOK, Regs
  <2>2. \A q \in Regs : detached'[q] <=> detached[q] \/ q = r
    BY DEF TypeOK
  <2>. QED
    BY <2>1, <2>2 DEF Relying
<1>3. Cardinality({q \in 1..made : ~detached'[q]}) = Cardinality(Relying) - 1
  BY <1>1, <1>2, RelyingFinite, FS_RemoveElement
<1>4. iterDepth = Cardinality(Relying) /\ iterDepth \in Nat
  BY RelyingFinite DEF IterInv, Relying
<1>5. iterDepth' = iterDepth - 1 /\ (iterPatched' <=> iterDepth > 1)
  BY DEF UnpatchIter
<1>6. iterDepth # 0
  <2>1. Relying # {}
    BY <1>1
  <2>. QED
    BY <1>4, <2>1, RelyingFinite, FS_EmptySet
<1>7. iterDepth' = Cardinality({q \in 1..made' : ~detached'[q]})
  BY <1>3, <1>4, <1>5
<1>8. (iterPatched' <=> iterDepth' > 0) /\ iterDepth' \in Nat
  BY <1>4, <1>5, <1>6
<1>. QED
  BY <1>7, <1>8 DEF IterInv

\* Where somebody does, it is there.
LEMMA IterThere ==
  ASSUME TypeOK, IterInv, NEW r \in 1..made, ~detached[r]
  PROVE  iterPatched
<1>1. Relying # {}
  BY DEF Relying
<1>2. iterDepth \in Nat /\ iterDepth # 0
  BY <1>1, RelyingFinite, FS_EmptySet DEF IterInv, Relying
<1>. QED
  BY <1>2 DEF IterInv

-----------------------------------------------------------------------------
(* Calls inside a hook, and what is drained when.                              *)

Documented == uses \intersect {"old", "before", "nested"} = {}

\* The parts of PromptInv.
CallsFit == \A i \in DOMAIN stack : stack[i].kind = "call" /\ stack[i].reg # NoReg
                                      => native[stack[i].conn] \in {stack[i].reg, NoReg}
HooksFit == \A i \in DOMAIN stack : stack[i].kind = "hook" /\ stack[i].lands =>
              \E j \in DOMAIN stack : j < i /\ stack[j].kind = "call" /\ stack[j].reg = stack[i].reg
StashFits == \A r \in stashed : torn[r] \/ \E i \in DOMAIN stack :
               stack[i].kind \in {"call", "close"} /\ stack[i].reg = r

\* PromptInv in parts: of the calls, of the hooks and of the stash.
LEMMA PromptParts == PromptInv <=> (Documented => CallsFit /\ HooksFit /\ StashFits)
BY DEF PromptInv, Documented, CallsFit, HooksFit, StashFits
\* The same of the next state.
LEMMA PromptPartsNext == (PromptInv <=> (Documented => CallsFit /\ HooksFit /\ StashFits))'
BY PromptParts, PTL

\* A frame is put on top: a call beside the hooks below it, which drains for whom
\* SQLite calls back, or the hook of such a call.
LEMMA PromptRises ==
  ASSUME stack \in Seq(Frames), stack' \in Seq(Frames), NEW f, Grows(f),
         NothingStepsInHook, PromptInv,
         uses' = uses, native' = native, torn' = torn, stashed' \subseteq stashed,
         f.kind = "call" /\ uses \intersect {"old", "before"} = {} =>
           \A i \in DOMAIN stack : stack[i].kind = "hook" => stack[i].conn # f.conn,
         f.kind = "call" /\ f.reg # NoReg /\ Documented => native[f.conn] \in {f.reg, NoReg},
         f.kind = "hook" /\ f.lands /\ Documented =>
           \E j \in DOMAIN stack : stack[j].kind = "call" /\ stack[j].reg = f.reg
  PROVE  NothingStepsInHook' /\ PromptInv'
<1>. DEFINE top == Len(stack) + 1
<1>1. GrownPlaces(top, f)
  BY Growth
<1>. HIDE DEF top
<1>2. \A i \in DOMAIN stack : /\ stack'[i].kind = stack[i].kind /\ stack'[i].reg = stack[i].reg
                              /\ stack'[i].conn = stack[i].conn
                              /\ stack[i].kind = "hook" => stack'[i].lands = stack[i].lands
  BY <1>1 DEF GrownPlaces, Alike
<1>3. NothingStepsInHook'
  <2>1. SUFFICES ASSUME uses \intersect {"old", "before"} = {},
                        NEW i \in DOMAIN stack', NEW j \in DOMAIN stack',
                        i < j, stack'[i].kind = "hook", stack'[j].kind = "call"
                 PROVE  stack'[i].conn # stack'[j].conn
    BY DEF NothingStepsInHook
  <2>2. i \in DOMAIN stack
    BY <1>1, <2>1 DEF GrownPlaces
  <2>3. CASE j = top
    BY <1>1, <1>2, <2>1, <2>2, <2>3 DEF GrownPlaces
  <2>4. CASE j \in DOMAIN stack
    BY <1>2, <2>1, <2>2, <2>4 DEF NothingStepsInHook
  <2>. QED
    BY <1>1, <2>3, <2>4 DEF GrownPlaces
<1>4. SUFFICES ASSUME Documented
               PROVE  CallsFit' /\ HooksFit' /\ StashFits'
  BY <1>3, PromptPartsNext DEF Documented
<1>5. CallsFit /\ HooksFit /\ StashFits
  BY <1>4, PromptParts
<1>6. CallsFit'
  BY <1>1, <1>2, <1>4, <1>5 DEF CallsFit, GrownPlaces
<1>7. HooksFit'
  <2>1. SUFFICES ASSUME NEW i \in DOMAIN stack', stack'[i].kind = "hook" /\ stack'[i].lands
                 PROVE  \E j \in DOMAIN stack' : j < i /\ stack'[j].kind = "call" /\ stack'[j].reg = stack'[i].reg
    BY DEF HooksFit
  <2>2. CASE i = top
    <3>1. stack'[i] = f
      BY <1>1, <2>2 DEF GrownPlaces
    <3>2. PICK j \in DOMAIN stack : stack[j].kind = "call" /\ stack[j].reg = f.reg
      BY <1>4, <2>1, <3>1
    <3>. QED
      BY <1>1, <1>2, <2>2, <3>1, <3>2 DEF GrownPlaces
  <2>3. CASE i \in DOMAIN stack
    <3>1. PICK j \in DOMAIN stack : j < i /\ stack[j].kind = "call" /\ stack[j].reg = stack[i].reg
      BY <1>2, <1>5, <2>1, <2>3 DEF HooksFit
    <3>. QED
      BY <1>1, <1>2, <2>3, <3>1 DEF GrownPlaces
  <2>. QED
    BY <1>1, <2>2, <2>3 DEF GrownPlaces
<1>8. StashFits'
  BY <1>1, <1>2, <1>5 DEF StashFits, GrownPlaces
<1>. QED
  BY <1>6, <1>7, <1>8

\* The top is taken off, and what is stashed keeps a frame to drain it.
LEMMA PromptFalls ==
  ASSUME stack \in Seq(Frames), stack' \in Seq(Frames), Shrinks,
         NothingStepsInHook, PromptInv, uses' = uses,
         \A c \in Conns : native'[c] \in {native[c], NoReg},
         Documented => \A r \in stashed' : torn'[r] \/ \E i \in DOMAIN stack :
            i # Len(stack) /\ stack[i].kind \in {"call", "close"} /\ stack[i].reg = r
  PROVE  NothingStepsInHook' /\ PromptInv'
<1>. DEFINE top == Len(stack)
<1>1. ShrunkPlaces(top)
  BY Shrinking
<1>2. \A i \in DOMAIN stack : stack[i].conn \in Conns
  BY Places
<1>3. Documented => \A r \in stashed' : torn'[r] \/ \E i \in DOMAIN stack :
            i # top /\ stack[i].kind \in {"call", "close"} /\ stack[i].reg = r
  OBVIOUS
<1>. HIDE DEF top
<1>4. \A i \in DOMAIN stack' : /\ i \in DOMAIN stack
                               /\ stack'[i].kind = stack[i].kind /\ stack'[i].reg = stack[i].reg
                               /\ stack'[i].conn = stack[i].conn
                               /\ stack[i].kind = "hook" => stack'[i].lands = stack[i].lands
  BY <1>1 DEF ShrunkPlaces, Alike
<1>5. NothingStepsInHook'
  BY <1>4 DEF NothingStepsInHook
<1>6. SUFFICES ASSUME Documented
               PROVE  CallsFit' /\ HooksFit' /\ StashFits'
  BY <1>5, PromptPartsNext DEF Documented
<1>7. CallsFit /\ HooksFit /\ StashFits
  BY <1>6, PromptParts
<1>8. CallsFit'
  BY <1>2, <1>4, <1>7 DEF CallsFit
<1>9. HooksFit'
  <2>1. SUFFICES ASSUME NEW i \in DOMAIN stack', stack'[i].kind = "hook" /\ stack'[i].lands
                 PROVE  \E j \in DOMAIN stack' : j < i /\ stack'[j].kind = "call" /\ stack'[j].reg = stack'[i].reg
    BY DEF HooksFit
  <2>2. PICK j \in DOMAIN stack : j < i /\ stack[j].kind = "call" /\ stack[j].reg = stack[i].reg
    BY <1>4, <1>7, <2>1 DEF HooksFit
  <2>3. j \in DOMAIN stack'
    BY <1>1, <2>2 DEF ShrunkPlaces
  <2>. QED
    BY <1>4, <2>2, <2>3
<1>10. StashFits'
  BY <1>1, <1>3, <1>4, <1>6 DEF StashFits, ShrunkPlaces
<1>. QED
  BY <1>8, <1>9, <1>10

\* The call on top begins to drain.
LEMMA PromptTurns ==
  ASSUME stack \in Seq(Frames), stack' \in Seq(Frames), Turns,
         NothingStepsInHook, PromptInv, UNCHANGED <<uses, native, torn, stashed>>
  PROVE  NothingStepsInHook' /\ PromptInv'
<1>1. DOMAIN stack = 1..Len(stack) /\ Len(stack) \in Nat /\ DOMAIN stack' = 1..Len(stack') /\ Len(stack') = Len(stack)
  BY Places DEF Turns
<1>2. DOMAIN stack' = DOMAIN stack
  BY <1>1
<1>3. \A i \in DOMAIN stack : /\ stack'[i].kind = stack[i].kind /\ stack'[i].reg = stack[i].reg
                              /\ stack'[i].conn = stack[i].conn
                              /\ stack[i].kind = "hook" => stack'[i].lands = stack[i].lands
  BY <1>1 DEF Turns, Alike, Top
<1>4. NothingStepsInHook'
  BY <1>2, <1>3 DEF NothingStepsInHook
<1>5. SUFFICES ASSUME Documented
               PROVE  CallsFit' /\ HooksFit' /\ StashFits'
  BY <1>4, PromptPartsNext DEF Documented
<1>6. CallsFit /\ HooksFit /\ StashFits
  BY <1>5, PromptParts
<1>7. CallsFit'
  BY <1>2, <1>3, <1>6 DEF CallsFit
<1>8. HooksFit'
  BY <1>2, <1>3, <1>6 DEF HooksFit
<1>9. StashFits'
  BY <1>2, <1>3, <1>6 DEF StashFits
<1>. QED
  BY <1>7, <1>8, <1>9

\* The stack is left alone, and no connection gets another registration under a call.
LEMMA PromptStays ==
  ASSUME stack \in Seq(Frames), stack' = stack, NothingStepsInHook, PromptInv,
         uses' = uses, stashed' = stashed, \A r \in Regs : torn[r] => torn'[r], stashed \subseteq Regs,
         Documented => stack = <<>> \/ \A c \in Conns : native'[c] \in {native[c], NoReg}
  PROVE  NothingStepsInHook' /\ PromptInv'
<1>1. NothingStepsInHook'
  BY DEF NothingStepsInHook
<1>2. SUFFICES ASSUME Documented
               PROVE  CallsFit' /\ HooksFit' /\ StashFits'
  BY <1>1, PromptPartsNext DEF Documented
<1>3. CallsFit /\ HooksFit /\ StashFits
  BY <1>2, PromptParts
<1>4. CallsFit'
  <2>1. CASE stack = <<>>
    <3>1. DOMAIN stack = {}
      BY <2>1
    <3>. QED
      BY <3>1 DEF CallsFit
  <2>2. CASE \A c \in Conns : native'[c] \in {native[c], NoReg}
    <3>1. \A i \in DOMAIN stack : stack[i].conn \in Conns
      BY Places
    <3>. QED
      BY <1>3, <2>2, <3>1 DEF CallsFit
  <2>. QED
    BY <1>2, <2>1, <2>2
<1>5. HooksFit'
  BY <1>3 DEF HooksFit
<1>6. StashFits'
  BY <1>3 DEF StashFits
<1>. QED
  BY <1>4, <1>5, <1>6

-----------------------------------------------------------------------------
(* The steps that make and end no registration.                                *)

\* What IInv says of a frame.
LEMMA FrameFacts ==
  ASSUME IInv
  PROVE  /\ AllFit /\ 1..made \subseteq Regs
         /\ \A i \in DOMAIN stack :
              /\ stack[i] \in Frames /\ FrameFits(stack[i], 1..made \union {NoReg}, LiveRegs, connOf)
              /\ Dispatches(stack[i]) => /\ stack[i].reg \in Regs /\ Live(stack[i].reg)
         /\ stack # <<>> => Len(stack) \in DOMAIN stack /\ Top = stack[Len(stack)] /\ Top \in Frames
<1>1. AllFit
  BY RegistrationParts DEF IInv
<1>2. 1..made \subseteq Regs
  BY RegAssumption DEF IInv, TypeOK, Regs
<1>3. \A i \in DOMAIN stack : FrameFits(stack[i], 1..made \union {NoReg}, LiveRegs, connOf)
  BY StackParts DEF IInv
<1>4. stack \in Seq(Frames)
  BY DEF IInv, TypeOK
<1>5. \A i \in DOMAIN stack : stack[i] \in Frames
  BY <1>4, Places
<1>6. \A i \in DOMAIN stack : Dispatches(stack[i]) => stack[i].reg \in Regs /\ Live(stack[i].reg)
  BY <1>3 DEF FrameFits, LiveRegs
<1>7. stack # <<>> => Len(stack) \in DOMAIN stack
  BY <1>4, Places
<1>. QED
  BY <1>1, <1>2, <1>3, <1>5, <1>6, <1>7 DEF Top

\* Types, registrations and iter() in such a step.
LEMMA QuietStep ==
  ASSUME IInv, UNCHANGED <<driver, patches, registrations, program>>, stack' \in Seq(Frames),
         inHook' \in [Regs -> BOOLEAN], inListener' \in [Regs -> BOOLEAN], stashed' \subseteq Regs
  PROVE  TypeOK' /\ RegistrationInv' /\ IterInv' /\ LiveRegs' = LiveRegs /\ made' = made /\ connOf' = connOf
<1>1. TypeOK'
  BY DEF IInv, TypeOK, driver, patches, registrations, program
<1>2. AllFit' /\ LiveRegs' = LiveRegs
  BY FrameFacts, RegistryStays DEF driver, patches, program
<1>3. RegistrationInv'
  BY <1>1, <1>2, RegistrationPartsNext
<1>4. IterInv'
  BY IterStays DEF IInv, registrations, patches
<1>. QED
  BY <1>1, <1>2, <1>3, <1>4 DEF registrations

\* The frame under the program's code drains nothing.
LEMMA ProgramOnTop ==
  ASSUME IInv, ProgramRuns, stack # <<>>
  PROVE  ~Serves(Top)
<1>1. FrameFits(Top, 1..made \union {NoReg}, LiveRegs, connOf)
  BY FrameFacts
<1>2. Top.draining => Top.kind = "call"
  BY <1>1 DEF FrameFits
<1>3. Top.kind \in {"hook", "event"} \/ (Top.kind = "call" /\ ~Top.draining)
  BY DEF ProgramRuns
<1>. QED
  BY <1>2, <1>3 DEF Serves

\* A call is put on top.
LEMMA CallStepInv ==
  ASSUME IInv, ProgramRuns, NEW c \in Conns, NEW r \in 1..made \union {NoReg}, Call(c, r),
         uses \intersect {"old", "before"} = {} =>
           \A i \in DOMAIN stack : stack[i].kind = "hook" => stack[i].conn # c,
         Documented /\ r # NoReg => native[c] \in {r, NoReg}
  PROVE  IInv'
<1>1. PICK f : f = Frame("call", c, r)
  OBVIOUS
<1>2. r \in Regs \union {NoReg}
  BY FrameFacts
<1>3. inListener \in [Regs -> BOOLEAN] /\ stack \in Seq(Frames)
  BY DEF IInv, TypeOK
<1>4. f \in Frames /\ f.kind = "call" /\ f.conn = c /\ f.reg = r /\ f.draining = FALSE
  <2>1. Begins(f, "call", c, r)
    BY <1>1, <1>2, <1>3, FrameType
  <2>. QED
    BY <2>1 DEF Begins
<1>5. stack' = Append(stack, f)
  BY <1>1 DEF Call
<1>6. UNCHANGED <<driver, patches, flags, registrations, program>>
  BY DEF Call
<1>7. Grows(f) /\ stack' \in Seq(Frames)
  BY <1>3, <1>4, <1>5, Push
<1>8. TypeOK' /\ RegistrationInv' /\ IterInv' /\ LiveRegs' = LiveRegs /\ made' = made /\ connOf' = connOf
  <2>1. inHook' \in [Regs -> BOOLEAN] /\ inListener' \in [Regs -> BOOLEAN] /\ stashed' \subseteq Regs
    BY <1>6 DEF IInv, TypeOK, flags
  <2>. QED
    BY <1>6, <1>7, <2>1, QuietStep
<1>9. StackInv'
  <2>1. FrameFits(f, 1..made \union {NoReg}, LiveRegs, connOf)
    BY <1>4 DEF FrameFits, Dispatches, Serves
  <2>2. stack # <<>> => NextFits(Top, f)
    BY ProgramOnTop DEF NextFits
  <2>3. StackInv
    BY DEF IInv
  <2>. QED
    BY <1>3, <1>4, <1>7, <1>8, <2>1, <2>2, <2>3, StackRises
<1>10. FlagInv'
  <2>1. SameDispatches
    BY <1>3, <1>4, <1>7, QuietGrowth
  <2>. QED
    BY <1>3, <1>6, <1>7, <2>1, FlagsStay DEF IInv, flags
<1>11. NothingStepsInHook' /\ PromptInv'
  <2>1. uses' = uses /\ native' = native /\ torn' = torn /\ stashed' \subseteq stashed
    BY <1>6 DEF flags, driver, registrations, program
  <2>2. NothingStepsInHook /\ PromptInv
    BY DEF IInv
  <2>. QED
    BY <1>3, <1>4, <1>7, <2>1, <2>2, PromptRises
<1>. QED
  BY <1>8, <1>9, <1>10, <1>11 DEF IInv

\* A hook running on a connection has it to itself.
LEMMA HookedConnection ==
  ASSUME IInv, NEW c \in Conns, NEW i \in DOMAIN stack, stack[i].kind = "hook", stack[i].conn = c
  PROVE  /\ wrappers[c] # NoReg /\ inHook[wrappers[c]] /\ regOf[c] = wrappers[c]
         /\ iterPatched /\ c \in open
<1>1. PICK r \in Regs : r = stack[i].reg /\ Live(r)
  BY FrameFacts DEF Dispatches
<1>2. connOf[r] = c
  BY <1>1, FrameFacts DEF FrameFits
<1>3. wrappers[c] = r /\ regOf[c] = r /\ c \in open /\ r \in 1..made /\ ~detached[r]
  BY <1>1, <1>2 DEF Live
<1>4. inHook[r]
  BY <1>1 DEF IInv, FlagInv
<1>5. iterPatched
  BY <1>3, IterThere DEF IInv
<1>6. r # NoReg
  BY RegAssumption
<1>. QED
  BY <1>3, <1>4, <1>5, <1>6

\* The calls there are.
LEMMA UseConnectionInv ==
  ASSUME IInv, NEW c \in Conns, UseConnection(c)
  PROVE  IInv'
<1>1. PICK r \in Regs \union {NoReg} : r = wrappers[c]
  BY DEF IInv, TypeOK
<1>2. r \in 1..made \union {NoReg} /\ native[c] = r
  BY <1>1, FrameFacts DEF AllFit, ConnFits, Live, UseConnection
<1>3. ProgramRuns /\ Call(c, r) /\ ~Refuses(r)
  BY <1>1 DEF UseConnection
<1>4. \A i \in DOMAIN stack : stack[i].kind = "hook" => stack[i].conn # c
  BY <1>1, <1>3, HookedConnection DEF Refuses
<1>. QED
  BY <1>2, <1>3, <1>4, CallStepInv

\* A use of a statement keeps the invariant.
LEMMA UseStatementInv ==
  ASSUME IInv, NEW c \in Conns, NEW r \in Regs \union {NoReg}, UseStatement(c, r)
  PROVE  IInv'
<1>1. r \in 1..made \union {NoReg}
  <2>1. <<c, r>> \in statements
    BY DEF UseStatement
  <2>. QED
    BY <2>1, FrameFacts DEF AllFit
<1>2. ProgramRuns /\ Call(c, r) /\ ~Refuses(r)
  BY DEF UseStatement
<1>3. uses \intersect {"old", "before"} = {} => r = wrappers[c]
  BY DEF UseStatement
<1>4. uses \intersect {"old", "before"} = {} =>
        \A i \in DOMAIN stack : stack[i].kind = "hook" => stack[i].conn # c
  BY <1>2, <1>3, HookedConnection DEF Refuses
<1>5. Documented /\ r # NoReg => native[c] \in {r, NoReg}
  BY <1>3, FrameFacts DEF Documented, AllFit, ConnFits
<1>. QED
  BY <1>1, <1>2, <1>4, <1>5, CallStepInv

\* So does iter().
LEMMA IterateInv ==
  ASSUME IInv, NEW c \in Conns, Iterate(c)
  PROVE  IInv'
<1>1. ProgramRuns /\ Call(c, NoReg) /\ ~IterRefuses(c)
  BY DEF Iterate
<1>2. \A i \in DOMAIN stack : stack[i].kind = "hook" => stack[i].conn # c
  BY <1>1, HookedConnection DEF IterRefuses, Refuses
<1>. QED
  BY <1>1, <1>2, CallStepInv

\* A dispatch for a live registration is put on top.
LEMMA DispatchInv ==
  ASSUME IInv, NEW f \in Frames, Grows(f), stack' \in Seq(Frames),
         f.kind \in {"hook", "event"}, f.draining = FALSE,
         NEW r \in Regs, f.reg = r, Live(r), f.outer <=> inListener[r],
         f.kind = "hook" => f.conn = connOf[r] /\ ~inHook[r] /\ inHook' = [inHook EXCEPT ![r] = TRUE],
         f.kind # "hook" => inHook' = inHook,
         inListener' = [inListener EXCEPT ![r] = TRUE], stashed' \subseteq stashed,
         UNCHANGED <<driver, patches, registrations, program>>,
         stack # <<>> => NextFits(Top, f),
         f.kind = "hook" /\ f.lands /\ Documented =>
           \E j \in DOMAIN stack : stack[j].kind = "call" /\ stack[j].reg = r
  PROVE  IInv'
<1>1. /\ inListener \in [Regs -> BOOLEAN] /\ inHook \in [Regs -> BOOLEAN] /\ stack \in Seq(Frames)
      /\ stashed \subseteq Regs
  BY DEF IInv, TypeOK
<1>2. TypeOK' /\ RegistrationInv' /\ IterInv' /\ LiveRegs' = LiveRegs /\ made' = made /\ connOf' = connOf
  <2>1. inHook' \in [Regs -> BOOLEAN] /\ inListener' \in [Regs -> BOOLEAN] /\ stashed' \subseteq Regs
    BY <1>1
  <2>. QED
    BY <2>1, QuietStep
<1>3. StackInv'
  <2>1. r \in LiveRegs /\ r \in 1..made
    BY DEF LiveRegs, Live
  <2>2. FrameFits(f, 1..made \union {NoReg}, LiveRegs, connOf)
    BY <2>1 DEF FrameFits
  <2>3. StackInv /\ f.kind # "close"
    BY DEF IInv
  <2>. QED
    BY <1>1, <1>2, <2>2, <2>3, StackRises
<1>4. FlagInv'
  <2>1. FlagInv
    BY DEF IInv
  <2>. QED
    BY <1>1, <2>1, FlagsRise
<1>5. NothingStepsInHook' /\ PromptInv'
  <2>1. uses' = uses /\ native' = native /\ torn' = torn
    BY DEF driver, registrations, program
  <2>2. NothingStepsInHook /\ PromptInv /\ f.kind # "call"
    BY DEF IInv
  <2>. QED
    BY <1>1, <2>1, <2>2, PromptRises
<1>. QED
  BY <1>2, <1>3, <1>4, <1>5 DEF IInv

\* SQLite calls back during a call.
LEMMA HookInv ==
  ASSUME IInv, NEW lands \in BOOLEAN, Hook(lands)
  PROVE  IInv'
<1>1. /\ stack \in Seq(Frames) /\ inListener \in [Regs -> BOOLEAN]
      /\ stack # <<>> /\ Len(stack) \in DOMAIN stack /\ Top = stack[Len(stack)]
      /\ Top.kind = "call" /\ ~Top.draining
  BY FrameFacts DEF IInv, TypeOK, Hook
<1>2. PICK c \in Conns : c = Top.conn /\ c \in open
  BY FrameFacts DEF Hook, Frames
<1>3. PICK r \in Regs : r = native[c]
  BY <1>2 DEF Hook, IInv, TypeOK
<1>4. Live(r) /\ connOf[r] = c
  BY <1>2, <1>3, FrameFacts, RegAssumption DEF AllFit, ConnFits
<1>5. /\ ~inHook[r] /\ inHook' = [inHook EXCEPT ![r] = TRUE]
      /\ inListener' = [inListener EXCEPT ![r] = TRUE]
      /\ stack' = Append(stack, [Frame("hook", c, r) EXCEPT !.lands = lands])
      /\ UNCHANGED <<driver, patches, registrations, program, stashed>>
  BY <1>2, <1>3 DEF Hook
<1>6. PICK g : g = Frame("hook", c, r)
  OBVIOUS
<1>7. Begins(g, "hook", c, r)
  BY <1>1, <1>6, FrameType
<1>8. PICK f : f = [g EXCEPT !.lands = lands]
  OBVIOUS
<1>9. f \in Frames /\ f.kind = "hook" /\ f.conn = c /\ f.reg = r /\ f.draining = FALSE
      /\ f.outer = g.outer /\ f.lands = lands
  BY <1>7, <1>8 DEF Begins, Frames
<1>10. f.outer <=> inListener[r]
  BY <1>7, <1>9, RegAssumption DEF Begins
<1>11. stack' = Append(stack, f)
  BY <1>5, <1>6, <1>8
<1>12. Grows(f) /\ stack' \in Seq(Frames)
  BY <1>1, <1>9, <1>11, Push
<1>13. NextFits(Top, f)
  BY <1>1 DEF NextFits, Serves
<1>14. lands /\ Documented => \E j \in DOMAIN stack : stack[j].kind = "call" /\ stack[j].reg = r
  <2>1. SUFFICES ASSUME lands, Documented
                 PROVE  Top.reg = r
    BY <1>1
  <2>2. Top.reg # NoReg
    BY <2>1 DEF Hook, Documented
  <2>3. CallsFit
    BY <2>1, PromptParts DEF IInv
  <2>. QED
    BY <1>1, <1>2, <1>3, <2>2, <2>3, RegAssumption DEF CallsFit
<1>15. stashed' \subseteq stashed /\ UNCHANGED <<driver, patches, registrations, program>>
  BY <1>5
<1>. QED
  BY <1>4, <1>5, <1>9, <1>10, <1>12, <1>13, <1>14, <1>15, DispatchInv

\* JavaScript dispatches what is stashed for the drain or the close() on top.
LEMMA DrainBatchInv ==
  ASSUME IInv, DrainBatch
  PROVE  IInv'
<1>1. /\ stack \in Seq(Frames) /\ inListener \in [Regs -> BOOLEAN] /\ inHook' = inHook
      /\ stack # <<>> /\ Serves(Top)
  BY DEF IInv, TypeOK, DrainBatch, Draining, Serves
<1>2. PICK r \in Regs : r = Top.reg /\ Live(r)
  BY <1>1, FrameFacts DEF FrameFits, LiveRegs
<1>3. PICK c \in Conns : c = connOf[r]
  BY <1>2 DEF Live, IInv, TypeOK
<1>4. PICK f : f = Frame("event", c, r)
  OBVIOUS
<1>5. /\ stack' = Append(stack, f) /\ inListener' = [inListener EXCEPT ![r] = TRUE]
      /\ stashed' = stashed \ {r} /\ UNCHANGED <<driver, patches, registrations, program>>
  BY <1>2, <1>3, <1>4 DEF DrainBatch, DispatchFor
<1>6. Begins(f, "event", c, r)
  BY <1>1, <1>4, FrameType
<1>7. /\ f \in Frames /\ f.kind = "event" /\ f.reg = r /\ f.draining = FALSE
      /\ f.outer <=> inListener[r]
  BY <1>6, RegAssumption DEF Begins
<1>8. Grows(f) /\ stack' \in Seq(Frames)
  BY <1>1, <1>5, <1>7, Push
<1>9. NextFits(Top, f)
  BY <1>2, <1>7 DEF NextFits, Dispatches
<1>10. stashed' \subseteq stashed
  BY <1>5
<1>. QED
  BY <1>1, <1>2, <1>5, <1>7, <1>8, <1>9, <1>10, DispatchInv

\* close() reports the open transaction as discarded.
LEMMA CloseDiscardsInv ==
  ASSUME IInv, CloseDiscards
  PROVE  IInv'
<1>1. /\ stack \in Seq(Frames) /\ inListener \in [Regs -> BOOLEAN] /\ inHook' = inHook
      /\ stack # <<>> /\ Top.kind = "close" /\ Top \in Frames /\ Top = stack[Len(stack)]
      /\ Len(stack) \in Nat /\ stashed' = stashed
      /\ UNCHANGED <<driver, patches, registrations, program>>
  BY FrameFacts, Places DEF IInv, TypeOK, CloseDiscards
<1>2. PICK r \in Regs : r = Top.reg /\ Live(r)
  BY <1>1, FrameFacts DEF FrameFits, LiveRegs, Serves
<1>3. PICK c \in Conns : c = Top.conn
  BY <1>1 DEF Frames
<1>4. PICK f : f = Frame("event", c, r)
  OBVIOUS
<1>5. PICK g : g = [Top EXCEPT !.lands = TRUE]
  OBVIOUS
<1>6. g \in Frames /\ Alike(g, Top)
  <2>1. g \in Frames
    BY <1>1, <1>5 DEF Frames
  <2>2. /\ g.kind = Top.kind /\ g.conn = Top.conn /\ g.reg = Top.reg
        /\ g.draining = Top.draining /\ g.outer = Top.outer
    BY <1>1, <1>5 DEF Frames
  <2>. QED
    BY <1>1, <2>1, <2>2 DEF Alike
<1>7. PICK t : t = Append(Rest, g)
  OBVIOUS
<1>8. /\ t \in Seq(Frames) /\ Len(t) = Len(stack) /\ t[Len(stack)] = g
      /\ \A i \in 1..(Len(stack) - 1) : t[i] = stack[i]
  BY <1>1, <1>6, <1>7, Replace
<1>9. stack' = Append(t, f) /\ inListener' = [inListener EXCEPT ![r] = TRUE]
  BY <1>2, <1>3, <1>4, <1>5, <1>7 DEF CloseDiscards
<1>10. Begins(f, "event", c, r)
  BY <1>1, <1>4, FrameType
<1>11. /\ f \in Frames /\ f.kind = "event" /\ f.reg = r /\ f.draining = FALSE
       /\ f.outer <=> inListener[r]
  BY <1>10, RegAssumption DEF Begins
<1>12. /\ stack' \in Seq(Frames) /\ Len(stack') = Len(stack) + 1
       /\ stack'[Len(stack) + 1] = f /\ \A i \in 1..Len(stack) : stack'[i] = t[i]
  BY <1>8, <1>9, <1>11, AppendProperties
<1>13. Grows(f)
  <2>1. \A i \in 1..Len(stack) : i = Len(stack) \/ i \in 1..(Len(stack) - 1)
    BY <1>1
  <2>. QED
    BY <1>1, <1>6, <1>8, <1>12, <2>1, AlikeItself DEF Grows
<1>14. NextFits(Top, f)
  BY <1>2, <1>11 DEF NextFits, Dispatches
<1>15. stashed' \subseteq stashed
  BY <1>1
<1>. QED
  BY <1>1, <1>2, <1>9, <1>11, <1>12, <1>13, <1>14, <1>15, DispatchInv

\* A dispatch ends.
LEMMA ReturnInv ==
  ASSUME IInv, HookReturns \/ EventReturns
  PROVE  IInv'
<1>1. /\ stack \in Seq(Frames) /\ inListener \in [Regs -> BOOLEAN] /\ inHook \in [Regs -> BOOLEAN]
      /\ stashed \subseteq Regs /\ stack # <<>> /\ stack' = Rest
      /\ Top.kind \in {"hook", "event"} /\ Top \in Frames /\ Top = stack[Len(stack)]
      /\ Len(stack) \in DOMAIN stack /\ UNCHANGED <<driver, patches, registrations, program>>
  BY FrameFacts DEF IInv, TypeOK, HookReturns, EventReturns
<1>2. PICK r \in Regs : r = Top.reg /\ Live(r)
  BY <1>1, FrameFacts DEF Dispatches
<1>3. /\ inListener' = [inListener EXCEPT ![r] = Top.outer]
      /\ Top.kind = "hook" => inHook' = [inHook EXCEPT ![r] = FALSE]
      /\ Top.kind # "hook" => inHook' = inHook
  BY <1>1, <1>2 DEF HookReturns, EventReturns, RestoreListener
<1>4. stashed' \subseteq stashed \union {r} /\ (r \in stashed' /\ r \notin stashed => Top.kind = "hook" /\ Top.lands)
  BY <1>1, <1>2 DEF HookReturns, EventReturns
<1>5. Shrinks /\ stack' \in Seq(Frames)
  BY <1>1, Pop
<1>6. TypeOK' /\ RegistrationInv' /\ IterInv' /\ LiveRegs' = LiveRegs /\ made' = made /\ connOf' = connOf
  <2>1. Top.outer \in BOOLEAN
    BY <1>1 DEF Frames
  <2>2. inListener' \in [Regs -> BOOLEAN]
    BY <1>1, <1>3, <2>1
  <2>3. inHook' \in [Regs -> BOOLEAN]
    BY <1>1, <1>3
  <2>4. stashed' \subseteq Regs
    BY <1>1, <1>4
  <2>. QED
    BY <1>1, <1>5, <2>2, <2>3, <2>4, QuietStep
<1>7. StackInv'
  <2>1. \A i \in DOMAIN stack' : i \in DOMAIN stack
    BY <1>1, <1>5, Shrinking DEF ShrunkPlaces
  <2>2. \A i \in DOMAIN stack' : Dispatches(stack[i]) \/ Serves(stack[i]) => stack[i].reg \in LiveRegs'
    BY <1>6, <2>1, FrameFacts DEF FrameFits
  <2>3. StackInv
    BY DEF IInv
  <2>. QED
    BY <1>1, <1>5, <1>6, <2>2, <2>3, StackFalls
<1>8. FlagInv'
  <2>1. FlagInv
    BY DEF IInv
  <2>. QED
    BY <1>1, <1>2, <1>3, <1>5, <2>1, FlagsFall
<1>9. NothingStepsInHook' /\ PromptInv'
  <2>1. ASSUME Documented, NEW q \in stashed'
        PROVE  torn'[q] \/ \E i \in DOMAIN stack :
                 i # Len(stack) /\ stack[i].kind \in {"call", "close"} /\ stack[i].reg = q
    <3>1. HooksFit /\ StashFits
      BY <2>1, PromptParts DEF IInv
    <3>2. CASE q \in stashed
      BY <1>1, <3>1, <3>2 DEF StashFits, registrations
    <3>3. CASE q \notin stashed
      <4>1. q = r /\ Top.kind = "hook" /\ Top.lands
        BY <1>4, <2>1, <3>3
      <4>2. PICK j \in DOMAIN stack : j < Len(stack) /\ stack[j].kind = "call" /\ stack[j].reg = r
        BY <1>1, <1>2, <3>1, <4>1 DEF HooksFit
      <4>3. j # Len(stack)
        BY <1>1, <1>5, <4>2, Shrinking DEF ShrunkPlaces
      <4>. QED
        BY <4>1, <4>2, <4>3
    <3>. QED
      BY <3>2, <3>3
  <2>2. uses' = uses /\ native' = native
    BY <1>1 DEF driver, program
  <2>3. NothingStepsInHook /\ PromptInv
    BY DEF IInv
  <2>4. \A c \in Conns : native'[c] \in {native[c], NoReg}
    BY <2>2
  <2>5. Documented => \A q \in stashed' : torn'[q] \/ \E i \in DOMAIN stack :
           i # Len(stack) /\ stack[i].kind \in {"call", "close"} /\ stack[i].reg = q
    BY <2>1
  <2>. QED
    BY <1>1, <1>5, <2>2, <2>3, <2>4, <2>5, PromptFalls
<1>. QED
  BY <1>6, <1>7, <1>8, <1>9 DEF IInv

\* A call comes off the stack, and what is stashed keeps a frame to drain it.
LEMMA CallEndsInv ==
  ASSUME IInv, stack # <<>>, Top.kind = "call", stack' = Rest,
         UNCHANGED <<driver, patches, flags, registrations, program>>,
         Documented => \A r \in stashed : torn[r] \/ \E i \in DOMAIN stack :
            i # Len(stack) /\ stack[i].kind \in {"call", "close"} /\ stack[i].reg = r
  PROVE  IInv'
<1>1. stack \in Seq(Frames)
  BY DEF IInv, TypeOK
<1>2. Shrinks /\ stack' \in Seq(Frames)
  BY <1>1, Pop
<1>3. TypeOK' /\ RegistrationInv' /\ IterInv' /\ LiveRegs' = LiveRegs /\ made' = made /\ connOf' = connOf
  <2>1. inHook' \in [Regs -> BOOLEAN] /\ inListener' \in [Regs -> BOOLEAN] /\ stashed' \subseteq Regs
    BY DEF IInv, TypeOK, flags
  <2>. QED
    BY <1>2, <2>1, QuietStep
<1>4. StackInv'
  <2>1. \A i \in DOMAIN stack' : i \in DOMAIN stack
    BY <1>1, <1>2, Shrinking DEF ShrunkPlaces
  <2>2. \A i \in DOMAIN stack' : Dispatches(stack[i]) \/ Serves(stack[i]) => stack[i].reg \in LiveRegs'
    BY <1>3, <2>1, FrameFacts DEF FrameFits
  <2>3. StackInv
    BY DEF IInv
  <2>. QED
    BY <1>1, <1>2, <1>3, <2>2, <2>3, StackFalls
<1>5. FlagInv'
  <2>1. SameDispatches
    BY <1>1, <1>2, QuietShrinking
  <2>. QED
    BY <1>1, <1>2, <2>1, FlagsStay DEF IInv, flags
<1>6. NothingStepsInHook' /\ PromptInv'
  <2>1. uses' = uses /\ native' = native /\ torn' = torn /\ stashed' = stashed
    BY DEF driver, program, registrations, flags
  <2>2. NothingStepsInHook /\ PromptInv
    BY DEF IInv
  <2>3. \A c \in Conns : native'[c] \in {native[c], NoReg}
    BY <2>1
  <2>4. Documented => \A r \in stashed' : torn'[r] \/ \E i \in DOMAIN stack :
           i # Len(stack) /\ stack[i].kind \in {"call", "close"} /\ stack[i].reg = r
    BY <2>1
  <2>. QED
    BY <1>1, <1>2, <2>1, <2>2, <2>3, <2>4, PromptFalls
<1>. QED
  BY <1>3, <1>4, <1>5, <1>6 DEF IInv

\* One of several calls of a registration is not its only one.
LEMMA AnotherCall ==
  ASSUME stack \in Seq(Frames), stack # <<>>, Top.kind = "call", ~Top.draining, Running(Top.reg) # 1
  PROVE  \E i \in DOMAIN stack : i # Len(stack) /\ stack[i].kind = "call" /\ stack[i].reg = Top.reg
<1>. DEFINE calls == {i \in DOMAIN stack : /\ stack[i].kind = "call" /\ stack[i].reg = Top.reg
                                           /\ ~stack[i].draining}
<1>1. DOMAIN stack = 1..Len(stack) /\ Len(stack) \in Nat /\ Len(stack) # 0
  BY Places
<1>2. Len(stack) \in calls
  BY <1>1 DEF Top
<1>3. Cardinality(calls) # 1
  BY DEF Running
<1>4. calls # {Len(stack)}
  BY <1>3, FS_Singleton
<1>. QED
  BY <1>2, <1>4

\* The end of a call, of its drain, and what begins to drain.
LEMMA EndCallInv ==
  ASSUME IInv, EndCall
  PROVE  IInv'
<1>1. /\ stack \in Seq(Frames) /\ stack # <<>> /\ Top.kind = "call" /\ ~Top.draining
      /\ Top \in Frames /\ Top = stack[Len(stack)] /\ Len(stack) \in DOMAIN stack
      /\ Len(stack) \in Nat
      /\ UNCHANGED <<driver, patches, flags, registrations, program>>
  BY FrameFacts, Places DEF IInv, TypeOK, EndCall
<1>2. PICK r \in 1..made \union {NoReg} : r = Top.reg
  BY <1>1, FrameFacts DEF FrameFits
<1>3. CASE Drains(r)
  <2>1. r \in Regs /\ r \in LiveRegs
    <3>1. r \in 1..made /\ ~detached[r] /\ ~closed[r]
      BY <1>2, <1>3 DEF Drains
    <3>. QED
      BY <3>1, FrameFacts DEF AllFit, RegFits, Closed, Disposed, LiveRegs
  <2>2. PICK g : g = [Top EXCEPT !.draining = TRUE]
    OBVIOUS
  <2>3. /\ g \in Frames /\ g.kind = Top.kind /\ g.conn = Top.conn /\ g.reg = Top.reg
        /\ g.outer = Top.outer /\ g.lands = Top.lands /\ g.draining = TRUE
    BY <1>1, <2>2 DEF Frames
  <2>4. stack' = Append(Rest, g)
    BY <1>2, <1>3, <2>2 DEF EndCall
  <2>5. /\ stack' \in Seq(Frames) /\ Len(stack') = Len(stack) /\ stack'[Len(stack)] = g
        /\ \A i \in 1..(Len(stack) - 1) : stack'[i] = stack[i]
    BY <1>1, <2>3, <2>4, Replace
  <2>6. Turns
    BY <1>1, <2>3, <2>5, Places, AlikeItself DEF Turns
  <2>7. TypeOK' /\ RegistrationInv' /\ IterInv' /\ LiveRegs' = LiveRegs /\ made' = made /\ connOf' = connOf
    <3>1. inHook' \in [Regs -> BOOLEAN] /\ inListener' \in [Regs -> BOOLEAN] /\ stashed' \subseteq Regs
      BY <1>1 DEF IInv, TypeOK, flags
    <3>. QED
      BY <1>1, <2>5, <3>1, QuietStep
  <2>8. StackInv'
    <3>1. StackInv
      BY DEF IInv
    <3>. QED
      BY <1>1, <1>2, <2>1, <2>5, <2>6, <2>7, <3>1, StackTurns
  <2>9. FlagInv'
    <3>1. SameDispatches
      BY <1>1, <2>5, <2>6, QuietTurn
    <3>. QED
      BY <1>1, <2>5, <3>1, FlagsStay DEF IInv, flags
  <2>10. NothingStepsInHook' /\ PromptInv'
    BY <1>1, <2>5, <2>6, PromptTurns DEF IInv, flags, driver, program, registrations
  <2>. QED
    BY <2>7, <2>8, <2>9, <2>10 DEF IInv
<1>4. CASE ~Drains(r)
  <2>1. stack' = Rest
    BY <1>2, <1>4 DEF EndCall
  <2>2. ASSUME Documented, NEW q \in stashed
        PROVE  torn[q] \/ \E i \in DOMAIN stack :
                 i # Len(stack) /\ stack[i].kind \in {"call", "close"} /\ stack[i].reg = q
    <3>1. torn[q] \/ \E i \in DOMAIN stack : stack[i].kind \in {"call", "close"} /\ stack[i].reg = q
      BY <2>2, PromptParts DEF IInv, StashFits
    <3>2. CASE q # r
      BY <1>1, <1>2, <3>1, <3>2
    <3>3. CASE q = r
      <4>1. r # NoReg
        BY <2>2, <3>3, RegAssumption DEF IInv, TypeOK
      <4>2. Running(r) # 1 \/ detached[r] \/ closed[r]
        BY <1>4, <4>1 DEF Drains
      <4>3. CASE Running(r) # 1
        <5>1. PICK i \in DOMAIN stack : i # Len(stack) /\ stack[i].kind = "call" /\ stack[i].reg = r
          BY <1>1, <1>2, <4>3, AnotherCall
        <5>. QED
          BY <3>3, <5>1
      <4>4. CASE detached[r] \/ closed[r]
        BY <1>2, <3>3, <4>1, <4>4, FrameFacts DEF AllFit, RegFits, Live, Closed, Disposed
      <4>. QED
        BY <4>2, <4>3, <4>4
    <3>. QED
      BY <3>2, <3>3
  <2>. QED
    BY <1>1, <2>1, <2>2, CallEndsInv
<1>. QED
  BY <1>3, <1>4

\* The end of a drain keeps the invariant.
LEMMA FinishDrainInv ==
  ASSUME IInv, FinishDrain
  PROVE  IInv'
<1>1. /\ stack # <<>> /\ Top.draining /\ Top.reg \notin stashed /\ stack' = Rest
      /\ UNCHANGED <<driver, patches, flags, registrations, program>>
  BY DEF FinishDrain
<1>2. Top.kind = "call"
  BY <1>1, FrameFacts DEF FrameFits
<1>3. Documented => \A r \in stashed : torn[r] \/ \E i \in DOMAIN stack :
            i # Len(stack) /\ stack[i].kind \in {"call", "close"} /\ stack[i].reg = r
  BY <1>1, PromptParts DEF IInv, StashFits, Top
<1>. QED
  BY <1>1, <1>2, <1>3, CallEndsInv

\* A close() begins where no listener of the registration runs.
LEMMA BeginCloseInv ==
  ASSUME IInv, NEW c \in Conns, BeginClose(c)
  PROVE  IInv'
<1>1. /\ stack \in Seq(Frames) /\ inListener \in [Regs -> BOOLEAN]
      /\ UNCHANGED <<driver, patches, flags, registrations, program>>
  BY DEF IInv, TypeOK, BeginClose
<1>2. PICK r \in Regs : r = wrappers[c] /\ ~closed[r] /\ ~inListener[r]
  BY DEF IInv, TypeOK, BeginClose
<1>3. Live(r) /\ connOf[r] = c
  BY <1>2, FrameFacts, RegAssumption DEF AllFit, ConnFits
<1>4. PICK f : f = Frame("close", c, r)
  OBVIOUS
<1>5. Begins(f, "close", c, r)
  BY <1>1, <1>4, FrameType
<1>6. f \in Frames /\ f.kind = "close" /\ f.conn = c /\ f.reg = r /\ f.draining = FALSE
  BY <1>5 DEF Begins
<1>7. stack' = Append(stack, f)
  BY <1>2, <1>4 DEF BeginClose
<1>8. Grows(f) /\ stack' \in Seq(Frames)
  BY <1>1, <1>6, <1>7, Push
<1>9. TypeOK' /\ RegistrationInv' /\ IterInv' /\ LiveRegs' = LiveRegs /\ made' = made /\ connOf' = connOf
  <2>1. inHook' \in [Regs -> BOOLEAN] /\ inListener' \in [Regs -> BOOLEAN] /\ stashed' \subseteq Regs
    BY <1>1 DEF IInv, TypeOK, flags
  <2>. QED
    BY <1>1, <1>8, <2>1, QuietStep
<1>10. StackInv'
  <2>1. r \in LiveRegs /\ r \in 1..made
    BY <1>3 DEF LiveRegs, Live
  <2>2. FrameFits(f, 1..made \union {NoReg}, LiveRegs, connOf)
    BY <1>3, <1>6, <2>1 DEF FrameFits
  <2>3. stack # <<>> => NextFits(Top, f)
    BY ProgramOnTop DEF NextFits, BeginClose
  <2>4. \A i \in DOMAIN stack : Dispatches(stack[i]) => stack[i].reg # f.reg
    BY <1>2, <1>6 DEF IInv, FlagInv, Dispatching, Dispatches
  <2>5. StackInv
    BY DEF IInv
  <2>. QED
    BY <1>1, <1>6, <1>8, <1>9, <2>2, <2>3, <2>4, <2>5, StackRises
<1>11. FlagInv'
  <2>1. SameDispatches
    BY <1>1, <1>6, <1>8, QuietGrowth
  <2>. QED
    BY <1>1, <1>8, <2>1, FlagsStay DEF IInv, flags
<1>12. NothingStepsInHook' /\ PromptInv'
  <2>1. uses' = uses /\ native' = native /\ torn' = torn /\ stashed' \subseteq stashed
    BY <1>1 DEF flags, driver, registrations, program
  <2>2. NothingStepsInHook /\ PromptInv
    BY DEF IInv
  <2>. QED
    BY <1>1, <1>6, <1>8, <2>1, <2>2, PromptRises
<1>. QED
  BY <1>9, <1>10, <1>11, <1>12 DEF IInv

-----------------------------------------------------------------------------
(* The steps that make and end registrations.                                  *)

\* The end of a close(): only what is closed itself loses its registration.
LEMMA FinishCloseInv ==
  ASSUME IInv, FinishClose
  PROVE  IInv'
<1>1. /\ TypeOK /\ stack \in Seq(Frames) /\ stack # <<>> /\ Top.kind = "close" /\ Top = stack[Len(stack)]
      /\ Len(stack) \in DOMAIN stack /\ stack' = Rest
      /\ UNCHANGED <<wrappers, statements, iterDepth, iterPatched, flags, made,
                     connOf, listeners, detached, program>>
  BY FrameFacts DEF IInv, TypeOK, FinishClose
<1>2. PICK r \in Regs : r = Top.reg /\ Live(r) /\ Top.conn = connOf[r]
  <2>1. FrameFits(Top, 1..made \union {NoReg}, LiveRegs, connOf)
    BY <1>1, FrameFacts
  <2>2. Top.reg \in Regs /\ Live(Top.reg) /\ Top.conn = connOf[Top.reg]
    BY <1>1, <2>1 DEF FrameFits, Serves, LiveRegs
  <2>. QED
    BY <2>2
<1>3. AllFit' /\ torn'[r] /\ \A q \in Regs : q # r /\ Live(q) => Live(q)'
  BY <1>1, <1>2, FrameFacts, FinishCloseRegistry
<1>4. Shrinks /\ stack' \in Seq(Frames)
  BY <1>1, Pop
<1>5. ShrunkPlaces(Len(stack))
  BY <1>1, <1>4, Shrinking
<1>6. TypeOK'
  BY <1>1, <1>4 DEF TypeOK, FinishClose, CloseTeardown, Teardown, flags, program
<1>7. RegistrationInv'
  BY <1>3, <1>6, RegistrationPartsNext
<1>8. IterInv'
  BY <1>1, IterStays DEF IInv
<1>9. \A i \in DOMAIN stack' : Dispatches(stack[i]) \/ Serves(stack[i]) => stack[i].reg # r
  <2>1. TAKE i \in DOMAIN stack'
  <2>2. i \in DOMAIN stack /\ i < Len(stack)
    BY <1>5 DEF ShrunkPlaces
  <2>3. \A j \in DOMAIN stack : j < Len(stack) /\ Dispatches(stack[j]) => stack[j].reg # r
    BY <1>1, <1>2, StackParts DEF IInv, AboveFits
  <2>4. CASE Dispatches(stack[i])
    BY <2>2, <2>3, <2>4
  <2>5. CASE Serves(stack[i])
    <3>1. Dispatches(stack[i + 1]) /\ stack[i + 1].reg = stack[i].reg
      BY <2>2, <2>5, StackParts DEF IInv, NextFits
    <3>2. i + 1 \in DOMAIN stack /\ (i + 1 = Len(stack) \/ i + 1 < Len(stack))
      BY <1>1, <2>2, Places
    <3>3. CASE i + 1 = Len(stack)
      BY <1>1, <3>1, <3>3 DEF Dispatches
    <3>4. CASE i + 1 < Len(stack)
      BY <2>3, <3>1, <3>2, <3>4
    <3>. QED
      BY <3>2, <3>3, <3>4
  <2>. QED
    BY <2>4, <2>5
<1>10. StackInv'
  <2>1. \A i \in DOMAIN stack' : Dispatches(stack[i]) \/ Serves(stack[i]) => stack[i].reg \in LiveRegs'
    <3>1. \A i \in DOMAIN stack' : Dispatches(stack[i]) \/ Serves(stack[i]) => stack[i].reg \in LiveRegs
      BY <1>5, FrameFacts DEF FrameFits, ShrunkPlaces
    <3>2. \A q \in LiveRegs : q # r => q \in LiveRegs'
      BY <1>3 DEF LiveRegs
    <3>. QED
      BY <1>9, <3>1, <3>2
  <2>2. StackInv
    BY DEF IInv
  <2>. QED
    BY <1>1, <1>4, <2>1, <2>2, StackFalls
<1>11. FlagInv'
  <2>1. SameDispatches
    BY <1>1, <1>4, QuietShrinking
  <2>. QED
    BY <1>1, <1>4, <2>1, FlagsStay DEF IInv, flags
<1>12. NothingStepsInHook' /\ PromptInv'
  <2>1. uses' = uses /\ stashed' = stashed
    BY <1>1 DEF flags, program
  <2>2. \A c \in Conns : native'[c] \in {native[c], NoReg}
    BY <1>1 DEF FinishClose, CloseTeardown, Teardown, TypeOK
  <2>3. torn' = [torn EXCEPT ![r] = TRUE]
    BY <1>2 DEF FinishClose, CloseTeardown, Teardown
  <2>4. Documented => \A q \in stashed' : torn'[q] \/ \E i \in DOMAIN stack :
            i # Len(stack) /\ stack[i].kind \in {"call", "close"} /\ stack[i].reg = q
    <3>1. SUFFICES ASSUME Documented, NEW q \in stashed, q # r
                   PROVE  torn'[q] \/ \E i \in DOMAIN stack :
                            i # Len(stack) /\ stack[i].kind \in {"call", "close"} /\ stack[i].reg = q
      BY <1>3, <2>1
    <3>2. torn[q] \/ \E i \in DOMAIN stack : stack[i].kind \in {"call", "close"} /\ stack[i].reg = q
      BY <3>1, PromptParts DEF IInv, StashFits
    <3>3. torn[q] => torn'[q]
      BY <1>1, <2>3, <3>1 DEF TypeOK
    <3>. QED
      BY <1>1, <1>2, <3>1, <3>2, <3>3
  <2>5. NothingStepsInHook /\ PromptInv
    BY DEF IInv
  <2>. QED
    BY <1>1, <1>4, <2>1, <2>2, <2>4, <2>5, PromptFalls
<1>. QED
  BY <1>6, <1>7, <1>8, <1>10, <1>11, <1>12 DEF IInv

\* The stack in a step that leaves it and the flags alone.
LEMMA StillStep ==
  ASSUME IInv, stack' = stack, UNCHANGED <<flags, uses>>, 1..made \subseteq 1..made',
         \A i \in DOMAIN stack : Dispatches(stack[i]) \/ Serves(stack[i])
                                   => stack[i].reg \in LiveRegs' /\ connOf'[stack[i].reg] = connOf[stack[i].reg],
         \A r \in Regs : torn[r] => torn'[r],
         Documented => stack = <<>> \/ \A c \in Conns : native'[c] \in {native[c], NoReg}
  PROVE  StackInv' /\ FlagInv' /\ NothingStepsInHook' /\ PromptInv'
<1>1. stack \in Seq(Frames) /\ StackInv /\ FlagInv /\ NothingStepsInHook /\ PromptInv /\ stashed \subseteq Regs
  BY DEF IInv, TypeOK
<1>2. StackInv'
  BY <1>1, StackStays
<1>3. FlagInv'
  BY <1>1 DEF FlagInv, Dispatching, flags
<1>4. NothingStepsInHook' /\ PromptInv'
  BY <1>1, PromptStays DEF flags
<1>. QED
  BY <1>2, <1>3, <1>4

\* A live registration stays so: then do the frames have what they need.
LEMMA FramesStayLive ==
  ASSUME IInv, \A q \in Regs : Live(q) => Live(q)' /\ connOf'[q] = connOf[q]
  PROVE  \A i \in DOMAIN stack : Dispatches(stack[i]) \/ Serves(stack[i])
           => stack[i].reg \in LiveRegs' /\ connOf'[stack[i].reg] = connOf[stack[i].reg]
<1>1. \A i \in DOMAIN stack : Dispatches(stack[i]) \/ Serves(stack[i]) => stack[i].reg \in LiveRegs
  BY FrameFacts DEF FrameFits
<1>2. \A q \in LiveRegs : q \in LiveRegs' /\ connOf'[q] = connOf[q]
  BY DEF LiveRegs
<1>. QED
  BY <1>1, <1>2

\* Preparing a statement keeps the invariant.
LEMMA PrepareInv ==
  ASSUME IInv, NEW c \in Conns, Prepare(c)
  PROVE  IInv'
<1>1. AllFit' /\ LiveRegs' = LiveRegs
  BY FrameFacts, PrepareRegistry DEF IInv
<1>2. /\ stack' = stack /\ UNCHANGED <<flags, uses, made, connOf, torn, detached, native, iterDepth, iterPatched>>
  BY DEF Prepare, driver, registrations, program
<1>3. TypeOK'
  BY DEF IInv, TypeOK, Prepare, driver, flags, registrations, program
<1>4. RegistrationInv' /\ IterInv'
  BY <1>1, <1>2, <1>3, RegistrationPartsNext, IterStays DEF IInv
<1>5. \A q \in Regs : Live(q) => Live(q)' /\ connOf'[q] = connOf[q]
  BY <1>2 DEF Prepare, Live, driver, registrations
<1>6. StackInv' /\ FlagInv' /\ NothingStepsInHook' /\ PromptInv'
  BY <1>2, <1>5, FramesStayLive, StillStep
<1>. QED
  BY <1>3, <1>4, <1>6 DEF IInv

\* A listener that joins a registration keeps the invariant.
LEMMA JoinInv ==
  ASSUME IInv, NEW c \in Conns, NEW listener \in Listeners, Join(c, listener)
  PROVE  IInv'
<1>1. AllFit' /\ \A q \in Regs : Live(q) => Live(q)'
  BY FrameFacts, JoinRegistry DEF IInv
<1>2. /\ stack' = stack /\ UNCHANGED <<flags, uses, made, connOf, torn, detached, native, iterDepth, iterPatched>>
  BY DEF Join, driver, patches
<1>3. TypeOK'
  <2>1. regOf[c] \in Regs
    BY DEF IInv, TypeOK, Join
  <2>. QED
    BY <2>1 DEF IInv, TypeOK, Join, driver, flags, patches
<1>4. RegistrationInv' /\ IterInv'
  BY <1>1, <1>2, <1>3, RegistrationPartsNext, IterStays DEF IInv
<1>5. \A q \in Regs : Live(q) => Live(q)' /\ connOf'[q] = connOf[q]
  BY <1>1, <1>2
<1>6. StackInv' /\ FlagInv' /\ NothingStepsInHook' /\ PromptInv'
  BY <1>2, <1>5, FramesStayLive, StillStep
<1>. QED
  BY <1>3, <1>4, <1>6 DEF IInv

\* Closing a connection without the wrapper keeps the invariant.
LEMMA DriverCloseInv ==
  ASSUME IInv, NEW c \in Conns, DriverClose(c)
  PROVE  IInv'
<1>1. AllFit' /\ \A q \in Regs : Live(q) => Live(q)'
  BY FrameFacts, DriverCloseRegistry DEF IInv
<1>2. /\ stack' = stack /\ UNCHANGED <<flags, uses, made, connOf, torn, detached, native, iterDepth, iterPatched>>
  BY DEF DriverClose, patches, registrations, program
<1>3. TypeOK'
  BY DEF IInv, TypeOK, DriverClose, flags, patches, registrations, program
<1>4. RegistrationInv' /\ IterInv'
  BY <1>1, <1>2, <1>3, RegistrationPartsNext, IterStays DEF IInv
<1>5. \A q \in Regs : Live(q) => Live(q)' /\ connOf'[q] = connOf[q]
  BY <1>1, <1>2
<1>6. StackInv' /\ FlagInv' /\ NothingStepsInHook' /\ PromptInv'
  BY <1>2, <1>5, FramesStayLive, StillStep
<1>. QED
  BY <1>3, <1>4, <1>6 DEF IInv

\* A new registration keeps the invariant.
LEMMA AttachInv ==
  ASSUME IInv, NEW c \in Conns, NEW listener \in Listeners, Attach(c, listener)
  PROVE  IInv'
<1>1. /\ AllFit' /\ made' = made + 1 /\ made' \in Regs /\ ~detached'[made']
      /\ \A q \in Regs : Live(q) => Live(q)' /\ connOf'[q] = connOf[q]
  BY FrameFacts, AttachRegistry DEF IInv
<1>2. /\ stack' = stack /\ UNCHANGED <<flags, uses, torn, detached>>
      /\ PatchIter
  BY DEF Attach, Wrap
<1>3. TypeOK'
  <2>1. PICK r \in Regs : r = made + 1 /\ r = made'
    BY <1>1
  <2>2. made' \in 0..MaxRegs
    BY <2>1, RegAssumption DEF Regs
  <2>3. iterDepth' \in Nat /\ iterPatched' \in BOOLEAN
    BY <1>2 DEF IInv, TypeOK, PatchIter
  <2>4. /\ connOf' = [connOf EXCEPT ![r] = c] /\ listeners' = [listeners EXCEPT ![r] = {listener}]
        /\ native' = [native EXCEPT ![c] = r] /\ regOf' = [regOf EXCEPT ![c] = r]
        /\ wrappers' = [wrappers EXCEPT ![c] = r] /\ subs' = subs \union {<<r, listener>>}
        /\ UNCHANGED <<open, statements, torn, closed, detached, inHook, inListener, stashed, uses, stack>>
    BY <2>1 DEF Attach, Wrap, flags
  <2>. QED
    BY <2>2, <2>3, <2>4 DEF IInv, TypeOK
<1>4. RegistrationInv'
  BY <1>1, <1>3, RegistrationPartsNext
<1>5. IterInv'
  BY <1>1, <1>2, IterGrows DEF IInv
<1>6. 1..made \subseteq 1..made'
  BY <1>1 DEF IInv, TypeOK
<1>7. Documented => stack = <<>>
  BY DEF Documented, Attach
<1>8. StackInv' /\ FlagInv' /\ NothingStepsInHook' /\ PromptInv'
  BY <1>1, <1>2, <1>6, <1>7, FramesStayLive, StillStep
<1>. QED
  BY <1>3, <1>4, <1>5, <1>8 DEF IInv

\* The last dispose() ends a registration that dispatches nothing and drains nothing.
LEMMA DisposeInv ==
  ASSUME IInv, NEW r \in Regs, NEW listener \in Listeners, Dispose(r, listener)
  PROVE  IInv'
<1>1. /\ AllFit'
      /\ \A q \in Regs : q # r /\ Live(q) => Live(q)'
      /\ r \in 1..made
      /\ \/ UNCHANGED <<detached, iterDepth, iterPatched>>
         \/ /\ ~detached[r] /\ detached' = [detached EXCEPT ![r] = TRUE]
            /\ UnpatchIter
  BY FrameFacts, DisposeRegistry DEF IInv
<1>2. stack' = stack /\ UNCHANGED <<flags, uses, made, connOf>> /\ ~inListener[r] /\ ProgramRuns
  BY DEF Dispose
<1>3. IterInv' /\ iterDepth' \in Nat /\ iterPatched' \in BOOLEAN
  <2>1. CASE UNCHANGED <<detached, iterDepth, iterPatched>>
    BY <1>2, <2>1, IterStays DEF IInv, TypeOK
  <2>2. CASE ~detached[r] /\ detached' = [detached EXCEPT ![r] = TRUE] /\ UnpatchIter
    <3>1. iterPatched' \in BOOLEAN
      BY <2>2 DEF UnpatchIter
    <3>. QED
      BY <1>1, <1>2, <2>2, <3>1, IterFalls DEF IInv
  <2>. QED
    BY <1>1, <2>1, <2>2
<1>4. TypeOK'
  <2>1. native' \in [Conns -> Regs \union {NoReg}] /\ torn' \in [Regs -> BOOLEAN]
    BY DEF IInv, TypeOK, Dispose, Teardown
  <2>2. regOf' \in [Conns -> Regs \union {NoReg}]
    BY DEF IInv, TypeOK, Dispose
  <2>3. wrappers' \in [Conns -> Regs \union {NoReg}]
    BY DEF IInv, TypeOK, Dispose, Detach
  <2>4. detached' \in [Regs -> BOOLEAN]
    BY <1>1 DEF IInv, TypeOK
  <2>5. listeners' \in [Regs -> SUBSET Listeners]
    BY DEF IInv, TypeOK, Dispose
  <2>6. UNCHANGED <<open, statements, flags, made, connOf, closed, uses, stack>> /\ subs' \subseteq subs
    BY DEF Dispose
  <2>. QED
    BY <1>3, <2>1, <2>2, <2>3, <2>4, <2>5, <2>6 DEF IInv, TypeOK, flags
<1>5. RegistrationInv'
  BY <1>1, <1>4, RegistrationPartsNext
<1>6. \A i \in DOMAIN stack : Dispatches(stack[i]) \/ Serves(stack[i]) => stack[i].reg # r
  <2>1. \A i \in DOMAIN stack : Dispatches(stack[i]) => stack[i].reg # r
    BY <1>2 DEF IInv, FlagInv, Dispatching, Dispatches
  <2>2. ASSUME NEW i \in DOMAIN stack, Serves(stack[i])
        PROVE  stack[i].reg # r
    <3>1. stack # <<>> /\ stack \in Seq(Frames)
      BY <2>2 DEF IInv, TypeOK
    <3>2. Top = stack[Len(stack)]
      BY DEF Top
    <3>3. i # Len(stack)
      BY <1>2, <2>2, <3>1, <3>2, ProgramOnTop
    <3>4. i < Len(stack) /\ i + 1 \in DOMAIN stack
      BY <3>1, <3>3, Places
    <3>5. Dispatches(stack[i + 1]) /\ stack[i + 1].reg = stack[i].reg
      BY <2>2, <3>4, StackParts DEF IInv, NextFits
    <3>. QED
      BY <2>1, <3>4, <3>5
  <2>. QED
    BY <2>1, <2>2
<1>7. \A i \in DOMAIN stack : Dispatches(stack[i]) \/ Serves(stack[i])
           => stack[i].reg \in LiveRegs' /\ connOf'[stack[i].reg] = connOf[stack[i].reg]
  <2>1. \A i \in DOMAIN stack : Dispatches(stack[i]) \/ Serves(stack[i]) => stack[i].reg \in LiveRegs
    BY FrameFacts DEF FrameFits
  <2>2. \A q \in LiveRegs : q # r => q \in LiveRegs'
    BY <1>1 DEF LiveRegs
  <2>. QED
    BY <1>2, <1>6, <2>1, <2>2
<1>8. \A q \in Regs : torn[q] => torn'[q]
  BY DEF IInv, TypeOK, Dispose, Teardown
<1>9. \A c \in Conns : native'[c] \in {native[c], NoReg}
  BY DEF IInv, TypeOK, Dispose, Teardown
<1>10. StackInv' /\ FlagInv' /\ NothingStepsInHook' /\ PromptInv'
  BY <1>2, <1>7, <1>8, <1>9, StillStep
<1>. QED
  BY <1>3, <1>4, <1>5, <1>10 DEF IInv

-----------------------------------------------------------------------------
(* The theorems.                                                               *)

\* The invariant holds at first,
LEMMA IInvInit == Init => IInv
<1>. SUFFICES ASSUME Init PROVE IInv
  OBVIOUS
<1>1. stack = <<>> /\ stack \in Seq(Frames) /\ DOMAIN stack = {}
  BY DEF Init
<1>2. TypeOK
  <2>1. made \in 0..MaxRegs /\ iterDepth \in Nat
    BY RegAssumption DEF Init
  <2>. QED
    BY <1>1, <2>1 DEF Init, TypeOK
<1>3. RegistrationInv
  <2>1. 1..made = {}
    BY DEF Init
  <2>2. AllFit
    BY <2>1 DEF Init, AllFit, RegFits, SubFits, ConnFits
  <2>. QED
    BY <1>2, <2>2, RegistrationParts
<1>4. IterInv
  <2>1. {r \in 1..made : ~detached[r]} = {}
    BY DEF Init
  <2>. QED
    BY <2>1, FS_EmptySet DEF Init, IterInv
<1>5. StackInv
  BY <1>1 DEF StackInv
<1>6. FlagInv
  BY <1>1 DEF FlagInv, Init, Dispatching
<1>7. NothingStepsInHook /\ PromptInv
  BY <1>1 DEF NothingStepsInHook, PromptInv, Init
<1>. QED
  BY <1>2, <1>3, <1>4, <1>5, <1>6, <1>7 DEF IInv

\* every step keeps it,
LEMMA IInvStep == IInv /\ [Next]_vars => IInv'
<1>. SUFFICES ASSUME IInv, [Next]_vars PROVE IInv'
  OBVIOUS
<1>1. CASE UNCHANGED vars
  <2>1. /\ stack' = stack /\ UNCHANGED <<driver, patches, flags, registrations, program>>
    BY <1>1 DEF vars
  <2>2. TypeOK' /\ RegistrationInv' /\ IterInv' /\ LiveRegs' = LiveRegs /\ made' = made /\ connOf' = connOf
    <3>1. stack' \in Seq(Frames) /\ inHook' \in [Regs -> BOOLEAN] /\ inListener' \in [Regs -> BOOLEAN]
          /\ stashed' \subseteq Regs
      BY <2>1 DEF IInv, TypeOK, flags
    <3>. QED
      BY <2>1, <3>1, QuietStep
  <2>3. \A q \in Regs : Live(q) => Live(q)' /\ connOf'[q] = connOf[q]
    BY <2>1 DEF Live, driver, patches, registrations
  <2>4. UNCHANGED <<flags, uses, made, torn, native>>
    BY <2>1 DEF driver, registrations, program
  <2>5. StackInv' /\ FlagInv' /\ NothingStepsInHook' /\ PromptInv'
    BY <2>1, <2>3, <2>4, FramesStayLive, StillStep
  <2>. QED
    BY <2>2, <2>5 DEF IInv
<1>2. CASE CallStep
  BY <1>2, UseConnectionInv, IterateInv, PrepareInv, UseStatementInv DEF CallStep
<1>3. CASE EventStep
  BY <1>3, HookInv, ReturnInv, EndCallInv, DrainBatchInv, FinishDrainInv DEF EventStep
<1>4. CASE RegistrationStep
  BY <1>4, AttachInv, JoinInv, DisposeInv, BeginCloseInv, DriverCloseInv, CloseDiscardsInv, FinishCloseInv
     DEF RegistrationStep
<1>. QED
  BY <1>1, <1>2, <1>3, <1>4 DEF Next

\* and it holds of every behaviour.
LEMMA IInvAlways == Spec => []IInv
BY IInvInit, IInvStep, PTL DEF Spec

\* Every variable keeps its type.
THEOREM TypeCorrect == Spec => []TypeOK
<1>1. IInv => TypeOK
  BY DEF IInv
<1>. QED
  BY <1>1, IInvAlways, PTL

\* While a listener of a registration runs, at any depth, its hooks stay installed
\* and its connection open; callbacks never outlive the connection: dispose() and
\* close() refuse inside a listener, and a close() under way has none below it.
THEOREM TornCorrect == Spec => []NothingTornUnderListener
<1>1. IInv => NothingTornUnderListener
  <2>. SUFFICES ASSUME IInv PROVE NothingTornUnderListener
    OBVIOUS
  <2>1. HooksEndWithConnection
    BY FrameFacts DEF HooksEndWithConnection, AllFit, ConnFits
  <2>2. \A r \in Regs : Dispatching(r) => native[connOf[r]] = r /\ connOf[r] \in open
    BY FrameFacts DEF Dispatching, Dispatches, Live
  <2>. QED
    BY <2>1, <2>2 DEF NothingTornUnderListener
<1>. QED
  BY <1>1, IInvAlways, PTL

\* Above a hook of a connection there is no call on that connection, unless the
\* program uses statements another registration prepared, or none did.
THEOREM StepsInHookCorrect == Spec => []NothingStepsInHook
<1>1. IInv => NothingStepsInHook
  BY DEF IInv
<1>. QED
  BY <1>1, IInvAlways, PTL

\* A subscription not disposed is dispatched to, called back and drained for as
\* long as its connection is open, however many registrations came before it.
THEOREM ServedCorrect == Spec => []SubscriptionsAreServed
<1>1. IInv => SubscriptionsAreServed
  <2>. SUFFICES ASSUME IInv, NEW r \in Regs, NEW listener \in Listeners,
                       <<r, listener>> \in subs, connOf[r] \in open
                PROVE  /\ native[connOf[r]] = r /\ regOf[connOf[r]] = r /\ wrappers[connOf[r]] = r
                       /\ listener \in listeners[r]
    BY DEF SubscriptionsAreServed
  <2>1. listener \in listeners[r]
    BY FrameFacts DEF AllFit, SubFits
  <2>2. Live(r)
    BY <2>1, FrameFacts DEF AllFit, RegFits, Closed, Disposed
  <2>. QED
    BY <2>1, <2>2 DEF Live
<1>. QED
  BY <1>1, IInvAlways, PTL

\* Between calls nothing awaits the drain but of registrations that have ended.
THEOREM PromptCorrect == Spec => []PostcommitIsPrompt
<1>1. IInv => PostcommitIsPrompt
  <2>. SUFFICES ASSUME IInv, Documented, stack = <<>>, NEW r \in stashed
                PROVE  torn[r]
    BY DEF PostcommitIsPrompt, Documented
  <2>1. StashFits
    BY PromptParts DEF IInv
  <2>2. DOMAIN stack = {}
    OBVIOUS
  <2>. QED
    BY <2>1, <2>2 DEF StashFits
<1>. QED
  BY <1>1, IInvAlways, PTL

\* What NothingStepsClosed forbids.
StartsClosed ==
    /\ uses \intersect {"closed", "old"} = {}
    /\ Len(stack') > Len(stack) /\ stack'[Len(stack')].kind = "call"
    /\ stack'[Len(stack')].conn \notin open

\* The call that begins is on the connection it was made on.
LEMMA CallStarts ==
  ASSUME IInv, NEW c \in Conns, NEW r \in Regs \union {NoReg}, Call(c, r)
  PROVE  stack'[Len(stack')].conn = c
<1>1. Begins(Frame("call", c, r), "call", c, r)
  BY FrameType DEF IInv, TypeOK
<1>2. PICK f : f = Frame("call", c, r)
  OBVIOUS
<1>3. f \in Frames /\ f.conn = c /\ stack' = Append(stack, f) /\ stack \in Seq(Frames)
  BY <1>1, <1>2 DEF Begins, Call, IInv, TypeOK
<1>4. Len(stack') = Len(stack) + 1 /\ stack'[Len(stack) + 1] = f
  BY <1>3, AppendProperties
<1>. QED
  BY <1>3, <1>4

\* No step begins a call on a closed connection: the wrappers that outlive it say
\* that the registration they belong to was closed.
THEOREM ClosedCorrect == Spec => NothingStepsClosed
<1>1. IInv /\ [Next]_vars => ~StartsClosed
  <2>. SUFFICES ASSUME IInv, [Next]_vars, StartsClosed PROVE FALSE
    OBVIOUS
  <2>1. stack \in Seq(Frames) /\ Len(stack) \in Nat
    BY Places DEF IInv, TypeOK
  <2>2. Len(stack') # Len(stack) /\ stack' # stack
    BY <2>1 DEF StartsClosed
  <2>3. ASSUME NEW c \in Conns, UseConnection(c) PROVE FALSE
    <3>1. PICK r \in Regs \union {NoReg} : r = wrappers[c] /\ Call(c, r)
      BY <2>3 DEF UseConnection, IInv, TypeOK
    <3>. QED
      BY <2>3, <3>1, CallStarts DEF UseConnection, StartsClosed
  <2>4. ASSUME NEW c \in Conns, NEW r \in Regs \union {NoReg}, UseStatement(c, r) PROVE FALSE
    <3>1. Call(c, r) /\ c \notin open
      BY <2>4, CallStarts DEF UseStatement, StartsClosed
    <3>2. r = wrappers[c] /\ r # NoReg /\ ~closed[r]
      BY <2>4, <3>1 DEF UseStatement, StartsClosed, Refuses
    <3>. QED
      BY <3>1, <3>2, FrameFacts DEF AllFit, ConnFits
  <2>5. ASSUME NEW c \in Conns, Iterate(c) PROVE FALSE
    <3>1. Call(c, NoReg) /\ c \in open
      BY <2>5 DEF Iterate, StartsClosed
    <3>. QED
      BY <3>1, CallStarts DEF StartsClosed
  <2>6. ASSUME NEW s \in Seq(Frames), Len(s) = Len(stack), NEW f, stack' = Append(s, f), f.kind # "call"
        PROVE  FALSE
    <3>1. Len(stack') = Len(s) + 1 /\ stack'[Len(s) + 1] = f
      BY <2>6, LastOfAppend
    <3>. QED
      BY <2>6, <3>1 DEF StartsClosed
  <2>7. ASSUME NEW kind, kind # "call", NEW c, NEW r, stack' = Append(stack, Frame(kind, c, r)) PROVE FALSE
    <3>1. Frame(kind, c, r).kind = kind
      BY DEF Frame
    <3>. QED
      BY <2>1, <2>6, <2>7, <3>1
  <2>8. ASSUME NEW lands \in BOOLEAN, Hook(lands) PROVE FALSE
    <3>1. PICK g : g = Frame("hook", Top.conn, native[Top.conn])
      OBVIOUS
    <3>2. [g EXCEPT !.lands = lands].kind = "hook"
      BY <3>1 DEF Frame
    <3>3. stack' = Append(stack, [g EXCEPT !.lands = lands])
      BY <2>8, <3>1 DEF Hook
    <3>. QED
      BY <2>1, <2>6, <3>2, <3>3
  <2>9. ~DrainBatch
    BY <2>7 DEF DrainBatch, DispatchFor
  <2>10. ASSUME NEW c \in Conns, BeginClose(c) PROVE FALSE
    BY <2>7, <2>10 DEF BeginClose
  <2>11. ASSUME NEW f \in Frames, stack # <<>> PROVE Append(Rest, f) \in Seq(Frames) /\ Len(Append(Rest, f)) = Len(stack)
    BY <2>1, <2>11, Replace
  <2>12. ~CloseDiscards
    <3>1. SUFFICES ASSUME CloseDiscards PROVE FALSE
      OBVIOUS
    <3>2. stack # <<>> /\ Top \in Frames
      BY <3>1, FrameFacts DEF CloseDiscards
    <3>3. PICK g \in Frames : g = [Top EXCEPT !.lands = TRUE]
      BY <3>2 DEF Frames
    <3>4. PICK t \in Seq(Frames) : t = Append(Rest, g) /\ Len(t) = Len(stack)
      BY <2>11, <3>2
    <3>5. PICK f : f = Frame("event", Top.conn, Top.reg)
      OBVIOUS
    <3>6. f.kind = "event"
      BY <3>5 DEF Frame
    <3>7. stack' = Append(t, f)
      BY <3>1, <3>3, <3>4, <3>5 DEF CloseDiscards
    <3>. QED
      BY <2>6, <3>4, <3>6, <3>7
  <2>13. stack # <<>> => stack' # Rest
    <3>1. stack # <<>> => Len(Rest) = Len(stack) - 1
      BY <2>1, DropLast DEF Rest
    <3>. QED
      BY <2>1, <3>1 DEF StartsClosed
  <2>14. ~EndCall
    <3>1. SUFFICES ASSUME EndCall PROVE FALSE
      OBVIOUS
    <3>2. stack # <<>> /\ Top \in Frames
      BY <3>1, FrameFacts DEF EndCall
    <3>3. PICK g \in Frames : g = [Top EXCEPT !.draining = TRUE]
      BY <3>2 DEF Frames
    <3>4. Len(Append(Rest, g)) = Len(stack)
      BY <2>11, <3>2
    <3>5. stack' = Append(Rest, g) \/ stack' = Rest
      BY <3>1, <3>3 DEF EndCall
    <3>. QED
      BY <2>2, <2>13, <3>2, <3>4, <3>5
  <2>15. ~CallStep
    BY <2>2, <2>3, <2>4, <2>5 DEF CallStep, Prepare
  <2>16. ~EventStep
    BY <2>8, <2>9, <2>13, <2>14 DEF EventStep, HookReturns, EventReturns, FinishDrain
  <2>17. ~RegistrationStep
    <3>1. \A c \in Conns, listener \in Listeners : ~Attach(c, listener) /\ ~Join(c, listener)
      BY <2>2 DEF Attach, Join
    <3>2. \A r \in Regs, listener \in Listeners : ~Dispose(r, listener)
      BY <2>2 DEF Dispose
    <3>3. \A c \in Conns : ~BeginClose(c) /\ ~DriverClose(c)
      BY <2>2, <2>10 DEF DriverClose
    <3>4. ~FinishClose
      BY <2>13 DEF FinishClose
    <3>. QED
      BY <2>12, <3>1, <3>2, <3>3, <3>4 DEF RegistrationStep
  <2>. QED
    BY <2>2, <2>15, <2>16, <2>17 DEF Next, vars
<1>2. ~StartsClosed => ((/\ uses \intersect {"closed", "old"} = {}
                         /\ Len(stack') > Len(stack) /\ stack'[Len(stack')].kind = "call")
                        => stack'[Len(stack')].conn \in open)
  BY DEF StartsClosed
<1>. QED
  BY <1>1, <1>2, IInvAlways, PTL DEF Spec, NothingStepsClosed

=============================================================================
