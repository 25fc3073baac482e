--------------------------- MODULE CallbacksProofs ---------------------------
(* Proofs about Callbacks and the events of Decisions: which callbacks SQLite  *)
(* holds, what it is told, which checkpoints it makes and what drain() reports *)
(* of the hooks that others took.                                              *)
EXTENDS Callbacks, SequenceTheorems, TLAPS

-----------------------------------------------------------------------------
(* Stacks, innermost last, in the shapes the actions use them.                 *)

\* The innermost call ends.
LEMMA DropLast ==
  ASSUME NEW S, NEW s \in Seq(S), s # <<>>
  PROVE  LET r == SubSeq(s, 1, Len(s) - 1)
         IN /\ r \in Seq(S)
            /\ Len(r) = Len(s) - 1
            /\ \A i \in 1..Len(r) : r[i] = s[i]
<1>1. Len(s) \in Nat \ {0}
  BY EmptySeq
<1>2. PICK m \in Nat : Len(s) - 1 = m
  BY <1>1
<1>3. \A i \in 1..m : s[i] \in S
  BY <1>1, <1>2, ElementOfSeq
<1>4. SubSeq(s, 1, m) \in Seq(S) /\ Len(SubSeq(s, 1, m)) = m /\ \A i \in 1..m : SubSeq(s, 1, m)[i] = s[i]
  BY <1>3, SubSeqProperties
<1>. QED
  BY <1>2, <1>4

\* The innermost call takes a step.
LEMMA ReplaceLast ==
  ASSUME NEW S, NEW s \in Seq(S), s # <<>>, NEW x \in S
  PROVE  LET r == [s EXCEPT ![Len(s)] = x]
         IN /\ r \in Seq(S)
            /\ Len(r) = Len(s)
            /\ r[Len(s)] = x
            /\ \A i \in 1..(Len(s) - 1) : r[i] = s[i]
            /\ r # <<>>
<1>1. Len(s) \in Nat /\ Len(s) # 0 /\ s[Len(s)] \in S
  BY LenProperties, EmptySeq, ElementOfSeq
<1>2. QED
  BY <1>1, ExceptSeq, LenProperties, EmptySeq

-----------------------------------------------------------------------------
(* What SQLite is told.                                                        *)

\* Where the first call settles an event, one more call asks for nothing more.
Continues(kind, calls, say, more) ==
    /\ more \in Seq(Sayings) /\ more # <<>>
    /\ kind \in {"authorize", "collation"} /\ calls # <<>> => Asked(kind, more) = Asked(kind, calls)
    /\ kind \notin {"authorize", "collation"} \/ calls = <<>> => Asked(kind, more) = say

\* What one more call asks for.
LEMMA OneMoreCall ==
  ASSUME NEW kind, NEW calls \in Seq(Sayings), NEW say \in Sayings,
         NEW more, more = Append(calls, say)
  PROVE  Continues(kind, calls, say, more)
<1>1. /\ more \in Seq(Sayings) /\ more # <<>> /\ Len(more) = Len(calls) + 1
      /\ more[Len(calls) + 1] = say /\ \A i \in 1..Len(calls) : more[i] = calls[i]
  BY AppendProperties
<1>2. Len(calls) \in Nat /\ (calls # <<>> => Len(calls) # 0) /\ (calls = <<>> => Len(calls) = 0)
  BY LenProperties, EmptySeq
<1>3. Head(more) = more[1] /\ (calls # <<>> => Head(calls) = calls[1])
  OBVIOUS
<1>4. calls # <<>> => Head(more) = Head(calls)
  BY <1>1, <1>2, <1>3
<1>5. calls = <<>> => Head(more) = say
  BY <1>1, <1>2, <1>3
<1>6. more[Len(more)] = say
  BY <1>1
<1>. QED
  BY <1>1, <1>4, <1>5, <1>6 DEF Asked, Continues

\* The sayings of each kind of event, and its default, are verdicts.
LEMMA Verdicts ==
  /\ \A kind \in EventKinds : Says(kind) \subseteq Sayings
  /\ Says("none") = {} /\ Default("none") = "none" /\ "none" \notin EventKinds
  /\ \A kind \in EventKinds : Fallback(kind) \in {Default(k) : k \in EventKinds} \cup Sayings
  /\ "" \notin Sayings /\ "false" \in Sayings
  /\ "none" \in {Default(k) : k \in EventKinds}
BY DEF Says, Sayings, EventKinds, Default, Fallback

\* A dispatched event, without the answers.
EventInv ==
    /\ event \in EventRecords
    /\ event.verdict = Asked(event.kind, event.calls)
    /\ event.kind \in {"authorize", "collation"} => (event.settled = "" <=> event.calls = <<>>)
    /\ event.kind = "plain" => event.calls = <<>>

\* The rest of DecisionsInv.
AnswerInv ==
    /\ answered.kind \in EventKinds \cup {"none"} /\ answered.nested \in BOOLEAN
    /\ kept \in HasFunctions \cup {"none"}
    /\ errors \in BOOLEAN /\ noBusyDecision \in BOOLEAN
    /\ VerdictsFollowCalls

\* The two make DecisionsInv.
LEMMA DecisionsParts == DecisionsInv <=> EventInv /\ AnswerInv
<1>1. event \in EventRecords =>
         /\ event.kind \in EventKinds \cup {"none"} /\ event.at \in 0..(N + 1)
         /\ event.verdict \in {"none"} \cup {Default(k) : k \in EventKinds}
                                \cup UNION {Says(k) : k \in EventKinds}
  BY DEF EventRecords, Sayings
<1>. QED
  BY <1>1 DEF DecisionsInv, DecisionsTypeOK, EventInv, AnswerInv

\* And so after a step.
LEMMA DecisionsPartsNext == EventInv' /\ AnswerInv' => DecisionsInv'
BY DecisionsParts, PTL

\* No event, or one that begins.
LEMMA FreshEvent ==
  ASSUME event' = NoEvent \/ \E kind \in EventKinds : event' = NewEvent(kind)
  PROVE  EventInv'
<1>1. 0 \in 0..(N + 1) /\ 1 \in 0..(N + 1)
  BY ListenersAssumption
<1>2. <<>> \in Seq(Sayings)
  BY EmptySeq
<1>3. CASE event' = NoEvent
  BY <1>1, <1>2, <1>3, Verdicts DEF EventInv, EventRecords, NoEvent, Asked
<1>4. ASSUME NEW kind \in EventKinds, event' = NewEvent(kind) PROVE EventInv'
  <2>1. Default(kind) \in {Default(k) : k \in EventKinds}
    OBVIOUS
  <2>. QED
    BY <1>1, <1>2, <1>4, <2>1 DEF EventInv, EventRecords, NewEvent, Asked
<1>. QED
  BY <1>3, <1>4

\* An event that goes on, with a verdict that its calls ask for.
LEMMA NextEvent ==
  ASSUME EventInv, NEW at \in 0..(N + 1), NEW s \in Sayings \cup {""}, NEW v, v \in Sayings \/ v = event.verdict,
         NEW c \in Seq(Sayings), event' = [event EXCEPT !.at = at, !.settled = s, !.verdict = v, !.calls = c],
         v = Asked(event.kind, c),
         event.kind \in {"authorize", "collation"} => (s = "" <=> c = <<>>),
         event.kind = "plain" => c = <<>>
  PROVE  EventInv'
<1>1. event \in EventRecords
  BY DEF EventInv
<1>2. v \in {Default(k) : k \in EventKinds} \cup Sayings
  BY <1>1 DEF EventRecords
<1>3. event' \in EventRecords
  BY <1>1, <1>2 DEF EventRecords
<1>4. event'.kind = event.kind /\ event'.settled = s /\ event'.verdict = v /\ event'.calls = c
  BY <1>1 DEF EventRecords
<1>. QED
  BY <1>3, <1>4 DEF EventInv

\* Answering nothing.
LEMMA NoAnswerIs ==
  ASSUME AnswerInv, answered' \in {answered, NoAnswer}, kept' \in HasFunctions \cup {"none"},
         errors' \in BOOLEAN, noBusyDecision' \in BOOLEAN
  PROVE  AnswerInv'
<1>1. CASE answered' = NoAnswer
  <2>1. answered'.kind = "none" /\ answered'.nested = FALSE
    BY <1>1 DEF NoAnswer
  <2>. QED
    BY <2>1 DEF AnswerInv, VerdictsFollowCalls
<1>2. CASE answered' = answered
  BY <1>2 DEF AnswerInv, VerdictsFollowCalls
<1>. QED
  BY <1>1, <1>2

\* An event is dispatched.
LEMMA DeliverStep ==
  ASSUME DecisionsInv, NEW kind, Deliver(kind)
  PROVE  DecisionsInv'
<1>1. EventInv'
  BY FreshEvent DEF Deliver
<1>2. AnswerInv /\ AnswerInv'
  BY DecisionsParts, NoAnswerIs DEF Deliver, AnswerInv
<1>. QED
  BY <1>1, <1>2, DecisionsPartsNext

\* A hook inside a hook.
LEMMA NestedStep ==
  ASSUME DecisionsInv, NEW kind \in EventKinds, Nested(kind)
  PROVE  DecisionsInv'
<1>1. EventInv /\ AnswerInv
  BY DecisionsParts
<1>2. EventInv'
  BY <1>1 DEF Nested, EventInv
<1>3. AnswerInv'
  BY <1>1 DEF Nested, AnswerInv, VerdictsFollowCalls, Raise
<1>. QED
  BY <1>2, <1>3, DecisionsPartsNext

\* A listener calls a function of its event.
LEMMA SayStep ==
  ASSUME DecisionsInv, NEW say, Say(say)
  PROVE  DecisionsInv'
<1>1. EventInv /\ AnswerInv
  BY DecisionsParts
<1>2. event.kind \in EventKinds /\ say \in Sayings /\ event.kind # "plain"
  BY <1>1, Verdicts DEF Say, EventInv, EventRecords, Says, Sayings
<1>. DEFINE more == Append(event.calls, say)
            s == IF Settles(say) THEN say ELSE event.settled
            v == IF Settles(say) THEN say ELSE event.verdict
<1>3. /\ more \in Seq(Sayings) /\ more # <<>>
      /\ event.kind \in {"authorize", "collation"} /\ event.calls # <<>> =>
            Asked(event.kind, more) = Asked(event.kind, event.calls)
      /\ event.kind \notin {"authorize", "collation"} \/ event.calls = <<>> =>
            Asked(event.kind, more) = say
  <2>1. event.calls \in Seq(Sayings)
    BY <1>1 DEF EventInv, EventRecords
  <2>2. more = Append(event.calls, say)
    OBVIOUS
  <2>. HIDE DEF more
  <2>3. Continues(event.kind, event.calls, say, more)
    BY <1>2, <2>1, <2>2, OneMoreCall
  <2>. QED
    BY <2>3 DEF Continues
<1>4. event' = [event EXCEPT !.calls = more, !.settled = s, !.verdict = v]
  BY DEF Say
<1>5. v = Asked(event.kind, more)
  BY <1>1, <1>3 DEF Settles, EventInv
<1>6. event.kind \in {"authorize", "collation"} => s # ""
  BY <1>1, <1>2, Verdicts DEF Settles, EventInv
<1>7. s \in Sayings \cup {""} /\ v \in {Default(k) : k \in EventKinds} \cup Sayings
  BY <1>1, <1>2 DEF EventInv, EventRecords
<1>. HIDE DEF more, s, v
<1>8. EventInv'
  <2>1. event.at \in 0..(N + 1) /\ event \in EventRecords
    BY <1>1 DEF EventInv, EventRecords
  <2>2. event' = [event EXCEPT !.at = event.at, !.settled = s, !.verdict = v, !.calls = more]
    BY <1>4, <2>1 DEF EventRecords
  <2>3. v \in Sayings \/ v = event.verdict
    BY <1>2 DEF v
  <2>. QED
    BY <1>1, <1>2, <1>3, <1>5, <1>6, <1>7, <2>1, <2>2, <2>3, NextEvent
<1>9. AnswerInv'
  BY <1>1, NoAnswerIs DEF Say, AnswerInv, Raise
<1>. QED
  BY <1>8, <1>9, DecisionsPartsNext

\* A listener returns.
LEMMA ListenerReturnsStep ==
  ASSUME DecisionsInv, ListenerReturns
  PROVE  DecisionsInv'
<1>1. EventInv /\ AnswerInv
  BY DecisionsParts
<1>2. event.at + 1 \in 0..(N + 1)
  BY ListenersAssumption DEF ListenerReturns
<1>3. EventInv'
  BY <1>1, <1>2 DEF ListenerReturns, EventInv, EventRecords
<1>4. AnswerInv'
  BY <1>1, NoAnswerIs DEF ListenerReturns, AnswerInv
<1>. QED
  BY <1>3, <1>4, DecisionsPartsNext

\* A listener throws.
LEMMA ListenerThrowsStep ==
  ASSUME DecisionsInv, ListenerThrows
  PROVE  DecisionsInv'
<1>1. EventInv /\ AnswerInv
  BY DecisionsParts
<1>2. event.at + 1 \in 0..(N + 1)
  BY ListenersAssumption DEF ListenerThrows
<1>. DEFINE more == Append(event.calls, "false")
<1>3. /\ more \in Seq(Sayings) /\ more # <<>>
      /\ event.kind = "precommit" => Asked(event.kind, more) = "false"
  <2>1. event.calls \in Seq(Sayings) /\ "false" \in Sayings
    BY <1>1, Verdicts DEF EventInv, EventRecords
  <2>2. more = Append(event.calls, "false")
    OBVIOUS
  <2>. HIDE DEF more
  <2>3. Continues(event.kind, event.calls, "false", more)
    BY <2>1, <2>2, OneMoreCall
  <2>. QED
    BY <2>3 DEF Continues
<1>. HIDE DEF more
<1>. DEFINE c == IF event.kind = "precommit" THEN more ELSE event.calls
            v == IF event.kind = "precommit" THEN "false" ELSE event.verdict
<1>4. event \in EventRecords
  BY <1>1 DEF EventInv
<1>5. EventInv'
  <2>1. event' = [event EXCEPT !.at = event.at + 1, !.settled = event.settled, !.verdict = v, !.calls = c]
    BY <1>4 DEF ListenerThrows, EventRecords, more
  <2>2. event.settled \in Sayings \cup {""} /\ c \in Seq(Sayings) /\ (v \in Sayings \/ v = event.verdict)
    BY <1>3, <1>4, Verdicts DEF EventRecords
  <2>3. /\ v = Asked(event.kind, c)
        /\ event.kind \in {"authorize", "collation"} => (event.settled = "" <=> c = <<>>)
        /\ event.kind = "plain" => c = <<>>
    BY <1>1, <1>3 DEF EventInv
  <2>. HIDE DEF c, v
  <2>. QED
    BY <1>1, <1>2, <2>1, <2>2, <2>3, NextEvent
<1>6. AnswerInv'
  BY <1>1, NoAnswerIs DEF ListenerThrows, AnswerInv, Raise
<1>. QED
  BY <1>5, <1>6, DecisionsPartsNext

\* A function is called that was kept.
LEMMA LateStep ==
  ASSUME DecisionsInv, NEW kind, Late(kind)
  PROVE  DecisionsInv'
<1>1. EventInv /\ AnswerInv
  BY DecisionsParts
<1>2. EventInv'
  BY <1>1 DEF Late, EventInv
<1>3. AnswerInv'
  BY <1>1, NoAnswerIs DEF Late, AnswerInv, Raise
<1>. QED
  BY <1>2, <1>3, DecisionsPartsNext

\* The handler answers.
LEMMA ReturnStep ==
  ASSUME DecisionsInv, Return
  PROVE  DecisionsInv'
<1>1. EventInv /\ AnswerInv
  BY DecisionsParts
<1>2. EventInv'
  BY FreshEvent DEF Return
<1>3. event.kind \in EventKinds \cup {"none"} /\ event.verdict = Asked(event.kind, event.calls)
  BY <1>1 DEF EventInv, EventRecords
<1>4. /\ answered'.kind = event.kind /\ answered'.verdict = event.verdict
      /\ answered'.calls = event.calls /\ answered'.nested = FALSE
  BY DEF Return
<1>5. kept' \in HasFunctions \cup {"none"} /\ errors' \in BOOLEAN /\ noBusyDecision' \in BOOLEAN
  BY <1>1 DEF Return, AnswerInv
<1>. QED
  BY <1>2, <1>3, <1>4, <1>5, DecisionsPartsNext DEF AnswerInv, VerdictsFollowCalls

\* What the listeners of one event do.
LEMMA DecisionStepInv == ASSUME DecisionsInv, DecisionStep PROVE DecisionsInv'
BY SayStep, ListenerReturnsStep, ListenerThrowsStep, LateStep, ReturnStep DEF DecisionStep

\* What the other steps do: end nothing, at most reset the answer and the errors.
LEMMA QuietStep ==
  ASSUME DecisionsInv, event' = event, answered' \in {answered, NoAnswer},
         kept' \in {kept, "none"}, errors' \in BOOLEAN, noBusyDecision' \in {noBusyDecision, FALSE}
  PROVE  DecisionsInv'
<1>1. EventInv /\ AnswerInv
  BY DecisionsParts
<1>2. EventInv'
  BY <1>1 DEF EventInv
<1>3. AnswerInv'
  BY <1>1, NoAnswerIs DEF AnswerInv
<1>. QED
  BY <1>2, <1>3, DecisionsPartsNext

-----------------------------------------------------------------------------
(* The rest of the inductive invariant, which the answers have no part in.     *)

ConnectionTypes ==
    /\ open \in BOOLEAN /\ stepping \in BOOLEAN /\ half \in BOOLEAN /\ sawStatementTrace \in BOOLEAN
    /\ auto \in Thresholds /\ before \in Thresholds \cup {0} /\ threshold \in 0..Never
    /\ frames \in Seq(FramePhases) /\ missed \in 0..2 /\ attaches \in 0..MaxAttach
HookTypes ==
    /\ slot \in [Hooks -> Holders]
    /\ sequence \in [Names -> {"none", "ours", "freed"}]
    /\ backend \in {"none", "attached"} /\ caps \subseteq Optional
    /\ collations \subseteq Names /\ displaced \subseteq Detectable /\ taken \subseteq Detectable
    /\ backend = "none" => collations = {} /\ caps = {} /\ threshold = Never

RestInv ==
    /\ ConnectionTypes /\ HookTypes /\ RegistrationInv /\ DetectionInv /\ CheckpointInv

\* The two make IInv.
LEMMA Parts == IInv <=> RestInv /\ DecisionsInv
<1>1. frames \in Seq(FramePhases) => \A i \in DOMAIN frames : frames[i] \in FramePhases
  BY ElementOfSeq
<1>2. attaches \in 0..MaxAttach => (leaked \in 0..attaches <=> leaked \in Nat /\ leaked <= attaches)
  BY CallbacksBoundsAssumption
<1>3. DisplacementIsReported => overdue \subseteq Detectable
  BY DEF DisplacementIsReported
<1>4. IInv => RestInv /\ DecisionsInv
  BY DEF IInv, RestInv, ConnectionTypes, HookTypes, TypeOK, DecisionsInv
<1>5. RestInv /\ DecisionsInv => TypeOK
  BY <1>1, <1>2, <1>3 DEF RestInv, ConnectionTypes, HookTypes, RegistrationInv, DetectionInv, TypeOK,
     DecisionsInv
<1>. QED
  BY <1>4, <1>5 DEF IInv, RestInv, ConnectionTypes

\* And so after a step.
LEMMA PartsNext == RestInv' /\ DecisionsInv' => IInv'
BY Parts, PTL

\* A step that leaves the hooks and the registration alone.
LEMMA ConnectionStep ==
  ASSUME RestInv, ConnectionTypes',
         UNCHANGED <<callbacks, registration, displaced, taken, missed, overdue>>,
         attaches' \in {attaches, attaches + 1},
         UNCHANGED half, inHook' => inHook \/ attached,
         missed > 0 => sawStatementTrace' = sawStatementTrace,
         UNCHANGED <<logged, auto>>
  PROVE  RestInv'
<1>1. UNCHANGED <<slot, sequence, leaked, backend, caps, request, collations, threshold, before,
                  displaced, taken, missed, overdue, half, logged, auto>>
  BY DEF callbacks, registration
<1>2. HookTypes'
  BY <1>1 DEF RestInv, HookTypes
<1>3. RegistrationInv'
  <2>1. attaches \in 0..MaxAttach /\ MaxAttach \in Nat
    BY CallbacksBoundsAssumption DEF RestInv, ConnectionTypes
  <2>2. leaked' <= attaches' /\ (attached' => leaked' < attaches')
    BY <1>1, <2>1 DEF RestInv, RegistrationInv, attached
  <2>. QED
    BY <1>1, <2>2 DEF RestInv, RegistrationInv, attached, Installed
<1>4. DetectionInv'
  <2>1. missed' > 0 => "trace" \in taken' \ displaced' /\ ~sawStatementTrace'
    BY <1>1 DEF RestInv, DetectionInv
  <2>. QED
    BY <1>1, <2>1 DEF RestInv, DetectionInv, DisplacementIsReported, attached, Installed
<1>5. CheckpointInv'
  BY <1>1 DEF RestInv, CheckpointInv, CheckpointsAsBefore, attached, Reading
<1>. QED
  BY <1>2, <1>3, <1>4, <1>5 DEF RestInv

\* A listener's step, or the first of an event.
LEMMA EventStep ==
  ASSUME RestInv, UNCHANGED <<callbacks, registration, detection, connection, frames>>,
         inHook' => inHook \/ attached
  PROVE  RestInv'
<1>1. ConnectionTypes'
  BY DEF RestInv, ConnectionTypes, connection, registration, detection
<1>. QED
  BY <1>1, ConnectionStep DEF connection, detection

\* Events are dispatched by a registration, and only by Fire.
LEMMA OnlyFireDispatches ==
  ASSUME DecisionStep, event = NoEvent
  PROVE  event' = NoEvent
<1>1. event.at = 0
  BY DEF NoEvent
<1>2. event.at \notin 1..N
  BY <1>1, ListenersAssumption
<1>. QED
  BY <1>2 DEF DecisionStep, Late, Say, ListenerReturns, ListenerThrows, Return

\* Fire and NestedFire.
LEMMA FireStep ==
  ASSUME RestInv, NEW kind \in EventKinds, Fire(kind) \/ NestedFire(kind)
  PROVE  RestInv'
<1>1. HookOf(kind) \in Hooks
  BY DEF HookOf, EventKinds, Hooks, Optional
<1>2. attached
  BY <1>1 DEF Fire, NestedFire, RestInv, RegistrationInv
<1>. QED
  BY <1>2, EventStep DEF Fire, NestedFire

\* Listen.
LEMMA ListenStep ==
  ASSUME RestInv, Listen
  PROVE  RestInv'
BY OnlyFireDispatches, EventStep DEF Listen, inHook

\* The stack of calls.
LEMMA CallStep ==
  ASSUME RestInv, frames' \in Seq(FramePhases), stepping' \in BOOLEAN, event' = event,
         UNCHANGED <<callbacks, registration, detection, open, half, auto, logged, attaches>>
  PROVE  RestInv'
<1>1. ConnectionTypes'
  BY DEF RestInv, ConnectionTypes, registration, detection
<1>. QED
  BY <1>1, ConnectionStep DEF detection, inHook

\* What the steps make of the stack.
LEMMA Stack ==
  ASSUME frames \in Seq(FramePhases), frames # <<>>
  PROVE  /\ Front(frames) \in Seq(FramePhases)
         /\ \A phase \in FramePhases : [frames EXCEPT ![Len(frames)] = phase] \in Seq(FramePhases)
BY DropLast, ReplaceLast DEF Front

\* Drain, Drained, EndCall, StopStepping.
LEMMA StackStep ==
  ASSUME RestInv, Drain \/ Drained \/ EndCall \/ StopStepping
  PROVE  RestInv'
<1>1. frames \in Seq(FramePhases) /\ stepping \in BOOLEAN
  BY DEF RestInv, ConnectionTypes
<1>2. "draining" \in FramePhases /\ "checking" \in FramePhases
  BY DEF FramePhases
<1>3. frames' \in Seq(FramePhases) /\ stepping' \in BOOLEAN
  BY <1>1, <1>2, Stack DEF Drain, Drained, EndCall, StopStepping, Moves, connection
<1>4. UNCHANGED <<event, callbacks, registration, detection, open, half, auto, logged, attaches>>
  BY DEF Drain, Drained, EndCall, StopStepping, decisions, connection
<1>. QED
  BY <1>3, <1>4, CallStep

\* The statement of a call that starts is not traced while another has the trace
\* callback.
LEMMA BeginCallStep ==
  ASSUME RestInv, BeginCall
  PROVE  RestInv'
<1>1. /\ frames' = Append(frames, "running") /\ logged' = NoCommit
      /\ sawStatementTrace' = (sawStatementTrace \/ Traced)
      /\ UNCHANGED <<event, callbacks, registration, displaced, taken, missed, overdue, open,
                     stepping, half, auto, attaches>>
  BY DEF BeginCall
<1>2. frames' \in Seq(FramePhases)
  BY <1>1, AppendProperties DEF RestInv, ConnectionTypes, FramePhases
<1>3. ConnectionTypes'
  BY <1>1, <1>2 DEF RestInv, ConnectionTypes, registration
<1>4. UNCHANGED <<slot, sequence, leaked, backend, caps, request, collations, threshold, before>>
  BY <1>1 DEF callbacks, registration
<1>5. HookTypes'
  BY <1>1, <1>4 DEF RestInv, HookTypes
<1>6. RegistrationInv'
  BY <1>1, <1>4 DEF RestInv, RegistrationInv, attached, Installed, inHook
<1>7. DetectionInv'
  <2>1. missed > 0 => "trace" \in taken /\ taken \subseteq Installed(caps, request) /\ attached
    BY DEF RestInv, DetectionInv, RegistrationInv
  <2>2. missed > 0 => slot["trace"] = "other"
    BY <2>1 DEF RestInv, DetectionInv, Detectable
  <2>3. missed > 0 => sawStatementTrace' = sawStatementTrace
    BY <1>1, <2>2 DEF Traced, RestInv, ConnectionTypes
  <2>4. missed' > 0 => "trace" \in taken' \ displaced' /\ ~sawStatementTrace'
    BY <1>1, <2>3 DEF RestInv, DetectionInv
  <2>. QED
    BY <1>1, <1>4, <2>4 DEF RestInv, DetectionInv, DisplacementIsReported, attached, Installed
<1>8. CheckpointInv'
  <2>1. logged' \in [frames : 0..MaxFrames, done : BOOLEAN] /\ logged'.frames = 0 /\ ~logged'.done
    BY <1>1, CallbacksBoundsAssumption DEF NoCommit
  <2>2. auto \in 0..Never /\ before \in 0..Never
    BY ThresholdsAssumption, CallbacksBoundsAssumption DEF RestInv, ConnectionTypes, Never
  <2>3. ~(auto > 0 /\ logged'.frames >= auto) /\ (before > 0 => ~(logged'.frames >= before))
    BY <2>1, <2>2, CallbacksBoundsAssumption DEF Never
  <2>. QED
    BY <1>1, <1>4, <2>1, <2>3 DEF RestInv, CheckpointInv, CheckpointsAsBefore, attached, Reading
<1>. QED
  BY <1>3, <1>5, <1>6, <1>7, <1>8 DEF RestInv

\* A library that was refused leaves nothing.
LEMMA AttachRefusedStep ==
  ASSUME RestInv, NEW build, NEW r, NEW same, AttachRefused(build, r, same)
  PROVE  RestInv'
<1>1. attaches' \in 0..MaxAttach
  BY CallbacksBoundsAssumption DEF AttachRefused, RestInv, ConnectionTypes
<1>2. ConnectionTypes'
  BY <1>1 DEF AttachRefused, RestInv, ConnectionTypes, registration, detection
<1>. QED
  BY <1>2, ConnectionStep DEF AttachRefused, detection, decisions, inHook

\* attach().
LEMMA AttachStep ==
  ASSUME RestInv, NEW build \in Builds, NEW r \in Requests, Attach(build, r)
  PROVE  RestInv'
<1>1. /\ ~attached /\ attached' /\ ~inHook' /\ attaches' = attaches + 1 /\ attaches < MaxAttach
      /\ backend' = "attached" /\ caps' = Capabilities(build, r) /\ request' = r
      /\ slot' = [k \in Hooks |-> IF k \in Installed(caps', r) THEN "ours" ELSE slot[k]]
      /\ threshold' = ThresholdOf(r, build, Reading(slot)) /\ before' = Reading(slot)
      /\ UNCHANGED <<sawStatementTrace, displaced, taken, missed, overdue, sequence, leaked,
                     collations, open, stepping, half, auto, logged, frames>>
  BY DEF Attach, ReadingBefore, Idle, attached, detection, decisions, inHook
<1>2. /\ build \subseteq Optional /\ r.hooks \subseteq build
      /\ r.hooks \subseteq Optional \ {"preupdate", "wal"} /\ r.asked \in 0..Never
      /\ r.checkpoint \in {"preserve", "caller", "asked"}
  BY BuildsAssumption, RequestsAssumption DEF Attach, Refused
<1>3. /\ r.hooks \subseteq caps' /\ caps' \subseteq Optional /\ ("wal" \in caps' <=> "wal" \in build)
      /\ Installed(caps', r) \subseteq Hooks
      /\ "wal" \in Installed(caps', r) <=> "wal" \in caps'
  BY <1>1, <1>2 DEF Capabilities, Installed, Hooks
<1>4. /\ displaced = {} /\ taken = {} /\ missed = 0
      /\ \A h \in Hooks : slot[h] \in {"none", "other", "plain"}
  BY <1>1 DEF RestInv, RegistrationInv, HookTypes, Holders
<1>5. Reading(slot) \in Thresholds \cup {0} /\ Reading(slot) \in 0..Never
  BY ThresholdsAssumption, CallbacksBoundsAssumption DEF Reading, RestInv, ConnectionTypes, Never
<1>6. /\ threshold' \in 0..Never
      /\ r.checkpoint = "preserve" /\ "wal" \in build => threshold' = Reading(slot)
  BY <1>1, <1>2, <1>5, CallbacksBoundsAssumption DEF ThresholdOf, Never
<1>. HIDE DEF attached
<1>7. ConnectionTypes'
  BY <1>1, <1>5, <1>6, CallbacksBoundsAssumption DEF RestInv, ConnectionTypes
<1>8. HookTypes'
  <2>1. slot' \in [Hooks -> Holders]
    BY <1>1 DEF RestInv, HookTypes, Holders
  <2>. QED
    BY <1>1, <1>3, <2>1 DEF RestInv, HookTypes
<1>9. RegistrationInv'
  <2>1. \A h \in Hooks : slot'[h] = IF h \in Installed(caps', r) THEN "ours" ELSE slot[h]
    BY <1>1
  <2>2. \A h \in Hooks : slot'[h] # "freed" /\ (slot'[h] = "ours" => h \in Installed(caps', r))
    BY <1>4, <2>1
  <2>3. \A n \in Names :
          (sequence'[n] = "ours" => n \in collations') /\ (sequence'[n] = "freed" => half')
    BY <1>1 DEF RestInv, RegistrationInv
  <2>4. Installed(caps, request)' = Installed(caps', r)
    BY <1>1 DEF Installed
  <2>5. leaked' \in Nat /\ leaked' <= attaches' /\ leaked' < attaches'
    BY <1>1, CallbacksBoundsAssumption DEF RestInv, RegistrationInv, ConnectionTypes
  <2>. QED
    BY <1>1, <1>3, <2>2, <2>3, <2>4, <2>5 DEF RegistrationInv
<1>10. DetectionInv'
  <2>1. \A h \in Detectable \cap Installed(caps', r) : slot'[h] = "ours"
    BY <1>1, <1>3
  <2>2. taken' = {} /\ displaced' = {} /\ missed' = 0 /\ overdue' = {}
    BY <1>1, <1>4 DEF RestInv, DetectionInv, DisplacementIsReported
  <2>3. Installed(caps, request)' = Installed(caps', r)
    BY <1>1 DEF Installed
  <2>4. slot'["trace"] # "plain" /\ (slot'["wal"] = "other" => auto' > 0)
    BY <1>1 DEF RestInv, DetectionInv, Hooks, Optional
  <2>. QED
    BY <2>1, <2>2, <2>3, <2>4 DEF DetectionInv, DisplacementIsReported
<1>11. CheckpointInv'
  <2>1. "wal" \notin caps' => Reading(slot)' = Reading(slot)
    BY <1>1, <1>3 DEF Reading, Hooks, Optional
  <2>2. Reading(slot) > 0 => slot["wal"] = "other" /\ Reading(slot) = auto
    BY DEF Reading
  <2>3. before' > 0 => (logged'.done <=> logged'.frames >= before')
    BY <1>1, <2>2 DEF RestInv, CheckpointInv
  <2>. QED
    BY <1>1, <1>3, <1>6, <2>1, <2>3 DEF RestInv, CheckpointInv, CheckpointsAsBefore
<1>. QED
  BY <1>7, <1>8, <1>9, <1>10, <1>11 DEF RestInv

\* detach() leaves SQLite nothing that was freed, but for the comparators it could
\* not unregister while a statement was half way.
LEMMA DetachStep ==
  ASSUME RestInv, Detach, ~inHook, open' \in BOOLEAN, stepping' \in BOOLEAN,
         UNCHANGED <<auto, attaches, frames>>
  PROVE  RestInv'
<1>1. /\ slot' = Freed(SlotsUnregistered, Hooks \ {"collation"})
      /\ sequence' = Freed(SequencesUnregistered, collations)
      /\ backend' = "none" /\ caps' = {} /\ request' = NoRequest /\ collations' = {}
      /\ threshold' = Never /\ before' = 0 /\ half' = (half \/ Active)
      /\ sawStatementTrace' = FALSE /\ displaced' = {} /\ taken' = {} /\ missed' = 0 /\ overdue' = {}
      /\ leaked' = IF "collation" \in Installed(caps, request) THEN leaked + 1 ELSE leaked
      /\ logged' = NoCommit /\ event' = event
  BY DEF Detach, CollationsCleared
<1>2. ~attached' /\ ~inHook'
  BY <1>1 DEF attached, inHook
<1>3. \A h \in Hooks : slot[h] # "freed" /\ (slot[h] = "ours" => h \in Installed(caps, request))
  BY DEF RestInv, RegistrationInv
<1>4. /\ slot' \in [Hooks -> Holders]
      /\ \A h \in Hooks : slot'[h] \notin {"freed", "ours"}
      /\ \A h \in Hooks : slot'[h] \in {"none", slot[h]}
  BY <1>1, <1>3 DEF Freed, SlotsUnregistered, RestInv, HookTypes, Holders
<1>5. /\ sequence' \in [Names -> {"none", "ours", "freed"}]
      /\ \A n \in Names : sequence'[n] # "ours" /\ (sequence'[n] = "freed" => half')
  BY <1>1 DEF Freed, SequencesUnregistered, RestInv, HookTypes, RegistrationInv
<1>6. ConnectionTypes'
  <2>1. half' \in BOOLEAN
    BY <1>1 DEF RestInv, ConnectionTypes, Active
  <2>2. Never \in 0..Never
    BY CallbacksBoundsAssumption DEF Never
  <2>3. /\ threshold' \in 0..Never /\ auto' \in Thresholds /\ before' \in Thresholds \cup {0}
        /\ frames' \in Seq(FramePhases) /\ missed' \in 0..2 /\ attaches' \in 0..MaxAttach
    BY <1>1, <2>2 DEF RestInv, ConnectionTypes
  <2>. QED
    BY <1>1, <2>1, <2>3 DEF ConnectionTypes
<1>7. HookTypes'
  BY <1>1, <1>4, <1>5 DEF HookTypes
<1>8. RegistrationInv'
  <2>1. leaked \in Nat /\ leaked <= attaches /\ attaches \in Nat
    BY CallbacksBoundsAssumption DEF RestInv, RegistrationInv, ConnectionTypes
  <2>2. "collation" \in Installed(caps, request) => leaked < attaches
    <3>1. "collation" \in Installed(caps, request) => attached
      BY DEF Installed, RestInv, HookTypes, attached
    <3>. QED
      BY <3>1 DEF RestInv, RegistrationInv
  <2>3. leaked' \in Nat /\ leaked' <= attaches'
    BY <1>1, <2>1, <2>2
  <2>. QED
    BY <1>1, <1>2, <1>4, <1>5, <2>3 DEF RegistrationInv
<1>9. DetectionInv'
  <2>1. "trace" \in Hooks /\ "wal" \in Hooks
    BY DEF Hooks, Optional
  <2>2. slot'["trace"] # "plain" /\ (slot'["wal"] = "other" => auto' > 0)
    BY <1>4, <2>1 DEF RestInv, DetectionInv
  <2>. QED
    BY <1>1, <1>2, <2>2 DEF DetectionInv, DisplacementIsReported
<1>10. CheckpointInv'
  <2>1. logged' \in [frames : 0..MaxFrames, done : BOOLEAN] /\ logged'.frames = 0 /\ ~logged'.done
    BY <1>1, CallbacksBoundsAssumption DEF NoCommit
  <2>2. auto' \in 0..Never
    BY ThresholdsAssumption DEF RestInv, ConnectionTypes
  <2>3. ~(auto' > 0 /\ logged'.frames >= auto')
    BY <2>1, <2>2, CallbacksBoundsAssumption DEF Never
  <2>. QED
    BY <1>2, <2>1, <2>3 DEF CheckpointInv, CheckpointsAsBefore
<1>. QED
  BY <1>6, <1>7, <1>8, <1>9, <1>10 DEF RestInv

\* The last dispose(), and close().
LEMMA EndStep ==
  ASSUME RestInv, Dispose \/ Close
  PROVE  RestInv'
<1>1. CASE Dispose
  BY <1>1, DetachStep DEF Dispose, RestInv, ConnectionTypes
<1>2. CASE Close /\ attached
  BY <1>2, DetachStep DEF Close, Idle
<1>3. CASE Close /\ ~attached
  <2>1. /\ UNCHANGED <<decisions, callbacks, registration, detection, half, logged>>
        /\ open' = FALSE /\ stepping' = FALSE /\ UNCHANGED <<auto, attaches, frames>>
    BY <1>3 DEF Close
  <2>2. ConnectionTypes'
    BY <2>1 DEF RestInv, ConnectionTypes, registration, detection
  <2>. QED
    BY <2>1, <2>2, ConnectionStep DEF detection, decisions, inHook
<1>. QED
  BY <1>1, <1>2, <1>3

\* A hook that others take.
LEMMA TakeStep ==
  ASSUME RestInv, NEW hook \in Detectable, NEW holder \in Holders, Take(hook, holder)
  PROVE  RestInv'
<1>1. /\ attached /\ slot[hook] = "ours" /\ slot' = [slot EXCEPT ![hook] = holder]
      /\ holder \in {"other", "plain"} /\ (hook = "trace" => holder = "other")
      /\ taken' = taken \cup {hook} /\ missed' = (IF hook = "trace" THEN 0 ELSE missed)
      /\ auto' \in Thresholds /\ (hook # "wal" => auto' = auto)
      /\ hook = "wal" /\ holder = "other" => auto' # 0
      /\ UNCHANGED <<event, sequence, leaked, backend, caps, request, collations, threshold, before,
                     sawStatementTrace, displaced, overdue, open, stepping, half, logged, attaches,
                     frames>>
  BY DEF Take, decisions, registration, RestInv, ConnectionTypes
<1>2. hook \in Hooks /\ "wal" \in Hooks
  BY DEF Detectable, Hooks, Optional
<1>3. /\ hook \in Installed(caps, request)
      /\ slot'[hook] = holder /\ \A h \in Hooks \ {hook} : slot'[h] = slot[h]
      /\ slot' \in [Hooks -> Holders]
  BY <1>1, <1>2 DEF RestInv, RegistrationInv, HookTypes
<1>4. ConnectionTypes'
  BY <1>1 DEF RestInv, ConnectionTypes
<1>5. HookTypes'
  BY <1>1, <1>3 DEF RestInv, HookTypes
<1>6. RegistrationInv'
  BY <1>1, <1>3 DEF RestInv, RegistrationInv, attached, Installed, inHook
<1>7. DetectionInv'
  <2>1. taken' \subseteq Installed(caps, request)
    BY <1>1, <1>3 DEF RestInv, DetectionInv
  <2>2. \A h \in Detectable \cap Installed(caps, request) :
           IF h \in taken' THEN slot'[h] \in {"other", "plain"} ELSE slot'[h] = "ours"
    <3>1. Detectable \subseteq Hooks
      BY DEF Detectable, Hooks, Optional
    <3>. QED
      BY <1>1, <1>3, <3>1 DEF RestInv, DetectionInv
  <2>3. missed' > 0 => "trace" \in taken' \ displaced' /\ ~sawStatementTrace'
    BY <1>1 DEF RestInv, DetectionInv
  <2>4. DisplacementIsReported'
    BY <1>1 DEF RestInv, DetectionInv, DisplacementIsReported
  <2>5. Installed(caps, request)' = Installed(caps, request)
    BY <1>1 DEF Installed
  <2>6. slot'["trace"] # "plain"
    BY <1>1, <1>3 DEF RestInv, DetectionInv, Hooks, Optional
  <2>7. slot'["wal"] = "other" => auto' > 0
    <3>1. auto' \in Nat
      BY <1>1, ThresholdsAssumption, CallbacksBoundsAssumption DEF Never
    <3>. QED
      BY <1>1, <1>2, <1>3, <3>1 DEF RestInv, DetectionInv
  <2>. QED
    BY <2>1, <2>2, <2>3, <2>4, <2>5, <2>6, <2>7 DEF DetectionInv
<1>8. CheckpointInv'
  <2>1. CASE hook = "wal"
    BY <1>1, <2>1 DEF RestInv, CheckpointInv, CheckpointsAsBefore, attached
  <2>2. CASE hook # "wal"
    <3>1. slot'["wal"] = slot["wal"] /\ auto' = auto
      BY <1>1, <1>2, <1>3, <2>2
    <3>. QED
      BY <1>1, <2>2, <3>1 DEF RestInv, CheckpointInv, CheckpointsAsBefore, attached, Reading
  <2>. QED
    BY <2>1, <2>2
<1>. QED
  BY <1>4, <1>5, <1>6, <1>7, <1>8 DEF RestInv

\* A comparator that a listener supplies.
LEMMA ProvideStep ==
  ASSUME RestInv, NEW n \in Names, Provide(n)
  PROVE  RestInv'
<1>1. /\ sequence' = [sequence EXCEPT ![n] = "ours"] /\ collations' = collations \cup {n}
      /\ event.kind = "collation"
      /\ UNCHANGED <<slot, leaked, backend, caps, request, threshold, before, sawStatementTrace,
                     displaced, taken, missed, overdue, open, stepping, half, auto, logged, attaches,
                     frames>>
  BY DEF Provide, Providing, detection, connection
<1>2. attached
  <2>1. NoEvent.kind = "none"
    BY DEF NoEvent
  <2>2. inHook
    BY <1>1, <2>1 DEF inHook
  <2>. QED
    BY <2>2 DEF RestInv, RegistrationInv
<1>3. ConnectionTypes'
  BY <1>1 DEF RestInv, ConnectionTypes
<1>4. HookTypes'
  BY <1>1, <1>2 DEF RestInv, HookTypes, attached
<1>5. RegistrationInv'
  <2>1. attached'
    BY <1>1, <1>2 DEF attached
  <2>2. \A m \in Names :
          (sequence'[m] = "ours" => m \in collations') /\ (sequence'[m] = "freed" => half')
    BY <1>1 DEF RestInv, HookTypes, RegistrationInv
  <2>. QED
    BY <1>1, <1>2, <2>1, <2>2 DEF RestInv, RegistrationInv, Installed
<1>6. DetectionInv'
  BY <1>1 DEF RestInv, DetectionInv, DisplacementIsReported, attached, Installed
<1>7. CheckpointInv'
  BY <1>1 DEF RestInv, CheckpointInv, CheckpointsAsBefore, attached, Reading
<1>. QED
  BY <1>3, <1>4, <1>5, <1>6, <1>7 DEF RestInv

\* A commit: the log is checkpointed by the WAL hook or by SQLite's own.
LEMMA CommitStep ==
  ASSUME RestInv, NEW n \in 0..MaxFrames, Commit(n)
  PROVE  RestInv'
<1>. DEFINE d == CASE slot["wal"] = "ours" -> Checkpoints(n)
                   [] slot["wal"] = "other" -> auto > 0 /\ n >= auto
                   [] OTHER -> FALSE
<1>1. /\ frames # <<>> /\ Moves("committed") /\ logged' = [frames |-> n, done |-> d]
      /\ UNCHANGED <<event, callbacks, registration, detection, open, stepping, half, auto, attaches>>
  BY DEF Commit, detection
<1>2. frames' \in Seq(FramePhases)
  BY <1>1, Stack DEF Moves, RestInv, ConnectionTypes, FramePhases
<1>3. UNCHANGED <<slot, sequence, leaked, backend, caps, request, collations, threshold, before,
                  sawStatementTrace, displaced, taken, missed, overdue>>
  BY <1>1 DEF callbacks, registration, detection
<1>4. ConnectionTypes'
  BY <1>1, <1>2, <1>3 DEF RestInv, ConnectionTypes
<1>5. HookTypes'
  BY <1>3 DEF RestInv, HookTypes
<1>6. RegistrationInv'
  BY <1>1, <1>3 DEF RestInv, RegistrationInv, attached, Installed, inHook
<1>7. DetectionInv'
  <2>1. auto' = auto
    BY <1>1
  <2>. QED
    BY <1>3, <2>1 DEF RestInv, DetectionInv, DisplacementIsReported, attached, Installed
<1>8. /\ d \in BOOLEAN
      /\ slot["wal"] = "ours" => (d <=> Checkpoints(n))
      /\ slot["wal"] = "other" => (d <=> auto > 0 /\ n >= auto)
  BY DEF Checkpoints
<1>. HIDE DEF d
<1>9. logged'.frames = n /\ logged'.done = d /\ logged' \in [frames : 0..MaxFrames, done : BOOLEAN]
  BY <1>1, <1>8
<1>10. CheckpointInv'
  <2>1. auto \in 0..Never /\ before \in 0..Never /\ Never = MaxFrames + 1
    BY ThresholdsAssumption, CallbacksBoundsAssumption DEF RestInv, ConnectionTypes, Never
  <2>2. CheckpointsAsBefore'
    <3>1. SUFFICES ASSUME attached, request.checkpoint = "preserve", before > 0, "wal" \notin taken
                   PROVE  d <=> n >= before
      BY <1>3, <1>9 DEF CheckpointsAsBefore, attached
    <3>2. CASE "wal" \in caps
      <4>1. slot["wal"] = "ours" /\ threshold = before
        BY <3>1, <3>2 DEF RestInv, DetectionInv, CheckpointInv, Detectable, Installed
      <4>2. Checkpoints(n) <=> n >= before
        BY <2>1, <4>1, CallbacksBoundsAssumption DEF Checkpoints
      <4>. QED
        BY <1>8, <4>1, <4>2
    <3>3. CASE "wal" \notin caps
      <4>1. slot["wal"] = "other" /\ before = auto
        BY <3>1, <3>3 DEF RestInv, CheckpointInv, Reading
      <4>. QED
        BY <1>8, <2>1, <3>1, <4>1
    <3>. QED
      BY <3>2, <3>3
  <2>3. ~attached' /\ slot'["wal"] = "other" =>
           (logged'.done <=> auto' > 0 /\ logged'.frames >= auto')
    BY <1>1, <1>3, <1>8, <1>9
  <2>4. attached' /\ "wal" \notin taken' =>
           IF "wal" \in caps' THEN request'.checkpoint = "preserve" => threshold' = before'
                              ELSE before' = Reading(slot)'
    BY <1>1, <1>3 DEF RestInv, CheckpointInv, attached, Reading
  <2>. QED
    BY <1>9, <2>2, <2>3, <2>4 DEF CheckpointInv
<1>. QED
  BY <1>4, <1>5, <1>6, <1>7, <1>10 DEF RestInv

\* The checks of drain(): a hook is reported when another has it, and only the
\* trace callback may be reported while it is ours; a check that misses a taken
\* trace callback leaves the flag down, so the next one finds it.
LEMMA CheckHooksStep ==
  ASSUME RestInv, CheckHooks
  PROVE  RestInv'
<1>1. /\ frames # <<>> /\ frames' = Front(frames)
      /\ displaced' = displaced \cup (IF WalTaken THEN {"wal"} ELSE {})
                                \cup (IF TraceTaken THEN {"trace"} ELSE {})
                                \cup (IF BusyTaken THEN {"busy"} ELSE {})
      /\ sawStatementTrace' = ((SawBy(ChecksWal) /\ ~ChecksTrace) \/ (ChecksBusy /\ Traced))
      /\ missed' = IF "trace" \in taken \ displaced' THEN missed + 1 ELSE 0
      /\ overdue' = {h \in {"wal", "busy"} \cap taken : slot[h] = "other"} \ displaced'
      /\ UNCHANGED <<event, slot, sequence, leaked, backend, caps, request, collations, threshold, before,
                     taken, open, stepping, half, auto, logged, attaches>>
  BY DEF CheckHooks, callbacks, registration, connection
<1>2. /\ taken \subseteq Installed(caps, request) /\ taken \subseteq Detectable
      /\ attached => \A h \in Detectable \cap Installed(caps, request) :
                      IF h \in taken THEN slot[h] \in {"other", "plain"} ELSE slot[h] = "ours"
      /\ slot["trace"] # "plain" /\ (slot["wal"] = "other" => auto > 0)
      /\ ~attached => caps = {} /\ request = NoRequest /\ taken = {} /\ displaced = {} /\ missed = 0
      /\ attached => request.hooks \subseteq caps
      /\ missed > 0 => "trace" \in taken \ displaced /\ ~sawStatementTrace
      /\ DisplacementIsReported
  BY DEF RestInv, DetectionInv, RegistrationInv, HookTypes, attached
<1>3. /\ WalTaken => "wal" \in taken
      /\ BusyTaken => "busy" \in taken
  <2>1. ASSUME WalTaken PROVE "wal" \in taken
    <3>1. "wal" \in caps /\ slot["wal"] = "other"
      BY <2>1 DEF WalTaken, ChecksWal, Reading
    <3>2. attached /\ "wal" \in Detectable \cap Installed(caps, request)
      BY <1>2, <3>1 DEF Detectable, Installed
    <3>. QED
      BY <1>2, <3>1, <3>2
  <2>2. ASSUME BusyTaken PROVE "busy" \in taken
    <3>1. "busy" \in request.hooks /\ slot["busy"] = "other"
      BY <2>2 DEF BusyTaken, ChecksBusy
    <3>2. attached
      BY <1>2, <3>1 DEF NoRequest
    <3>3. "busy" \in Detectable \cap Installed(caps, request)
      BY <1>2, <3>1, <3>2 DEF Detectable, Installed
    <3>. QED
      BY <1>2, <3>1, <3>2, <3>3
  <2>. QED
    BY <2>1, <2>2
<1>4. ASSUME TraceTaken, "trace" \notin taken
      PROVE  "wal" \notin caps \/ "wal" \in displaced
  <2>1. "trace" \in request.hooks /\ ~SawBy(ChecksWal)
    BY <1>4 DEF TraceTaken, ChecksTrace
  <2>2. attached
    BY <1>2, <2>1 DEF NoRequest
  <2>3. slot["trace"] = "ours"
    BY <1>2, <1>4, <2>1, <2>2 DEF Detectable, Installed
  <2>. QED
    BY <2>1, <2>3 DEF SawBy, Traced, ChecksWal
<1>5. ASSUME "trace" \in taken
      PROVE  "trace" \in request.hooks /\ ~Traced
  <2>1. attached /\ slot["trace"] = "other"
    BY <1>2, <1>5
  <2>2. "trace" \in request.hooks
    BY <1>2, <1>5 DEF Installed
  <2>. QED
    BY <2>1, <2>2 DEF Traced
<1>6. ASSUME "trace" \in taken \ displaced'
      PROVE  missed = 0 /\ ~sawStatementTrace'
  <2>1. /\ ChecksTrace /\ ~TraceTaken
    BY <1>1, <1>5, <1>6 DEF ChecksTrace
  <2>2. SawBy(ChecksWal) /\ ~Traced
    BY <1>5, <1>6, <2>1 DEF TraceTaken
  <2>3. sawStatementTrace
    BY <2>2 DEF SawBy
  <2>4. missed \in Nat
    BY DEF RestInv, ConnectionTypes
  <2>5. ~sawStatementTrace'
    BY <1>1, <2>1, <2>2
  <2>6. ~(missed > 0)
    BY <1>2, <2>3
  <2>. QED
    BY <2>4, <2>5, <2>6
<1>7. missed' \in 0..1 /\ (missed' > 0 => "trace" \in taken \ displaced' /\ ~sawStatementTrace')
  BY <1>1, <1>6
<1>8. ConnectionTypes'
  <2>1. frames' \in Seq(FramePhases)
    BY <1>1, Stack DEF RestInv, ConnectionTypes
  <2>2. sawStatementTrace' \in BOOLEAN
    BY <1>1
  <2>. QED
    BY <1>1, <1>7, <2>1, <2>2 DEF RestInv, ConnectionTypes
<1>9. displaced' \subseteq Detectable /\ displaced \subseteq displaced'
  BY <1>1 DEF RestInv, HookTypes, Detectable
<1>10. HookTypes'
  BY <1>1, <1>9 DEF RestInv, HookTypes
<1>11. ~attached => displaced' = {} /\ missed' = 0
  <2>1. ASSUME ~attached PROVE ~WalTaken /\ ~TraceTaken /\ ~BusyTaken
    BY <1>2, <2>1 DEF WalTaken, TraceTaken, BusyTaken, ChecksWal, ChecksTrace, ChecksBusy, NoRequest
  <2>. QED
    BY <1>1, <1>2, <2>1
<1>12. RegistrationInv'
  BY <1>1, <1>11 DEF RestInv, RegistrationInv, attached, Installed, inHook
<1>13. DisplacementIsReported'
  <2>1. displaced' \ {"trace"} \subseteq taken
    BY <1>1, <1>2, <1>3 DEF DisplacementIsReported
  <2>2. "trace" \in displaced' \ taken => "wal" \notin caps \/ "wal" \in displaced'
    BY <1>1, <1>2, <1>4, <1>9 DEF DisplacementIsReported
  <2>3. ASSUME "wal" \in taken, slot["wal"] = "other" PROVE "wal" \in displaced'
    <3>1. "wal" \in caps /\ Reading(slot) > 0
      BY <1>2, <2>3 DEF Installed, Reading
    <3>2. "wal" \in displaced \/ WalTaken
      BY <3>1 DEF WalTaken, ChecksWal
    <3>. QED
      BY <1>1, <3>2
  <2>4. ASSUME "busy" \in taken, slot["busy"] = "other" PROVE "busy" \in displaced'
    <3>1. "busy" \in request.hooks
      BY <1>2, <2>4 DEF Installed
    <3>2. "busy" \in displaced \/ BusyTaken
      BY <2>4, <3>1 DEF BusyTaken, ChecksBusy
    <3>. QED
      BY <1>1, <3>2
  <2>5. overdue' = {}
    BY <1>1, <2>3, <2>4
  <2>. QED
    BY <1>1, <1>7, <2>1, <2>2, <2>5 DEF DisplacementIsReported
<1>14. DetectionInv'
  BY <1>1, <1>7, <1>13 DEF RestInv, DetectionInv, attached, Installed
<1>15. CheckpointInv'
  BY <1>1 DEF RestInv, CheckpointInv, CheckpointsAsBefore, attached, Reading
<1>. QED
  BY <1>8, <1>10, <1>12, <1>14, <1>15 DEF RestInv

-----------------------------------------------------------------------------
(* Every state that is reached.                                                *)

\* At first nothing is registered.
LEMMA InitInv == Init => IInv
<1>. SUFFICES ASSUME Init PROVE IInv
  OBVIOUS
<1>1. EventInv
  <2>1. 0 \in 0..(N + 1) /\ <<>> \in Seq(Sayings)
    BY ListenersAssumption, EmptySeq
  <2>2. event = NoEvent
    BY DEF Init, DecisionsInit
  <2>. QED
    BY <2>1, <2>2, Verdicts DEF EventInv, EventRecords, NoEvent, Asked
<1>2. AnswerInv
  BY DEF Init, DecisionsInit, AnswerInv, VerdictsFollowCalls, NoAnswer
<1>3. ConnectionTypes
  <2>1. Never \in 0..Never /\ 0 \in 0..MaxAttach /\ <<>> \in Seq(FramePhases)
    BY CallbacksBoundsAssumption, EmptySeq DEF Never
  <2>2. /\ open = TRUE /\ stepping = FALSE /\ half = FALSE /\ sawStatementTrace = FALSE
        /\ auto \in Thresholds /\ before = 0 /\ threshold = Never /\ frames = <<>>
        /\ missed = 0 /\ attaches = 0
    BY DEF Init
  <2>3. open \in BOOLEAN /\ stepping \in BOOLEAN /\ half \in BOOLEAN /\ sawStatementTrace \in BOOLEAN
    BY <2>2
  <2>4. /\ auto \in Thresholds /\ before \in Thresholds \cup {0} /\ threshold \in 0..Never
        /\ frames \in Seq(FramePhases) /\ missed \in 0..2 /\ attaches \in 0..MaxAttach
    BY <2>1, <2>2
  <2>. QED
    BY <2>3, <2>4 DEF ConnectionTypes
<1>4. HookTypes
  BY DEF Init, HookTypes, Holders
<1>5. RegistrationInv
  BY DEF Init, DecisionsInit, RegistrationInv, attached, inHook
<1>6. DetectionInv
  <2>1. slot["trace"] # "plain" /\ (slot["wal"] = "other" => auto > 0)
    BY DEF Init, Hooks, Optional
  <2>. QED
    BY <2>1 DEF Init, DetectionInv, DisplacementIsReported, attached
<1>7. CheckpointInv
  <2>1. logged \in [frames : 0..MaxFrames, done : BOOLEAN] /\ logged.frames = 0 /\ ~logged.done
    BY CallbacksBoundsAssumption DEF Init, NoCommit
  <2>2. auto \in 0..Never /\ ~attached
    BY ThresholdsAssumption DEF Init, attached
  <2>3. ~(auto > 0 /\ logged.frames >= auto)
    BY <2>1, <2>2, CallbacksBoundsAssumption DEF Never
  <2>. QED
    BY <2>1, <2>2, <2>3 DEF CheckpointInv, CheckpointsAsBefore
<1>. QED
  BY <1>1, <1>2, <1>3, <1>4, <1>5, <1>6, <1>7, Parts, DecisionsParts DEF RestInv

\* What SQLite was told stays what was asked for.
LEMMA DecisionsNext ==
  ASSUME DecisionsInv, Next
  PROVE  DecisionsInv'
<1>1. errors \in BOOLEAN /\ noBusyDecision \in BOOLEAN
  BY DEF DecisionsInv, DecisionsTypeOK
<1>2. CASE UNCHANGED decisions
  BY <1>1, <1>2, QuietStep DEF decisions
<1>3. ASSUME NEW kind \in EventKinds, Fire(kind) \/ NestedFire(kind) PROVE DecisionsInv'
  BY <1>3, DeliverStep, NestedStep DEF Fire, NestedFire
<1>4. CASE Listen \/ \E n \in Names : Provide(n)
  BY <1>4, DecisionStepInv, SayStep DEF Listen, Provide
<1>5. CASE Dispose \/ Close
  <2>1. UNCHANGED decisions \/ Detach
    BY <1>5 DEF Dispose, Close
  <2>2. ASSUME Detach PROVE DecisionsInv'
    BY <1>1, <2>2, QuietStep DEF Detach
  <2>. QED
    BY <1>2, <2>1, <2>2
<1>6. CASE BeginCall \/ \E n \in 0..MaxFrames : Commit(n)
  BY <1>1, <1>6, QuietStep DEF BeginCall, Commit
<1>7. CASE EndCall
  BY <1>1, <1>7, QuietStep DEF EndCall, Flush
<1>8. CASE CheckHooks
  <2>1. errors' \in BOOLEAN
    BY <1>1, <1>8 DEF CheckHooks, Flush
  <2>. QED
    BY <1>8, <2>1, QuietStep DEF CheckHooks
<1>9. CASE StopStepping \/ Drain \/ Drained \/ \E hook \in Detectable, holder \in Holders : Take(hook, holder)
  BY <1>2, <1>9 DEF StopStepping, Drain, Drained, Take
<1>10. ASSUME NEW build \in Builds, NEW r \in Requests,
              Attach(build, r) \/ \E same \in BOOLEAN : AttachRefused(build, r, same)
       PROVE  DecisionsInv'
  BY <1>2, <1>10 DEF Attach, AttachRefused
<1>. QED
  BY <1>3, <1>4, <1>5, <1>6, <1>7, <1>8, <1>9, <1>10 DEF Next

\* The hooks and the registration.
LEMMA RestNext ==
  ASSUME RestInv, Next
  PROVE  RestInv'
<1>1. ASSUME NEW build \in Builds, NEW r \in Requests,
             Attach(build, r) \/ \E same \in BOOLEAN : AttachRefused(build, r, same)
      PROVE  RestInv'
  BY <1>1, AttachStep, AttachRefusedStep
<1>2. CASE Dispose \/ Close
  BY <1>2, EndStep
<1>3. ASSUME NEW hook \in Detectable, NEW holder \in Holders, Take(hook, holder) PROVE RestInv'
  BY <1>3, TakeStep
<1>4. CASE BeginCall
  BY <1>4, BeginCallStep
<1>5. CASE EndCall \/ StopStepping \/ Drain \/ Drained
  BY <1>5, StackStep
<1>6. CASE CheckHooks
  BY <1>6, CheckHooksStep
<1>7. ASSUME NEW kind \in EventKinds, Fire(kind) \/ NestedFire(kind) PROVE RestInv'
  BY <1>7, FireStep
<1>8. CASE Listen
  BY <1>8, ListenStep
<1>9. ASSUME NEW n \in Names, Provide(n) PROVE RestInv'
  BY <1>9, ProvideStep
<1>10. ASSUME NEW n \in 0..MaxFrames, Commit(n) PROVE RestInv'
  BY <1>10, CommitStep
<1>. QED
  BY <1>1, <1>2, <1>3, <1>4, <1>5, <1>6, <1>7, <1>8, <1>9, <1>10 DEF Next

\* A step that changes nothing.
LEMMA StutterStep == ASSUME RestInv, DecisionsInv, UNCHANGED vars PROVE RestInv' /\ DecisionsInv'
<1>1. UNCHANGED <<decisions, callbacks, registration, detection, connection, frames>>
  BY DEF vars
<1>2. RestInv'
  BY <1>1, EventStep DEF decisions, inHook
<1>3. errors \in BOOLEAN
  BY DEF DecisionsInv, DecisionsTypeOK
<1>. QED
  BY <1>1, <1>2, <1>3, QuietStep DEF decisions

\* So the invariant holds in every state that is reached.
LEMMA Inductive == Spec => []IInv
<1>1. IInv /\ [Next]_vars => IInv'
  BY Parts, PartsNext, DecisionsNext, RestNext, StutterStep
<1>. QED
  BY InitInv, <1>1, PTL DEF Spec

\* The variables of Callbacks have the values the code gives them; in particular a
\* registration that ended leaves no library, no comparator and no threshold
\* allocated, and one callback at most, that of collation needed (detach).
THEOREM TypeCorrect == Spec => []TypeOK
<1>1. IInv => TypeOK
  BY DEF IInv
<1>. QED
  BY Inductive, <1>1, PTL

\* SQLite holds no callback that was freed: detach() unregisters every hook it
\* installed, also one that another took, and of the comparators only those remain
\* that SQLite keeps while a statement is half way.
THEOREM DanglingCorrect == Spec => []NoDanglingCallback
<1>1. IInv => NoDanglingCallback
  BY DEF IInv, RegistrationInv, NoDanglingCallback
<1>. QED
  BY Inductive, <1>1, PTL

\* SQLite is told what the listeners asked for while the event lasted, for any
\* number of listeners and of calls (the handlers of hooks.ts).
THEOREM VerdictsCorrect == Spec => []VerdictsFollowCalls
<1>1. IInv => VerdictsFollowCalls
  BY DEF IInv, DecisionsInv
<1>. QED
  BY Inductive, <1>1, PTL

\* drain() reports the WAL hook and the busy handler that a pragma replaced at the
\* next commit and the trace callback another took at the second, and no others
\* but the trace callback where the WAL hook is not checked (checkHooks).
THEOREM DisplacementCorrect == Spec => []DisplacementIsReported
<1>1. IInv => DisplacementIsReported
  BY DEF IInv, DetectionInv
<1>. QED
  BY Inductive, <1>1, PTL

\* Attaching with the default options keeps the checkpoints SQLite made: the
\* threshold is read before the WAL hook is installed (attach).
THEOREM CheckpointsCorrect == Spec => []CheckpointsAsBefore
<1>1. IInv => CheckpointsAsBefore
  BY DEF IInv, CheckpointInv
<1>. QED
  BY Inductive, <1>1, PTL
=============================================================================
