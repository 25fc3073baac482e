----------------------------- MODULE Decisions -----------------------------
(* src/hooks.ts: the handlers whose answer goes back to SQLite.  One event at  *)
(* a time is offered to the listeners in turn; they call the functions it      *)
(* carries, or keep them and call them when it is over.                        *)
EXTENDS Naturals, Sequences

CONSTANTS N,          \* listeners
          MaxCalls    \* calls made on one event

ASSUME ListenersAssumption == N \in Nat /\ MaxCalls \in Nat

VARIABLES event,      \* the event being dispatched, or NoEvent
          answered,   \* the last answer SQLite was given, with the calls behind it
          kept,       \* the kind of event whose functions a listener has kept
          errors,     \* something waits for flush()
          noBusyDecision

decisions == <<event, answered, kept, errors, noBusyDecision>>

EventKinds == {"precommit", "authorize", "busy", "progress", "collation", "plain"}

\* The functions an event carries; for precommit what a listener returns.
Says(kind) ==
    CASE kind = "precommit" -> {"false"}
      [] kind = "authorize" -> {"deny", "ignore"}
      [] kind = "busy"      -> {"retry", "giveUp"}
      [] kind = "progress"  -> {"abort"}
      [] kind = "collation" -> {"provide"}
      [] OTHER -> {}

HasFunctions == {"authorize", "busy", "progress", "collation"}

\* What SQLite is told when no listener says anything.
Default(kind) ==
    CASE kind = "authorize" -> "ok"
      [] kind = "busy"      -> "giveUp"
      [] kind = "progress"  -> "continue"
      [] OTHER -> "none"

\* What SQLite is told when the handler fails: a commit is refused, anything
\* else has its default.
Fallback(kind) == IF kind = "precommit" THEN "false" ELSE Default(kind)

NoEvent == [kind |-> "none", at |-> 0, settled |-> "", verdict |-> "none", calls |-> <<>>]
NewEvent(kind) ==
    [kind |-> kind, at |-> 1, settled |-> "", verdict |-> Default(kind), calls |-> <<>>]
NoAnswer == [kind |-> "none", verdict |-> "none", calls |-> <<>>, nested |-> FALSE]

DecisionsTypeOK ==
    /\ event.kind \in EventKinds \cup {"none"} /\ event.at \in 0..(N + 1)
    /\ event.verdict \in {"none"} \cup {Default(k) : k \in EventKinds}
                           \cup UNION {Says(k) : k \in EventKinds}
    /\ answered.kind \in EventKinds \cup {"none"} /\ answered.nested \in BOOLEAN
    /\ kept \in HasFunctions \cup {"none"}
    /\ {errors, noBusyDecision} \subseteq BOOLEAN

inHook == event # NoEvent
Raise == errors' = TRUE

-----------------------------------------------------------------------------

\* inFfi and dispatch: the handler starts.
Deliver(kind) ==
    /\ ~inHook /\ kind \in EventKinds
    /\ event' = NewEvent(kind) /\ answered' = NoAnswer
    /\ UNCHANGED <<kept, errors, noBusyDecision>>

\* A hook inside a hook, reached around the wrappers, is not dispatched.
Nested(kind) ==
    /\ inHook /\ event.at \in 1..N
    /\ answered' = [kind |-> kind, verdict |-> Fallback(kind), calls |-> <<>>, nested |-> TRUE]
    /\ Raise
    /\ UNCHANGED <<event, kept, noBusyDecision>>

\* The first call settles an authorize or a collation event, the last one a
\* busy event; one abort is enough.
Settles(say) == event.kind \in {"authorize", "collation"} => event.settled = ""

Say(say) ==
    /\ event.at \in 1..N /\ Len(event.calls) < MaxCalls
    /\ say \in Says(event.kind)
    /\ event' = [event EXCEPT !.calls = Append(@, say),
                              !.settled = IF Settles(say) THEN say ELSE @,
                              !.verdict = IF Settles(say) THEN say ELSE @]
    /\ IF Settles(say) THEN UNCHANGED errors ELSE Raise
    /\ UNCHANGED <<answered, kept, noBusyDecision>>

ListenerReturns ==
    /\ event.at \in 1..N
    /\ event' = [event EXCEPT !.at = @ + 1]
    /\ UNCHANGED <<answered, kept, errors, noBusyDecision>>

\* A listener throws, or returns a promise from a precommit: no consent.
ListenerThrows ==
    /\ event.at \in 1..N
    /\ event' = [event EXCEPT !.at = @ + 1,
                              !.calls = IF event.kind = "precommit" THEN Append(@, "false") ELSE @,
                              !.verdict = IF event.kind = "precommit" THEN "false" ELSE @]
    /\ Raise
    /\ UNCHANGED <<answered, kept, noBusyDecision>>

\* A function kept from an event that is over, called at any time, also while a
\* later event of the same kind is dispatched.
\* Mutant: it is taken for a call on that event.
LateSettles(kind) ==
    /\ kind = kept
    /\ IF event.kind = kind
          THEN \E say \in Says(kind) : event' = [event EXCEPT !.settled = say, !.verdict = say]
          ELSE UNCHANGED event
    /\ Raise
    /\ UNCHANGED <<answered, kept, noBusyDecision>>
Late(kind) ==
    /\ kind = kept
    /\ Raise
    /\ UNCHANGED <<event, answered, kept, noBusyDecision>>

\* Every listener was asked: the handler answers.  A listener may have kept the
\* event's functions.
Undecided == event.kind = "busy" /\ event.settled = "" /\ ~noBusyDecision
Return ==
    /\ event.at = N + 1
    /\ event' = NoEvent
    /\ answered' = [kind |-> event.kind, verdict |-> event.verdict, calls |-> event.calls,
                    nested |-> FALSE]
    /\ noBusyDecision' = (noBusyDecision \/ Undecided)
    /\ errors' = (errors \/ Undecided \/ event.verdict = "abort")
    /\ \/ UNCHANGED kept
       \/ event.kind \in HasFunctions /\ kept' = event.kind

DecisionsInit ==
    /\ event = NoEvent /\ answered = NoAnswer /\ kept = "none" /\ errors = FALSE
    /\ noBusyDecision = FALSE

DecisionStep ==
    \/ \E kind \in HasFunctions : Late(kind)
    \/ \E say \in {"false", "deny", "ignore", "retry", "giveUp", "abort", "provide"} : Say(say)
    \/ ListenerReturns \/ ListenerThrows \/ Return

-----------------------------------------------------------------------------

\* What a sequence of calls made on an event, while it lasted, asks for.
Asked(kind, calls) ==
    CASE calls = <<>> -> Default(kind)
      [] calls # <<>> /\ kind \in {"authorize", "collation"} -> Head(calls)
      [] OTHER -> calls[Len(calls)]

\* SQLite is told what the listeners asked for while the event lasted, whatever
\* they keep, throw or call twice, and a hook inside a hook refuses a commit and
\* decides nothing else (hooks.ts:1654, 1678, 1795).
VerdictsFollowCalls ==
    answered.kind # "none" =>
      answered.verdict = IF answered.nested THEN Fallback(answered.kind)
                                            ELSE Asked(answered.kind, answered.calls)

-----------------------------------------------------------------------------
(* The inductive invariant behind it.                                          *)

Sayings == UNION {Says(kind) : kind \in EventKinds}
EventRecords ==
    [kind : EventKinds \cup {"none"}, at : 0..(N + 1), settled : Sayings \cup {""},
     verdict : {Default(kind) : kind \in EventKinds} \cup Sayings, calls : Seq(Sayings)]

\* While an event lasts its verdict is what the calls so far ask for, and the
\* events that one call settles know whether there was a call.
DecisionsInv ==
    /\ DecisionsTypeOK /\ event \in EventRecords
    /\ event.verdict = Asked(event.kind, event.calls)
    /\ event.kind \in {"authorize", "collation"} => (event.settled = "" <=> event.calls = <<>>)
    /\ event.kind = "plain" => event.calls = <<>>
    /\ VerdictsFollowCalls
=============================================================================
