----------------------------- MODULE Lifecycle -----------------------------
(***************************************************************************)
(* src/hooks.ts: how registrations come and go.  withEvents makes one      *)
(* registration per connection, further calls join it, the last dispose()  *)
(* or a close() ends it; in between the driver's methods are wrapped so    *)
(* that none is used inside a hook or on a closed connection.              *)
(*                                                                         *)
(* A wrapper guards, counts and drains for the registration it was made    *)
(* by.  Those on the Database are put back when its registration ends,     *)
(* those on its statements never are, and iter() is wrapped once for all   *)
(* connections, on the prototype they share.                               *)
(*                                                                         *)
(* `stack' holds what is under way, innermost last: driver calls,          *)
(* dispatches of an event from a hook or from JavaScript, and close().     *)
(* What the events say, and in what order they come, is TxEvents.          *)
(***************************************************************************)
EXTENDS Naturals, Sequences, FiniteSets

CONSTANTS
  Conns,
  Listeners,
  NoReg, NoConn,
  Programs,  \* the sets of uses a program may make of the library, see below
  MaxRegs,   \* bound: registrations made in a behaviour
  MaxNest    \* bound: frames on the stack

\* The documented use of the library is {}.  "old": the program uses statements
\* prepared under an earlier registration.  "before": it uses statements prepared
\* without one.  "nested": it makes a registration inside a call.  "closed": it
\* iterates a statement whose connection was closed with its wrappers on.
AllUses == {"old", "before", "nested", "closed"}

Regs == 1..MaxRegs

ASSUME ConnAssumption == NoConn \notin Conns
ASSUME RegAssumption == MaxRegs \in Nat /\ NoReg \notin Regs
ASSUME UseAssumption == Programs \subseteq SUBSET AllUses
ASSUME NestAssumption == MaxNest \in Nat

VARIABLES
  \* the driver and SQLite
  open,       \* connections not closed
  native,     \* per connection, whose callbacks SQLite calls
  \* the map of registrations, and what they patched
  regOf,      \* registrationOf
  wrappers,   \* per connection, whose wrappers its methods are
  statements, \* <<connection, whose wrapper the statement has>>
  iterDepth, iterPatched,
  \* one entry per registration
  made,       \* registrations made so far
  connOf, listeners, inHook, inListener, torn, closed, detached,
  stashed,    \* registrations with a batch awaiting the drain
  \* the program
  uses,       \* what it does; never changes
  subs,       \* <<registration, listener>> of each subscription not disposed
  stack

driver == <<open, native>>
patches == <<regOf, wrappers, statements, iterDepth, iterPatched>>
flags == <<inHook, inListener, stashed>>
registrations == <<made, connOf, listeners, torn, closed, detached>>
program == <<uses, subs>>
vars == <<driver, patches, flags, registrations, program, stack>>

\* A call runs, then drains.  A dispatch remembers inListener as it found it;
\* `lands' says that it is a precommit that lets the commit through.
Frames == [kind : {"call", "hook", "event", "close"}, conn : Conns,
           reg : Regs \union {NoReg}, draining : BOOLEAN,
           outer : BOOLEAN, lands : BOOLEAN]
Frame(kind, c, r) ==
  [kind |-> kind, conn |-> c, reg |-> r, draining |-> FALSE,
   outer |-> r # NoReg /\ inListener[r], lands |-> FALSE]

Top == stack[Len(stack)]
Rest == SubSeq(stack, 1, Len(stack) - 1)
HasRoom == Len(stack) < MaxNest

\* The program's own code: outside any call, in a transaction body or a
\* function called by SQL, in a listener.
ProgramRuns ==
  /\ HasRoom
  /\ stack # <<>> => \/ Top.kind \in {"hook", "event"}
                     \/ Top.kind = "call" /\ ~Top.draining

-----------------------------------------------------------------------------
(* Guards and driver calls.                                                *)

RefusesInHookOnly(r) == r # NoReg /\ inHook[r]
\* refuseFromHook.
Refuses(r) == r # NoReg /\ (closed[r] \/ inHook[r])

Call(c, r) ==
  /\ stack' = Append(stack, Frame("call", c, r))
  /\ UNCHANGED <<driver, patches, flags, registrations, program>>

\* db.exec(), db.run(), a function made by db.transaction().
UseConnection(c) ==
  /\ ProgramRuns /\ c \in open /\ ~Refuses(wrappers[c])
  /\ Call(c, wrappers[c])

\* stmt.run() and the like.  The driver does not check that the connection is
\* open.
UseStatement(c, r) ==
  /\ ProgramRuns /\ <<c, r>> \in statements /\ ~Refuses(r)
  /\ r # wrappers[c] => IF r = NoReg THEN "before" \in uses ELSE "old" \in uses
  /\ r = NoReg => c \in open
  /\ Call(c, r)

\* The wrapper on the prototype asks which registration the connection has.
IterRefuses(c) == iterPatched /\ Refuses(regOf[c])
Iterate(c) ==
  /\ ProgramRuns /\ \E r \in Regs \union {NoReg} : <<c, r>> \in statements
  /\ c \notin open => "closed" \in uses /\ wrappers[c] # NoReg
  /\ ~IterRefuses(c)
  /\ Call(c, NoReg)

\* The program keeps the statement it prepared last on each connection.
Prepare(c) ==
  /\ ProgramRuns /\ c \in open /\ ~Refuses(wrappers[c])
  /\ <<c, wrappers[c]>> \notin statements
  /\ statements' = {s \in statements : s[1] # c} \union {<<c, wrappers[c]>>}
  /\ UNCHANGED <<driver, regOf, wrappers, iterDepth, iterPatched, flags,
                 registrations, program, stack>>

-----------------------------------------------------------------------------
(* Hooks, dispatches and the drain.                                        *)

\* A callback of SQLite during a call.  inFfi drops the event, and refuses a
\* commit, when a hook is already running: no state of this module changes.
\* Commits made by stepping what iter() returned are TxEvents' concern.
Hook(lands) ==
  /\ stack # <<>> /\ Top.kind = "call" /\ ~Top.draining /\ HasRoom
  /\ Top.conn \in open
  /\ lands => Top.reg # NoReg \/ "before" \in uses
  /\ LET r == native[Top.conn] IN
       /\ r # NoReg /\ ~inHook[r]
       /\ inHook' = [inHook EXCEPT ![r] = TRUE]
       /\ inListener' = [inListener EXCEPT ![r] = TRUE]
       /\ stack' = Append(stack, [Frame("hook", Top.conn, r) EXCEPT !.lands = lands])
  /\ UNCHANGED <<driver, patches, registrations, program, stashed>>

\* Mutant: a dispatch leaves no listener running, also inside another one.
RestoreListenerNever(r) == inListener' = [inListener EXCEPT ![r] = FALSE]
RestoreListener(r) == inListener' = [inListener EXCEPT ![r] = Top.outer]

HookReturns ==
  /\ stack # <<>> /\ Top.kind = "hook"
  /\ inHook' = [inHook EXCEPT ![Top.reg] = FALSE]
  /\ RestoreListener(Top.reg)
  /\ stashed' = IF Top.lands THEN stashed \union {Top.reg} ELSE stashed
  /\ stack' = Rest
  /\ UNCHANGED <<driver, patches, registrations, program>>

EventReturns ==
  /\ stack # <<>> /\ Top.kind = "event"
  /\ RestoreListener(Top.reg)
  /\ stack' = Rest
  /\ UNCHANGED <<driver, patches, registrations, program, inHook, stashed>>

Running(r) ==
  Cardinality({i \in DOMAIN stack : /\ stack[i].kind = "call" /\ stack[i].reg = r
                                    /\ ~stack[i].draining})

\* Mutant: the drain is left to whoever calls next.
DrainsNever(r) == FALSE
\* The wrapper drains for its own registration, at the outermost of its calls.
Drains(r) == r # NoReg /\ Running(r) = 1 /\ ~detached[r] /\ ~closed[r]

EndCall ==
  /\ stack # <<>> /\ Top.kind = "call" /\ ~Top.draining
  /\ stack' = IF Drains(Top.reg) THEN Append(Rest, [Top EXCEPT !.draining = TRUE])
              ELSE Rest
  /\ UNCHANGED <<driver, patches, flags, registrations, program>>

Draining == stack # <<>> /\ (Top.draining \/ Top.kind = "close")

\* Dispatch of an event from JavaScript.
DispatchFor(r) ==
  /\ HasRoom
  /\ inListener' = [inListener EXCEPT ![r] = TRUE]
  /\ stack' = Append(stack, Frame("event", connOf[r], r))

DrainBatch ==
  /\ Draining /\ Top.reg \in stashed
  /\ DispatchFor(Top.reg)
  /\ stashed' = stashed \ {Top.reg}
  /\ UNCHANGED <<driver, patches, registrations, program, inHook>>

FinishDrain ==
  /\ stack # <<>> /\ Top.draining /\ Top.reg \notin stashed
  /\ stack' = Rest
  /\ UNCHANGED <<driver, patches, flags, registrations, program>>

-----------------------------------------------------------------------------
(* Attaching, joining, disposing, closing.                                 *)

\* The methods of a connection are wrapped for its registration, iter() once
\* for the process.
PatchIter == iterDepth' = iterDepth + 1 /\ iterPatched' = TRUE
Wrap(c, r) == wrappers' = [wrappers EXCEPT ![c] = r] /\ PatchIter

\* withEvents on a connection without hooks.
Attach(c, listener) ==
  /\ ProgramRuns /\ c \in open /\ regOf[c] = NoReg
  /\ made < MaxRegs
  /\ stack = <<>> \/ "nested" \in uses
  /\ LET r == made + 1 IN
       /\ made' = r
       /\ connOf' = [connOf EXCEPT ![r] = c]
       /\ listeners' = [listeners EXCEPT ![r] = {listener}]
       /\ native' = [native EXCEPT ![c] = r]
       /\ regOf' = [regOf EXCEPT ![c] = r]
       /\ Wrap(c, r)
       /\ subs' = subs \union {<<r, listener>>}
  /\ UNCHANGED <<open, statements, flags, torn, closed, detached, uses,
                 stack>>

Join(c, listener) ==
  /\ ProgramRuns /\ c \in open /\ regOf[c] # NoReg
  /\ LET r == regOf[c] IN
       /\ ~closed[r] /\ ~detached[r] /\ listener \notin listeners[r]
       /\ listeners' = [listeners EXCEPT ![r] = @ \union {listener}]
       /\ subs' = subs \union {<<r, listener>>}
  /\ UNCHANGED <<driver, patches, flags, made, connOf, torn, closed, detached,
                 uses, stack>>

Teardown(r) ==
  /\ torn' = [torn EXCEPT ![r] = TRUE]
  /\ native' = IF torn[r] THEN native ELSE [native EXCEPT ![connOf[r]] = NoReg]

\* Mutant: the patch is taken off without counting who still relies on it.
UnpatchIterAtOnce == iterDepth' = iterDepth - 1 /\ iterPatched' = FALSE
\* Mutant: the undo is listed twice and does not know that it has run.
UnpatchIterTwice == iterDepth' = iterDepth - 2 /\ iterPatched' = (iterDepth > 2)
UnpatchIter == iterDepth' = iterDepth - 1 /\ iterPatched' = (iterDepth > 1)

\* detach runs every undo, once.
Detach(r) ==
  IF detached[r] THEN UNCHANGED <<detached, wrappers, iterDepth, iterPatched>>
  ELSE /\ detached' = [detached EXCEPT ![r] = TRUE]
       /\ wrappers' = [wrappers EXCEPT ![connOf[r]] = NoReg]
       /\ UnpatchIter

\* Mutant: dispose() does not know that it was called before.
StillSubscribedAlways(r, listener) == r <= made
StillSubscribed(r, listener) == <<r, listener>> \in subs

Dispose(r, listener) ==
  /\ ProgramRuns /\ StillSubscribed(r, listener) /\ ~inListener[r]
  /\ subs' = subs \ {<<r, listener>>}
  /\ listeners' = [listeners EXCEPT ![r] = @ \ {listener}]
  /\ IF listeners'[r] # {}
     THEN UNCHANGED <<native, torn, regOf, detached, wrappers, iterDepth, iterPatched>>
     ELSE /\ Teardown(r)
          /\ IF closed[r] THEN UNCHANGED <<detached, wrappers, iterDepth, iterPatched>>
             ELSE Detach(r)
          /\ regOf' = [regOf EXCEPT ![connOf[r]] = NoReg]
  /\ UNCHANGED <<open, statements, flags, made, connOf, closed, uses,
                 stack>>

\* The patched close(): it drains, and reports an open transaction as rolled
\* back, before anything is torn down.
BeginClose(c) ==
  /\ ProgramRuns /\ wrappers[c] # NoReg
  /\ ~closed[wrappers[c]] /\ ~inListener[wrappers[c]]
  /\ stack' = Append(stack, Frame("close", c, wrappers[c]))
  /\ UNCHANGED <<driver, patches, flags, registrations, program>>

\* `lands' records that the transaction open at close() was reported.
CloseDiscards ==
  /\ stack # <<>> /\ Top.kind = "close" /\ Top.reg \notin stashed /\ ~Top.lands
  /\ HasRoom
  /\ inListener' = [inListener EXCEPT ![Top.reg] = TRUE]
  /\ stack' = Append(Append(Rest, [Top EXCEPT !.lands = TRUE]),
                     Frame("event", Top.conn, Top.reg))
  /\ UNCHANGED <<driver, patches, registrations, program, inHook, stashed>>

CloseTeardown(r) == Teardown(r)

FinishClose ==
  /\ stack # <<>> /\ Top.kind = "close"
  /\ Top.reg \notin stashed \/ Top.lands
  /\ CloseTeardown(Top.reg)
  /\ closed' = [closed EXCEPT ![Top.reg] = TRUE]
  /\ open' = open \ {Top.conn}
  /\ regOf' = [regOf EXCEPT ![Top.conn] = NoReg]
  /\ stack' = Rest
  /\ UNCHANGED <<wrappers, statements, iterDepth, iterPatched, flags, made,
                 connOf, listeners, detached, program>>

\* close() of a connection without wrappers.
DriverClose(c) ==
  /\ ProgramRuns /\ c \in open /\ wrappers[c] = NoReg
  /\ open' = open \ {c}
  /\ UNCHANGED <<native, patches, flags, registrations, program, stack>>

-----------------------------------------------------------------------------
Init ==
  /\ open = Conns
  /\ native = [c \in Conns |-> NoReg]
  /\ regOf = [c \in Conns |-> NoReg]
  /\ wrappers = [c \in Conns |-> NoReg]
  /\ statements = {} /\ iterDepth = 0 /\ iterPatched = FALSE
  /\ made = 0
  /\ connOf = [r \in Regs |-> NoConn]
  /\ listeners = [r \in Regs |-> {}]
  /\ inHook = [r \in Regs |-> FALSE] /\ inListener = [r \in Regs |-> FALSE]
  /\ torn = [r \in Regs |-> FALSE] /\ closed = [r \in Regs |-> FALSE]
  /\ detached = [r \in Regs |-> FALSE]
  /\ uses \in Programs
  /\ stashed = {} /\ subs = {}
  /\ stack = <<>>

CallStep ==
  \/ \E c \in Conns : UseConnection(c) \/ Iterate(c) \/ Prepare(c)
  \/ \E c \in Conns, r \in Regs \union {NoReg} : UseStatement(c, r)

EventStep ==
  \/ \E lands \in BOOLEAN : Hook(lands)
  \/ HookReturns
  \/ EventReturns
  \/ EndCall
  \/ DrainBatch
  \/ FinishDrain

RegistrationStep ==
  \/ \E c \in Conns, listener \in Listeners : Attach(c, listener) \/ Join(c, listener)
  \/ \E r \in Regs, listener \in Listeners : Dispose(r, listener)
  \/ \E c \in Conns : BeginClose(c) \/ DriverClose(c)
  \/ CloseDiscards
  \/ FinishClose

Next == CallStep \/ EventStep \/ RegistrationStep

Spec == Init /\ [][Next]_vars

-----------------------------------------------------------------------------
(* Properties.                                                             *)

TypeOK ==
  /\ open \subseteq Conns
  /\ native \in [Conns -> Regs \union {NoReg}]
  /\ regOf \in [Conns -> Regs \union {NoReg}]
  /\ wrappers \in [Conns -> Regs \union {NoReg}]
  /\ statements \subseteq Conns \X (Regs \union {NoReg})
  /\ iterDepth \in Nat /\ iterPatched \in BOOLEAN
  /\ made \in 0..MaxRegs
  /\ connOf \in [Regs -> Conns \union {NoConn}]
  /\ listeners \in [Regs -> SUBSET Listeners]
  /\ inHook \in [Regs -> BOOLEAN] /\ inListener \in [Regs -> BOOLEAN]
  /\ torn \in [Regs -> BOOLEAN] /\ closed \in [Regs -> BOOLEAN]
  /\ detached \in [Regs -> BOOLEAN]
  /\ stashed \subseteq Regs /\ uses \in Programs
  /\ subs \subseteq Regs \X Listeners
  /\ stack \in Seq(Frames)

Dispatching(r) == \E i \in DOMAIN stack :
                    stack[i].kind \in {"hook", "event"} /\ stack[i].reg = r

\* "dispose() cannot be called from inside a listener - closing a callback that
\* is on the stack segfaults": while a listener of a registration runs, however
\* deep, its hooks stay installed and its connection stays open.  "The callbacks
\* must not outlive the connection" (close): at any other time they end with it.
HooksEndWithConnection == \A c \in Conns : native[c] # NoReg => c \in open
NothingTornUnderListener ==
  /\ HooksEndWithConnection
  /\ \A r \in Regs : Dispatching(r) => native[connOf[r]] = r /\ connOf[r] \in open

\* "nothing that STEPS a statement, from inside a hook" (patchStatementIter):
\* above a hook of a connection there is no call on that connection.  The guards
\* know the registration that made the wrapper, and only that one.
NothingStepsInHook ==
  uses \intersect {"old", "before"} = {} =>
    \A i, j \in DOMAIN stack :
      i < j /\ stack[i].kind = "hook" /\ stack[j].kind = "call"
        => stack[i].conn # stack[j].conn

\* "from here they throw instead of handing a freed pointer to the C API"
\* (close): no call starts on a closed connection, when neither iter() is used there
\* nor a statement of an earlier registration, whose wrappers that was not told.
NothingStepsClosed ==
  [][(/\ uses \intersect {"closed", "old"} = {}
      /\ Len(stack') > Len(stack) /\ stack'[Len(stack')].kind = "call")
       => stack'[Len(stack')].conn \in open]_vars

\* A subscription that is not disposed is served as long as its connection is
\* open: its listener is in the set that is dispatched to, SQLite calls that
\* registration and the methods of the connection drain for it.
SubscriptionsAreServed ==
  \A r \in Regs, listener \in Listeners :
    LET c == connOf[r] IN
    <<r, listener>> \in subs /\ c \in open =>
      /\ native[c] = r /\ regOf[c] = r /\ wrappers[c] = r
      /\ listener \in listeners[r]

\* "so `postcommit` lands right after the call that caused it, rather than at
\* some later checkpoint" (attach): between calls nothing awaits the drain, when
\* the call that committed was wrapped by the registration in force.
PostcommitIsPrompt ==
  uses \intersect {"old", "before", "nested"} = {} /\ stack = <<>>
    => \A r \in stashed : torn[r]

-----------------------------------------------------------------------------
(* The inductive invariant behind them.                                    *)

\* A registration is live until its last dispose() or the close() of its
\* connection: what is patched on the connection is its own.
Live(r) ==
  /\ r \in 1..made /\ ~torn[r] /\ ~closed[r] /\ ~detached[r] /\ listeners[r] # {}
  /\ connOf[r] \in open
  /\ native[connOf[r]] = r /\ regOf[connOf[r]] = r /\ wrappers[connOf[r]] = r

LiveRegs == {r \in Regs : Live(r)}
Closed(r) == torn[r] /\ closed[r] /\ connOf[r] \in Conns \ open
Disposed(r) == torn[r] /\ detached[r] /\ ~closed[r] /\ listeners[r] = {} /\ connOf[r] \in Conns

\* Each registration is in one of these states, an open connection has the
\* callbacks and the wrappers of a live one or none, and a closed connection keeps
\* at most the wrappers of the registration that was closed.
RegistrationInv ==
  /\ \A r \in Regs : /\ r \in 1..made => Live(r) \/ Closed(r) \/ Disposed(r)
                     /\ r \notin 1..made => listeners[r] = {} /\ ~torn[r] /\ ~closed[r] /\ ~detached[r]
  /\ \A r \in Regs, listener \in Listeners :
        <<r, listener>> \in subs <=> listener \in listeners[r]
  /\ \A c \in Conns :
        IF c \in open
        THEN /\ native[c] = wrappers[c] /\ regOf[c] = wrappers[c]
             /\ wrappers[c] # NoReg => wrappers[c] \in LiveRegs /\ connOf[wrappers[c]] = c
        ELSE /\ native[c] = NoReg /\ regOf[c] = NoReg
             /\ wrappers[c] # NoReg => wrappers[c] \in 1..made /\ closed[wrappers[c]]
  /\ \A s \in statements : s[2] \in 1..made \union {NoReg}

\* iter() stays wrapped while somebody's undo has not run.
IterInv ==
  /\ iterDepth = Cardinality({r \in 1..made : ~detached[r]})
  /\ iterPatched <=> iterDepth > 0

Dispatches(frame) == frame.kind \in {"hook", "event"}
\* What drains for a registration, and so dispatches to it next.
Serves(frame) == frame.kind = "close" \/ frame.draining

\* A listener runs, a call drains and a connection closes for a live registration
\* only; what serves one is on top or just below a dispatch to it; and a close()
\* has no listener of its registration below it.
StackInv ==
  /\ \A i \in DOMAIN stack :
        /\ stack[i].reg \in 1..made \union {NoReg}
        /\ stack[i].draining => stack[i].kind = "call"
        /\ Dispatches(stack[i]) \/ Serves(stack[i]) => stack[i].reg \in LiveRegs
        /\ stack[i].kind \in {"hook", "close"} => stack[i].conn = connOf[stack[i].reg]
        /\ Serves(stack[i]) /\ i < Len(stack)
             => Dispatches(stack[i + 1]) /\ stack[i + 1].reg = stack[i].reg
  /\ \A i, j \in DOMAIN stack :
        j < i /\ stack[i].kind = "close" /\ Dispatches(stack[j]) => stack[j].reg # stack[i].reg

\* The two flags of a registration say which of its dispatches are under way, and
\* `outer' what the flag was below.
FlagInv ==
  /\ \A r \in Regs : inListener[r] <=> Dispatching(r)
  /\ \A r \in Regs : inHook[r] <=> \E i \in DOMAIN stack : stack[i].kind = "hook" /\ stack[i].reg = r
  /\ \A i \in DOMAIN stack : Dispatches(stack[i]) =>
        (stack[i].outer <=> \E j \in DOMAIN stack : j < i /\ Dispatches(stack[j])
                                                        /\ stack[j].reg = stack[i].reg)
  /\ \A i, j \in DOMAIN stack :
        stack[i].kind = "hook" /\ stack[j].kind = "hook" /\ stack[i].reg = stack[j].reg => i = j

\* Without the uses that mix registrations a call drains for the one SQLite calls
\* back during it, so that what was stashed has a call or a close() to drain it.
PromptInv ==
  uses \intersect {"old", "before", "nested"} = {} =>
    /\ \A i \in DOMAIN stack : stack[i].kind = "call" /\ stack[i].reg # NoReg
                                 => native[stack[i].conn] \in {stack[i].reg, NoReg}
    /\ \A i \in DOMAIN stack : stack[i].kind = "hook" /\ stack[i].lands =>
         \E j \in DOMAIN stack : j < i /\ stack[j].kind = "call" /\ stack[j].reg = stack[i].reg
    /\ \A r \in stashed : torn[r] \/ \E i \in DOMAIN stack :
                             stack[i].kind \in {"call", "close"} /\ stack[i].reg = r

IInv ==
  /\ TypeOK /\ RegistrationInv /\ IterInv /\ StackInv /\ FlagInv /\ NothingStepsInHook /\ PromptInv

=============================================================================
