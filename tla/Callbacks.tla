----------------------------- MODULE Callbacks -----------------------------
(* src/backend_ffi.ts below src/hooks.ts: which callbacks SQLite holds on one  *)
(* connection and whether they are still allocated, from withEvents to the     *)
(* last dispose() or close(); what a commit makes of the WAL hook, and what    *)
(* drain() finds out about hooks that others took.  The events SQLite fires    *)
(* through the callbacks are those of Decisions.                               *)
EXTENDS Decisions, FiniteSets, SequencesExt

CONSTANTS Builds,       \* what a library may export besides the core hooks
          Requests,     \* options a program attaches with
          Thresholds,   \* frames: PRAGMA wal_autocheckpoint, walCheckpointThreshold
          MaxFrames,    \* frames one commit leaves in the log (the bound)
          Names,        \* collating sequences
          MaxAttach,    \* registrations of a behaviour
          MaxDepth      \* calls inside postcommit listeners

Optional == {"preupdate", "wal", "trace", "progress", "busy", "authorize", "collation"}
Never == MaxFrames + 1

ASSUME CallbacksBoundsAssumption == MaxFrames \in Nat /\ MaxAttach \in Nat /\ MaxDepth \in Nat
ASSUME BuildsAssumption == Builds \subseteq SUBSET Optional
ASSUME ThresholdsAssumption == Thresholds \subseteq 0..Never
ASSUME RequestsAssumption ==
    Requests \subseteq [hooks : SUBSET (Optional \ {"preupdate", "wal"}),
                       preupdate : {"auto", "off", "required"},
                       checkpoint : {"preserve", "caller", "asked"}, asked : 0..Never,
                       valid : BOOLEAN]

VARIABLES open,         \* the connection
          slot,         \* hook -> who SQLite calls: "none"; "ours"; "freed"; "other",
                        \* SQLite's own or any trace callback; "plain", another's
          leaked,       \* collation-needed callbacks of registrations that ended
          sequence,     \* collating sequence -> "none", "ours", "freed"
          auto,         \* SQLite's own threshold, in force when slot["wal"] = "other"
          backend,      \* "none", "attached": the FFI backend and its libraries
          caps, request,
          collations,   \* the comparators the attachment owns
          threshold,    \* frames after which the WAL callback checkpoints, or Never
          before,       \* what SQLite did at attach: its threshold, 0 for none
          frames,       \* driver calls on the stack
          stepping,     \* a statement is half way between two calls
          half,         \* some registration ended while a statement was half way
          logged,       \* the last commit in WAL mode: [frames, done]
          sawStatementTrace, displaced, taken, missed, overdue, attaches

registration == <<backend, caps, request, collations, threshold, before>>
detection == <<sawStatementTrace, displaced, taken, missed, overdue>>
callbacks == <<slot, sequence, leaked>>
connection == <<open, stepping, half, auto, logged, attaches>>
vars == <<decisions, callbacks, registration, detection, connection, frames>>

Hooks == {"core"} \cup Optional
Detectable == {"wal", "trace", "busy"}
Holders == {"none", "ours", "freed", "other", "plain"}
NoRequest == [hooks |-> {}, preupdate |-> "off", checkpoint |-> "preserve", asked |-> 0,
              valid |-> TRUE]
NoCommit == [frames |-> 0, done |-> FALSE]

\* A driver call: running, or draining what it committed.
FramePhases == {"running", "committed", "draining", "checking"}

TypeOK ==
    /\ DecisionsTypeOK
    /\ {open, stepping, half, sawStatementTrace} \subseteq BOOLEAN
    /\ slot \in [Hooks -> Holders]
    /\ sequence \in [Names -> {"none", "ours", "freed"}]
    /\ auto \in Thresholds /\ before \in Thresholds \cup {0}
    /\ backend \in {"none", "attached"} /\ caps \subseteq Optional
    /\ collations \subseteq Names
    /\ threshold \in 0..Never
    /\ \A i \in DOMAIN frames : frames[i] \in FramePhases
    /\ displaced \cup taken \subseteq Detectable
    /\ missed \in 0..2 /\ overdue \subseteq Detectable /\ attaches \in 0..MaxAttach
    \* All that is left allocated of a registration that ended is the callback
    \* SQLite asked for collating sequences through: detach closes every other.
    /\ leaked \in 0..attaches
    /\ backend = "none" => collations = {} /\ caps = {} /\ threshold = Never

-----------------------------------------------------------------------------
(* withEvents, openLibrary and attach.                                         *)

attached == backend = "attached"

\* openLibrary: each optional library is opened by itself, what is missing is
\* null; the preupdate API is not looked for when it is not wanted.
Capabilities(build, r) == build \ (IF r.preupdate = "off" THEN {"preupdate"} ELSE {})

Installed(found, r) == {"core"} \cup (found \cap ({"wal", "preupdate"} \cup r.hooks))

\* A library that is not the driver's, an option out of range, or one the
\* library cannot serve: the backend is closed and nothing was installed.
Refused(build, r, sameLibrary) ==
    \/ ~sameLibrary \/ ~r.valid
    \/ r.preupdate = "required" /\ "preupdate" \notin build
    \/ ~(r.hooks \subseteq build)

\* PRAGMA wal_autocheckpoint: 0 unless SQLite's own hook is installed.
Reading(slots) == IF slots["wal"] = "other" THEN auto ELSE 0

ThresholdOf(r, build, reading) ==
    CASE "wal" \notin build \/ r.checkpoint = "caller" -> Never
      [] "wal" \in build /\ r.checkpoint = "asked" -> r.asked
      [] OTHER -> reading

Idle == open /\ frames = <<>> /\ ~inHook

\* Mutant: the pragma is read when the hook is in place.
ReadingWhenInstalled(installed) == Reading(installed)
ReadingBefore(installed) == Reading(slot)

Attach(build, r) ==
    /\ Idle /\ ~attached /\ attaches < MaxAttach
    /\ ~Refused(build, r, TRUE)
    /\ backend' = "attached" /\ caps' = Capabilities(build, r) /\ request' = r
    /\ slot' = [k \in Hooks |-> IF k \in Installed(caps', r) THEN "ours" ELSE slot[k]]
    /\ threshold' = ThresholdOf(r, build, ReadingBefore(slot')) /\ before' = Reading(slot)
    /\ attaches' = attaches + 1
    /\ UNCHANGED <<decisions, detection, sequence, leaked, collations, open, stepping,
                   half, auto, logged, frames>>

AttachRefused(build, r, sameLibrary) ==
    /\ Idle /\ ~attached /\ attaches < MaxAttach
    /\ Refused(build, r, sameLibrary)
    /\ attaches' = attaches + 1
    /\ UNCHANGED <<decisions, callbacks, registration, detection, open,
                   stepping, half, auto, logged, frames>>

-----------------------------------------------------------------------------
(* detach: unregister, then free.  SQLite keeps a collating sequence while a   *)
(* statement is half way (SQLITE_BUSY), and that result is not looked at.      *)

Top == frames[Len(frames)]
Active == stepping \/ frames # <<>>
\* Mutant: the hooks alone are unregistered.
SequencesKept == sequence
SequencesUnregistered ==
    [n \in Names |-> IF n \in collations /\ ~Active THEN "none" ELSE sequence[n]]
SlotsUnregistered == [k \in Hooks |-> IF k \in Installed(caps, request) THEN "none" ELSE slot[k]]

\* Mutant: freed, and still in the map of comparators.
CollationsLeft == collations
CollationsCleared == {}

\* close() of each callback and comparator.  That of collation needed is
\* unregistered only: it stays allocated.
Freed(holder, closed) ==
    [x \in DOMAIN holder |-> IF holder[x] = "ours" /\ x \in closed THEN "freed" ELSE holder[x]]
Detach ==
    /\ slot' = Freed(SlotsUnregistered, Hooks \ {"collation"})
    /\ sequence' = Freed(SequencesUnregistered, collations)
    /\ leaked' = IF "collation" \in Installed(caps, request) THEN leaked + 1 ELSE leaked
    /\ backend' = "none" /\ caps' = {} /\ request' = NoRequest
    /\ collations' = CollationsCleared
    /\ threshold' = Never /\ before' = 0 /\ half' = (half \/ Active)
    /\ sawStatementTrace' = FALSE /\ displaced' = {} /\ taken' = {} /\ missed' = 0 /\ overdue' = {}
    /\ noBusyDecision' = FALSE /\ errors' = FALSE /\ kept' = "none" /\ logged' = NoCommit
    /\ UNCHANGED <<event, answered>>

\* The last dispose(), outside any listener: between two calls, or in a
\* comparator, which runs outside inFfi.
InComparator == frames # <<>> /\ Top = "running" /\ \E n \in collations : sequence[n] = "ours"
Dispose ==
    /\ open /\ attached /\ ~inHook /\ (frames = <<>> \/ InComparator)
    /\ Detach
    /\ UNCHANGED <<open, stepping, auto, attaches, frames>>

\* The patched close(): detach while the handle is good, then the driver, which
\* finalizes what is half way.
Close ==
    /\ Idle /\ IF attached THEN Detach
               ELSE UNCHANGED <<decisions, callbacks, registration, detection, half, logged>>
    /\ open' = FALSE /\ stepping' = FALSE
    /\ UNCHANGED <<auto, attaches, frames>>

-----------------------------------------------------------------------------
(* Others install SQLite's own callback on this connection, by a pragma, or    *)
(* one of theirs, or none: the pragmas read 0 then, as they do of ours.        *)

Take(hook, holder) ==
    /\ Idle /\ attached /\ hook \in Detectable /\ slot[hook] = "ours"
    /\ holder \in {"other"} \cup IF hook = "trace" THEN {} ELSE {"plain"}
    /\ slot' = [slot EXCEPT ![hook] = holder]
    /\ taken' = taken \cup {hook}
    /\ missed' = IF hook = "trace" THEN 0 ELSE missed
    /\ IF hook = "wal" /\ holder = "other" THEN auto' \in Thresholds \ {0} ELSE UNCHANGED auto
    /\ UNCHANGED <<decisions, sequence, leaked, registration, sawStatementTrace, overdue,
                   displaced, open, stepping, half, logged, attaches, frames>>

-----------------------------------------------------------------------------
(* Driver calls and the events SQLite fires in them.                           *)

Moves(phase) == frames' = [frames EXCEPT ![Len(frames)] = phase]
Traced == slot["trace"] = "ours"

\* A statement starts: it is traced.
BeginCall ==
    /\ open /\ ~inHook
    /\ \/ frames = <<>>
       \/ frames # <<>> /\ Top = "draining" /\ Len(frames) < MaxDepth
    /\ frames' = Append(frames, "running")
    /\ sawStatementTrace' = (sawStatementTrace \/ Traced)
    /\ answered' = NoAnswer
    /\ logged' = NoCommit
    /\ UNCHANGED <<event, kept, errors, noBusyDecision, callbacks,
                   registration, displaced, taken, missed, overdue, open, stepping,
                   half, auto, attaches>>

\* The hook each event comes through.
HookOf(kind) ==
    CASE kind \in {"precommit", "plain"} -> "core"
      [] OTHER -> kind
Fire(kind) ==
    /\ open /\ frames # <<>> /\ Top = "running" /\ slot[HookOf(kind)] = "ours"
    /\ kind = "collation" => \E n \in Names : sequence[n] = "none"
    /\ Deliver(kind)
    /\ UNCHANGED <<callbacks, registration, detection, connection, frames>>

NestedFire(kind) ==
    /\ slot[HookOf(kind)] = "ours" /\ Nested(kind)
    /\ UNCHANGED <<callbacks, registration, detection, connection, frames>>

Providing == event.kind = "collation" /\ event.settled = "" /\ event'.settled = "provide"
Listen ==
    /\ DecisionStep /\ ~Providing
    /\ UNCHANGED <<callbacks, registration, detection, connection, frames>>

\* registerCollation, from the first provide() of a collation event.
Provide(n) ==
    /\ Say("provide") /\ Providing
    /\ sequence[n] = "none"
    /\ sequence' = [sequence EXCEPT ![n] = "ours"] /\ collations' = collations \cup {n}
    /\ UNCHANGED <<slot, leaked, backend, caps, request, threshold, before,
                   detection, connection, frames>>

Checkpoints(n) == threshold # Never /\ n >= threshold

\* The statement's transaction commits; in WAL mode with n frames in the log.
Commit(n) ==
    /\ open /\ ~inHook /\ frames # <<>> /\ Top = "running"
    /\ slot["core"] = "ours" =>
         answered.kind = "precommit" /\ ~answered.nested /\ answered.verdict = "none"
    /\ Moves("committed")
    /\ logged' = [frames |-> n,
                  done |-> CASE slot["wal"] = "ours" -> Checkpoints(n)
                             [] slot["wal"] = "other" -> auto > 0 /\ n >= auto
                             [] OTHER -> FALSE]
    /\ answered' = NoAnswer
    /\ UNCHANGED <<event, kept, errors, noBusyDecision, callbacks,
                   registration, detection, open, stepping, half, auto,
                   attaches>>

\* flush() after every call; of a call made in a listener, what it throws is the
\* listener's to let through to dispatch() or to catch.
Flush(raised) == errors' \in {FALSE} \cup IF Len(frames) > 1 THEN {raised} ELSE {}

\* A statement that committed nothing: over, or left half way by iter().
EndCall ==
    /\ open /\ ~inHook /\ frames # <<>> /\ Top = "running"
    /\ frames' = Front(frames)
    /\ stepping' \in {stepping, TRUE} /\ answered' = NoAnswer /\ Flush(errors)
    /\ UNCHANGED <<event, kept, noBusyDecision, callbacks,
                   registration, detection, open, half, auto, logged,
                   attaches>>

StopStepping ==
    /\ Idle /\ stepping /\ stepping' = FALSE
    /\ UNCHANGED <<decisions, callbacks, registration, detection, open, half,
                   auto, logged, attaches, frames>>

\* drain(): the postcommit event, then the three checks in their order.
Drain ==
    /\ frames # <<>> /\ Top = "committed" /\ ~inHook
    /\ IF attached THEN Moves("draining") ELSE frames' = Front(frames)
    /\ UNCHANGED <<decisions, callbacks, registration, detection, connection>>
Drained ==
    /\ frames # <<>> /\ Top = "draining" /\ ~inHook
    /\ Moves("checking")
    /\ UNCHANGED <<decisions, callbacks, registration, detection, connection>>

\* A reading of a pragma is a statement, and traced as one.
ChecksWal == "wal" \in caps /\ "wal" \notin displaced
ChecksTrace == "trace" \in request.hooks /\ "trace" \notin displaced
ChecksBusy == "busy" \in request.hooks /\ "busy" \notin displaced
SawBy(check) == sawStatementTrace \/ (check /\ Traced)

WalTaken == ChecksWal /\ Reading(slot) > 0
\* Mutant: a check that reports is the last of its drain.
BusyTakenUnlessWal == ChecksBusy /\ slot["busy"] = "other" /\ ~WalTaken
BusyTaken == ChecksBusy /\ slot["busy"] = "other"
TraceTaken == ChecksTrace /\ ~SawBy(ChecksWal)

CheckHooks ==
    /\ frames # <<>> /\ Top = "checking"
    /\ displaced' = displaced \cup (IF WalTaken THEN {"wal"} ELSE {})
                              \cup (IF TraceTaken THEN {"trace"} ELSE {})
                              \cup (IF BusyTaken THEN {"busy"} ELSE {})
    /\ Flush(errors \/ displaced' # displaced)
    /\ sawStatementTrace' = ((SawBy(ChecksWal) /\ ~ChecksTrace) \/ (ChecksBusy /\ Traced))
    /\ missed' = IF "trace" \in taken \ displaced' THEN missed + 1 ELSE 0
    /\ overdue' = {h \in {"wal", "busy"} \cap taken : slot[h] = "other"} \ displaced'
    /\ frames' = Front(frames)
    /\ UNCHANGED <<event, answered, kept, noBusyDecision, callbacks,
                   registration, taken, connection>>

-----------------------------------------------------------------------------

Init ==
    /\ DecisionsInit
    /\ open = TRUE /\ frames = <<>> /\ stepping = FALSE
    /\ auto \in Thresholds
    /\ slot = [h \in Hooks |-> IF h = "wal" /\ auto > 0 THEN "other" ELSE "none"]
    /\ sequence = [n \in Names |-> "none"]
    /\ backend = "none" /\ caps = {} /\ request = NoRequest /\ collations = {}
    /\ threshold = Never /\ before = 0
    /\ logged = NoCommit /\ attaches = 0 /\ half = FALSE
    /\ sawStatementTrace = FALSE /\ displaced = {} /\ taken = {} /\ missed = 0
    /\ overdue = {} /\ leaked = 0

Next ==
    \/ \E build \in Builds, r \in Requests :
          Attach(build, r) \/ \E same \in BOOLEAN : AttachRefused(build, r, same)
    \/ Dispose \/ Close
    \/ \E hook \in Detectable, holder \in Holders : Take(hook, holder)
    \/ BeginCall \/ EndCall \/ StopStepping \/ Drain \/ Drained \/ CheckHooks
    \/ \E kind \in EventKinds : Fire(kind) \/ NestedFire(kind)
    \/ Listen \/ \E n \in Names : Provide(n)
    \/ \E n \in 0..MaxFrames : Commit(n)

Spec == Init /\ [][Next]_vars

-----------------------------------------------------------------------------

\* SQLite never holds a callback that was freed, of no hook, displaced or not, and
\* of no sequence a listener supplied unless the registration ended while a
\* statement was half way (backend_ffi.ts:894, 932).
NoDanglingCallback ==
    open => /\ \A h \in Hooks : slot[h] # "freed"
            /\ (\E n \in Names : sequence[n] = "freed") => half

\* drain() reports a hook another took: the WAL hook and the busy handler at the
\* next commit if a pragma tells (hooks.ts:1246, 1275), the trace callback at the
\* second.  And it reports no other: of the trace callback only while the reading
\* of the WAL hook is traced, for a postcommit listener that writes has its own
\* call use the flag up (hooks.ts:1220).
DisplacementIsReported ==
    /\ overdue = {}
    /\ displaced \ {"trace"} \subseteq taken
    /\ "trace" \in displaced \ taken => "wal" \notin caps \/ "wal" \in displaced
    /\ missed < 2

\* Where SQLite checkpointed by itself before attach() and the program did not
\* say otherwise, every commit is checkpointed as it would have been
\* (hooks.ts:1550).
CheckpointsAsBefore ==
    attached /\ request.checkpoint = "preserve" /\ before > 0 /\ "wal" \notin taken
      => (logged.done <=> logged.frames >= before)

\* Checkpointing is as it was before attach(), also where it was off.
AttachingChangesNothing ==
    attached /\ request.checkpoint = "preserve" /\ "wal" \notin taken /\ logged.frames > 0
      => (logged.done <=> before > 0 /\ logged.frames >= before)

-----------------------------------------------------------------------------
(* The inductive invariant behind them.                                        *)

\* Only a registration has listeners and callbacks, and it has those it installed
\* and the comparators it owns.
RegistrationInv ==
    /\ inHook => attached
    /\ ~attached => request = NoRequest /\ displaced = {} /\ taken = {} /\ missed = 0
    /\ leaked \in Nat /\ leaked <= attaches /\ (attached => leaked < attaches)
    /\ attached => request \in Requests /\ request.hooks \subseteq caps
    /\ \A h \in Hooks :
          slot[h] # "freed" /\ (slot[h] = "ours" => attached /\ h \in Installed(caps, request))
    /\ \A n \in Names :
          (sequence[n] = "ours" => n \in collations) /\ (sequence[n] = "freed" => half)

\* The hooks others took are those that are theirs; and once a check found the
\* trace flag of a taken trace callback up, the flag stays down.
DetectionInv ==
    /\ taken \subseteq Installed(caps, request)
    /\ attached => \A h \in Detectable \cap Installed(caps, request) :
                      IF h \in taken THEN slot[h] \in {"other", "plain"} ELSE slot[h] = "ours"
    /\ slot["trace"] # "plain" /\ (slot["wal"] = "other" => auto > 0)
    /\ missed > 0 => "trace" \in taken \ displaced /\ ~sawStatementTrace
    /\ DisplacementIsReported

\* As long as nobody took the WAL hook, the threshold that is in force is the one
\* SQLite had.
CheckpointInv ==
    /\ logged \in [frames : 0..MaxFrames, done : BOOLEAN]
    /\ ~attached /\ slot["wal"] = "other" => (logged.done <=> auto > 0 /\ logged.frames >= auto)
    /\ attached /\ "wal" \notin taken =>
          IF "wal" \in caps THEN request.checkpoint = "preserve" => threshold = before
                            ELSE before = Reading(slot)
    /\ CheckpointsAsBefore

IInv ==
    /\ TypeOK /\ frames \in Seq(FramePhases) /\ DecisionsInv
    /\ RegistrationInv /\ DetectionInv /\ CheckpointInv
=============================================================================
