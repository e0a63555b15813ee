---------------------------- MODULE ManualConsent ----------------------------
(***************************************************************************)
(* The confirmation of the user's own terminal: a request to start a       *)
(* terminal or to type into one becomes a challenge in the consent ledger  *)
(* (src/manual-execution-consent.ts), Electron's main process shows it in  *)
(* a dialog and brings the answer back (electron/main.cjs), and an         *)
(* approved challenge runs its stored request once, in the runtime that is *)
(* selected at that moment (src/index.ts).                                 *)
(*                                                                         *)
(* What is asynchronous, and so a step of its own: the qualification of a  *)
(* terminal's start directory before the challenge is made, the dialog,    *)
(* the execution, the replacement of the runtime, and the one microtask    *)
(* between reading the current binding and the call of the ledger          *)
(* (`await currentManualConsentBinding()`).                                *)
(*                                                                         *)
(* Abstracted: the operation and the digest of the exact request are one   *)
(* value of Arguments; of the clock, only "older than CONSENT_TTL_MS" is   *)
(* kept; denial codes are not kept apart.  The application has one window, *)
(* so that the cross-window check cannot fail; ids nobody issued only add  *)
(* to the ledger's memory of consumed ids.                                 *)
(***************************************************************************)
EXTENDS Naturals, FiniteSets

CONSTANTS
  Requests,         \* requests, and the challenges made from them
  Decisions,        \* calls of decideManualTerminalConsent
  Arguments,        \* operation and exact request
  Sessions,
  Authorities,      \* runtime authorities
  MaxPending,       \* MAX_PENDING
  MaxIncarnation,   \* bound of the model: invalidations of all consent
  None

ASSUME MaxPendingAssumption == MaxPending \in Nat
ASSUME MaxIncarnationAssumption == MaxIncarnation \in Nat
ASSUME NoneIsNothing == None \notin Arguments \cup Sessions \cup Authorities
ASSUME RequestsFinite == IsFiniteSet(Requests)

VARIABLES
  runtime,     \* the module state of index.ts that consent depends on
  present,     \* the main window is visible and focused
  prepare,     \* calls of prepareManualTerminalConsent
  entry,       \* the ledger's #active and #consumed
  decision,    \* calls of decideManualTerminalConsent
  gone,        \* requests whose page has been navigated away from
  withdrawn,   \* history: challenges in the ledger when consent was withdrawn
  moved        \* history: requests under way when the runtime was replaced

vars == <<runtime, present, prepare, entry, decision, gone, withdrawn,
          moved>>

ghosts == <<withdrawn, moved>>

Incarnations == 0..MaxIncarnation

\* What a challenge is bound to besides its window.
Bindings ==
  [session : Sessions, authority : Authorities, incarnation : Incarnations]

ASSUME NoneIsNoBinding == None \notin Bindings

Preparing ==
  [stage : {"idle", "over"}, args : {None}, binding : {None}]
  \cup [stage : {"qualifying"}, args : Arguments, binding : {None}]
  \cup [stage : {"bound"}, args : Arguments, binding : Bindings]

\* What the ledger keeps of a challenge that is not active.
Closed(state) ==
  [state |-> state, args |-> None, binding |-> None, late |-> FALSE]

Entries ==
  [state : {"pending", "consuming"}, args : Arguments, binding : Bindings,
   late : BOOLEAN]
  \cup {Closed(state) : state \in {"none", "expired", "replayed"}}

Deciding ==
  [stage : {"idle"}, request : {None}, args : {None}, approve : {FALSE},
   binding : {None}, ranIn : {None}]
  \cup [stage : {"bound"}, request : Requests, args : Arguments,
        approve : BOOLEAN, binding : Bindings, ranIn : {None}]
  \cup [stage : {"running"}, request : Requests, args : Arguments,
        approve : {TRUE}, binding : Bindings, ranIn : Bindings]
  \cup [stage : {"over"}, request : Requests, args : {None},
        approve : {FALSE}, binding : {None}, ranIn : Bindings \cup {None}]

TypeOK ==
  /\ runtime \in
       [authority : Authorities \cup {None}, session : Sessions \cup {None},
        retired : SUBSET Authorities, incarnation : Incarnations,
        stage : {"idle", "preparing", "retiring", "published"},
        target : Sessions \cup {None}, next : Authorities \cup {None},
        accepting : BOOLEAN]
  /\ present \in BOOLEAN
  /\ prepare \in [Requests -> Preparing]
  /\ entry \in [Requests -> Entries]
  /\ decision \in [Decisions -> Deciding]
  /\ gone \in SUBSET Requests
  /\ withdrawn \in SUBSET Requests
  /\ moved \in SUBSET Requests

Init ==
  /\ runtime \in
       {[authority |-> a, session |-> s, retired |-> {}, incarnation |-> 0,
         stage |-> "idle", target |-> None, next |-> None, accepting |-> TRUE] :
           a \in Authorities, s \in Sessions}
  /\ present = TRUE
  /\ prepare = [r \in Requests |->
                  [stage |-> "idle", args |-> None, binding |-> None]]
  /\ entry = [r \in Requests |-> Closed("none")]
  /\ decision = [d \in Decisions |->
       [stage |-> "idle", request |-> None, args |-> None, approve |-> FALSE,
        binding |-> None, ranIn |-> None]]
  /\ gone = {}
  /\ withdrawn = {}
  /\ moved = {}

-----------------------------------------------------------------------------
(* The runtime, as a direct operation finds it.                            *)

\* ensureRuntimeAccepting, and issueLocalApiContext does not refuse.
CanIssue ==
  /\ runtime.accepting
  /\ runtime.authority \notin runtime.retired \cup {None}
  /\ runtime.session # None

CurrentBinding ==
  [session |-> runtime.session, authority |-> runtime.authority,
   incarnation |-> runtime.incarnation]

-----------------------------------------------------------------------------
(* Withdrawing consent.                                                    *)

Pending == {r \in Requests : entry[r].state = "pending"}

\* #active: what counts against MAX_PENDING.
ActiveEntries == {r \in Requests : entry[r].state \in {"pending", "consuming"}}

\* #consume, for the challenges in R.
Consumed(R, state) ==
  [r \in Requests |-> IF r \in R THEN Closed(state) ELSE entry[r]]

\* Fault: only challenges that have expired are invalidated.
InvalidateExpired ==
  entry' = Consumed({r \in Pending : entry[r].late}, "replayed")

\* invalidateAll and invalidateWebContents: whatever is pending is consumed,
\* what is being executed goes on.
Invalidate == entry' = Consumed(Pending, "replayed")

\* History of an event that withdraws consent.
Withdrawal ==
  /\ withdrawn' = withdrawn \cup Pending
  /\ UNCHANGED moved

\* blur, hide, close.
WindowLost ==
  /\ present
  /\ present' = FALSE
  /\ Invalidate /\ Withdrawal
  /\ UNCHANGED <<runtime, prepare, decision, gone>>

WindowShown ==
  /\ ~present
  /\ present' = TRUE
  /\ UNCHANGED <<runtime, prepare, entry, decision, gone>>
  /\ UNCHANGED ghosts

\* did-start-navigation: the frame that sent the requests under way is no
\* longer the main frame.
Navigation ==
  /\ gone # Requests
  /\ gone' = gone \cup {r \in Requests : prepare[r].stage # "idle"}
  /\ Invalidate /\ Withdrawal
  /\ UNCHANGED <<runtime, present, prepare, decision>>

-----------------------------------------------------------------------------
(* Requests.                                                               *)

\* terminalStart: the start directory is qualified by a direct operation first.
RequestStart(r, x) ==
  /\ prepare[r].stage = "idle"
  /\ present
  /\ CanIssue
  /\ prepare' = [prepare EXCEPT ![r] =
       [stage |-> "qualifying", args |-> x, binding |-> None]]
  /\ UNCHANGED <<runtime, present, entry, decision, gone>>
  /\ UNCHANGED ghosts

\* terminalInput: the binding is read at once.
RequestInput(r, x) ==
  /\ prepare[r].stage = "idle"
  /\ present
  /\ CanIssue
  /\ prepare' = [prepare EXCEPT ![r] =
       [stage |-> "bound", args |-> x, binding |-> CurrentBinding]]
  /\ UNCHANGED <<runtime, present, entry, decision, gone>>
  /\ UNCHANGED ghosts

\* Fault: the binding is read from whatever runtime there is.
QualificationUnchecked(r) ==
  /\ prepare[r].stage = "qualifying"
  /\ prepare' = [prepare EXCEPT ![r] =
       [stage |-> "bound", args |-> prepare[r].args, binding |-> CurrentBinding]]
  /\ UNCHANGED <<runtime, present, entry, decision, gone>>
  /\ UNCHANGED ghosts

\* The directory is qualified, and the binding is the one of this moment; or
\* the call is refused.
QualificationEnds(r) ==
  /\ prepare[r].stage = "qualifying"
  /\ \/ /\ CanIssue
        /\ prepare' = [prepare EXCEPT ![r] =
             [stage |-> "bound", args |-> prepare[r].args,
              binding |-> CurrentBinding]]
     \/ prepare' = [prepare EXCEPT ![r] =
             [stage |-> "over", args |-> None, binding |-> None]]
  /\ UNCHANGED <<runtime, present, entry, decision, gone>>
  /\ UNCHANGED ghosts

Opened(p) ==
  [state |-> "pending", args |-> p.args, binding |-> p.binding, late |-> FALSE]

\* Fault: expired challenges are not counted, and not pruned either.
StoreUnpruned(r) ==
  /\ prepare[r].stage = "bound"
  /\ prepare' = [prepare EXCEPT ![r] =
       [stage |-> "over", args |-> None, binding |-> None]]
  /\ entry' = IF \/ ~runtime.accepting
                 \/ Cardinality({q \in ActiveEntries : ~entry[q].late}) >= MaxPending
              THEN entry
              ELSE [entry EXCEPT ![r] = Opened(prepare[r])]
  /\ UNCHANGED <<runtime, present, decision, gone>>
  /\ UNCHANGED ghosts

\* ManualExecutionConsentLedger.prepare, which prunes what has expired first.
Store(r) ==
  LET expired == {q \in Pending : entry[q].late}
      pruned  == Consumed(expired, "expired")
  IN
  /\ prepare[r].stage = "bound"
  /\ prepare' = [prepare EXCEPT ![r] =
       [stage |-> "over", args |-> None, binding |-> None]]
  /\ entry' = IF ~runtime.accepting THEN entry
              ELSE IF Cardinality(ActiveEntries \ expired) >= MaxPending THEN pruned
              ELSE [pruned EXCEPT ![r] = Opened(prepare[r])]
  /\ UNCHANGED <<runtime, present, decision, gone>>
  /\ UNCHANGED ghosts

\* CONSENT_TTL_MS goes by.
Expire(r) ==
  /\ entry[r].state = "pending"
  /\ ~entry[r].late
  /\ entry' = [entry EXCEPT ![r].late = TRUE]
  /\ UNCHANGED <<runtime, present, prepare, decision, gone>>
  /\ UNCHANGED ghosts

-----------------------------------------------------------------------------
(* Decisions.                                                              *)

\* The dialog is answered, or the exported function is called again for a
\* challenge: the window must be present, and the binding is read.  The runtime
\* is not between two microtasks of its replacement.
Answer(d, r, x, yes) ==
  /\ decision[d].stage = "idle"
  /\ entry[r].state # "none"
  /\ r \notin gone
  /\ present
  /\ CanIssue
  /\ runtime.stage # "published"
  /\ decision' = [decision EXCEPT ![d] =
       [stage |-> "bound", request |-> r, args |-> x, approve |-> yes,
        binding |-> CurrentBinding, ranIn |-> None]]
  /\ UNCHANGED <<runtime, present, prepare, entry, gone>>
  /\ UNCHANGED ghosts

Over(d) ==
  decision' = [decision EXCEPT ![d] =
    [stage |-> "over", request |-> decision[d].request, args |-> None,
     approve |-> FALSE, binding |-> None, ranIn |-> decision[d].ranIn]]

\* Fault: the binding of the decision is not compared.
AcceptedUnbound(d, r) ==
  /\ ~entry[r].late
  /\ decision[d].args = entry[r].args
  /\ decision[d].approve

\* #decideCore does not deny a pending challenge.
Accepted(d, r) ==
  /\ ~entry[r].late
  /\ decision[d].binding = entry[r].binding
  /\ decision[d].args = entry[r].args
  /\ decision[d].approve

\* decide: shut down, already consumed, or being executed by another decision.
DecideUnavailable(d) ==
  LET r == decision[d].request IN
  /\ decision[d].stage = "bound"
  /\ ~runtime.accepting \/ entry[r].state # "pending"
  /\ Over(d)
  /\ entry' = IF runtime.accepting /\ entry[r].state = "expired"
              THEN Consumed({r}, "replayed") ELSE entry
  /\ UNCHANGED <<runtime, present, prepare, gone>>
  /\ UNCHANGED ghosts

\* decide: denied, and so consumed.
DecideDenied(d) ==
  LET r == decision[d].request IN
  /\ decision[d].stage = "bound"
  /\ runtime.accepting /\ entry[r].state = "pending"
  /\ ~Accepted(d, r)
  /\ Over(d)
  /\ entry' = Consumed({r}, "replayed")
  /\ UNCHANGED <<runtime, present, prepare, gone>>
  /\ UNCHANGED ghosts

\* Fault: the challenge stays pending until its execution has ended.
DecideRunsPending(d) ==
  LET r == decision[d].request IN
  /\ decision[d].stage = "bound"
  /\ runtime.accepting /\ entry[r].state = "pending"
  /\ Accepted(d, r)
  /\ CanIssue
  /\ decision' = [decision EXCEPT ![d] =
       [stage |-> "running", request |-> r, args |-> decision[d].args,
        approve |-> TRUE, binding |-> decision[d].binding,
        ranIn |-> CurrentBinding]]
  /\ UNCHANGED <<runtime, present, prepare, entry, gone>>
  /\ UNCHANGED ghosts

\* decide: the stored request runs as a direct operation of the runtime as it is
\* now; one that is refused there has consumed its challenge too.
DecideRuns(d) ==
  LET r == decision[d].request IN
  /\ decision[d].stage = "bound"
  /\ runtime.accepting /\ entry[r].state = "pending"
  /\ Accepted(d, r)
  /\ \/ /\ CanIssue
        /\ entry' = [entry EXCEPT ![r].state = "consuming"]
        /\ decision' = [decision EXCEPT ![d] =
             [stage |-> "running", request |-> r, args |-> decision[d].args,
              approve |-> TRUE, binding |-> decision[d].binding,
              ranIn |-> CurrentBinding]]
     \/ /\ ~CanIssue
        /\ entry' = Consumed({r}, "replayed")
        /\ Over(d)
  /\ UNCHANGED <<runtime, present, prepare, gone>>
  /\ UNCHANGED ghosts

\* Fault: a challenge is consumed only by an execution that succeeds.
ExecutionEndsRestoring(d) ==
  /\ decision[d].stage = "running"
  /\ Over(d)
  /\ \/ entry' = Consumed({decision[d].request}, "replayed")
     \/ entry' = [entry EXCEPT ![decision[d].request].state = "pending"]
  /\ UNCHANGED <<runtime, present, prepare, gone>>
  /\ UNCHANGED ghosts

\* The execution has succeeded or failed.
ExecutionEnds(d) ==
  /\ decision[d].stage = "running"
  /\ Over(d)
  /\ entry' = Consumed({decision[d].request}, "replayed")
  /\ UNCHANGED <<runtime, present, prepare, gone>>
  /\ UNCHANGED ghosts

-----------------------------------------------------------------------------
(* Replacing the runtime, and shutting down.                               *)

\* replaceRuntimeAgentLocked and enrollAppSettings: consent is withdrawn first.
SwitchBegin(s) ==
  /\ runtime.stage = "idle"
  /\ runtime.accepting
  /\ runtime.incarnation < MaxIncarnation
  /\ runtime' = [runtime EXCEPT !.stage = "preparing", !.target = s,
                                !.incarnation = @ + 1]
  /\ Invalidate /\ Withdrawal
  /\ UNCHANGED <<present, prepare, decision, gone>>

\* The new authority is ready and the old one is retired; or preparing failed.
SwitchPrepared(a) ==
  /\ runtime.stage = "preparing"
  /\ \/ /\ a \notin runtime.retired \cup {runtime.authority}
        /\ runtime' = [runtime EXCEPT !.stage = "retiring", !.next = a,
             !.retired = @ \cup ({runtime.authority} \ {None})]
     \/ runtime' = [runtime EXCEPT !.stage = "idle", !.target = None]
  /\ UNCHANGED <<present, prepare, entry, decision, gone>>
  /\ UNCHANGED ghosts

\* The old authority's resources are released, or not.  The promise of the
\* retirement takes more microtasks than a decision that read the old binding.
SwitchPublish ==
  /\ runtime.stage = "retiring"
  /\ \A d \in Decisions : decision[d].stage # "bound"
  /\ \/ runtime' = [runtime EXCEPT !.stage = "published",
             !.authority = runtime.next, !.next = None]
     \/ runtime' = [runtime EXCEPT !.stage = "idle", !.authority = None,
             !.retired = @ \cup {runtime.next}, !.next = None, !.target = None]
  /\ UNCHANGED <<present, prepare, entry, decision, gone>>
  /\ moved' = moved \cup {r \in Requests : prepare[r].stage \in {"qualifying", "bound"}}
  /\ UNCHANGED withdrawn

\* The route resumes and selects its session.
SwitchSession ==
  /\ runtime.stage = "published"
  /\ runtime' = [runtime EXCEPT !.stage = "idle", !.session = runtime.target,
                                !.target = None]
  /\ UNCHANGED <<present, prepare, entry, decision, gone>>
  /\ UNCHANGED ghosts

\* shutdown, up to its first await; a replacement in progress goes on.
Shutdown ==
  /\ runtime.accepting
  /\ runtime.incarnation < MaxIncarnation
  /\ runtime' = [runtime EXCEPT !.accepting = FALSE, !.incarnation = @ + 1,
                   !.retired = @ \cup ({runtime.authority} \ {None}),
                   !.authority = None]
  /\ Invalidate /\ Withdrawal
  /\ UNCHANGED <<present, prepare, decision, gone>>

-----------------------------------------------------------------------------
RequestNext ==
  \E r \in Requests :
    \/ \E x \in Arguments : RequestStart(r, x) \/ RequestInput(r, x)
    \/ QualificationEnds(r) \/ Store(r) \/ Expire(r)

DecisionNext ==
  \E d \in Decisions :
    \/ \E r \in Requests, x \in Arguments, yes \in BOOLEAN : Answer(d, r, x, yes)
    \/ DecideUnavailable(d) \/ DecideDenied(d) \/ DecideRuns(d)
    \/ ExecutionEnds(d)

WindowNext == WindowLost \/ WindowShown \/ Navigation

RuntimeNext ==
  \/ \E s \in Sessions \cup {None} : SwitchBegin(s)
  \/ \E a \in Authorities : SwitchPrepared(a)
  \/ SwitchPublish \/ SwitchSession \/ Shutdown

Next == RequestNext \/ DecisionNext \/ WindowNext \/ RuntimeNext

Spec == Init /\ [][Next]_vars
-----------------------------------------------------------------------------
Running(d) == decision[d].stage = "running"

\* A decision whose stored request ran.
Ran(d) == decision[d].ranIn # None

\* A challenge runs at most once, whoever answers it and however often,
\* whatever becomes of the execution (decide, #consume).
OneExecutionPerChallenge ==
  \A d, e \in Decisions :
    d # e /\ Ran(d) /\ Ran(e) => decision[d].request # decision[e].request

\* What ran was what the challenge showed, in the session and under the
\* authority it was shown for, with no withdrawal of all consent in between,
\* although the runtime is looked up again at three points of the way
\* (prepareManualTerminalConsent, decideManualTerminalConsent,
\* runDirectOperation).
ExecutesAsConfirmed ==
  \A d \in Decisions : Running(d) =>
    /\ decision[d].ranIn = entry[decision[d].request].binding
    /\ decision[d].args = entry[decision[d].request].args
    /\ decision[d].approve

\* A challenge is being consumed exactly while one decision runs it: no
\* execution goes on unaccounted for, and none leaves its challenge behind in
\* #active, where it would take up room for ever (#decideCore's finally).
ConsumingHasOneRunner ==
  \A r \in Requests :
    LET R == {d \in Decisions : Running(d) /\ decision[d].request = r}
    IN entry[r].state = "consuming" <=> \E d \in R : R = {d}

\* The ledger never holds more than MAX_PENDING challenges (prepare).
WithinCapacity == Cardinality(ActiveEntries) <= MaxPending

Starts(d) == ~Running(d) /\ Running(d)'

\* A challenge that was in the ledger when consent was withdrawn (the window
\* lost the focus or was navigated, the runtime was replaced, the service shut
\* down) never starts to run (invalidateAll, invalidateWebContents).
WithdrawnNeverRuns ==
  [][\A d \in Decisions : Starts(d) => decision[d].request \notin withdrawn]_vars

\* "session switch, authority retirement [...] produce zero process/ACL/stdin
\* side effects": nothing runs for a request that was still being prepared when
\* the runtime it was made in was replaced.
RunsWhereAsked ==
  \A d \in Decisions : Running(d) => decision[d].request \notin moved
=============================================================================
