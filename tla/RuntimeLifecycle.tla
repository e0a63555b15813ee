--------------------------- MODULE RuntimeLifecycle ---------------------------
(***************************************************************************)
(* The runtime the service has selected (src/index.ts): an authority with  *)
(* its agent, the current persona and the current session.  Requests that  *)
(* replace it (another persona or session, a new or deleted session, a     *)
(* changed provider, changed settings) take turns in withRuntimeMutation;  *)
(* chats, rollbacks and the shutdown do not.  All agents share one         *)
(* conversation memory.                                                    *)
(*                                                                         *)
(* A request is a chain of steps cut at its awaits.  Between a publication *)
(* and the route's assignments there are only microtasks: only another     *)
(* request that was waiting for its turn gets in between (`Settled`).      *)
(*                                                                         *)
(* Abstracted: the configuration's contents (persisting it succeeds or     *)
(* fails), the order of those who wait for their turn, subscriptions, and  *)
(* consent, which ManualConsent is about.  There are personas, without     *)
(* which start selects nothing.  A request that is rejected before its     *)
(* turn changes nothing and is left out.                                   *)
(***************************************************************************)
EXTENDS Integers

CONSTANTS
  Requests,       \* requests that change the runtime
  Personas,
  Sessions,
  MaxRuntimes,    \* bound of the model: runtimes ever prepared
  None            \* no persona, no session

ASSUME MaxRuntimesAssumption == MaxRuntimes \in Nat \ {0}
ASSUME NoneAssumption == None \notin Personas \cup Sessions
\* 0 is "no runtime" and no request is called None
ASSUME RequestsAssumption == None \notin Requests

VARIABLES
  accepting,      \* ~isShuttingDown
  holder,         \* the request whose turn it is in withRuntimeMutation
  request,        \* requests that change the runtime
  runtime,        \* prepared runtimes: the authority, and what its agent is bound to
  now,            \* currentAuthority, agent, currentPersona, currentSessionId
  run,            \* the run of each runtime's agent
  memory,         \* memory.sessionId: the session messages are stored in
  stored          \* persona_name of each session in the database

vars == <<accepting, holder, request, runtime, now, run, memory, stored>>

Runtimes == 1..MaxRuntimes

RequestRecord ==
  [kind : {"none", "persona", "new", "select", "delete", "provider", "settings"},
   stage : {"idle", "storing", "deleting", "queued", "preparing", "retiring",
            "stopping", "discarding", "persisting", "recovering", "published",
            "done"},
   persona : Personas \cup {None}, session : Sessions \cup {None},
   base : Runtimes \cup {0}, next : Runtimes \cup {0}]

\* The type invariant.
TypeOK ==
  /\ accepting \in BOOLEAN
  /\ holder \in Requests \cup {None}
  /\ request \in [Requests -> RequestRecord]
  /\ runtime \in [Runtimes ->
       [status : {"none", "active", "retired"}, persona : Personas \cup {None},
        session : Sessions \cup {None}]]
  /\ now \in [authority : Runtimes \cup {0}, agent : Runtimes \cup {0},
              persona : Personas, session : Sessions \cup {None}]
  /\ run \in [Runtimes -> {"idle", "running"}]
  /\ memory \in Sessions \cup {None}
  /\ stored \in [Sessions -> Personas \cup {None, "removed"}]

\* start has selected the default persona, or the latest session and its own.
Init ==
  /\ accepting = TRUE
  /\ holder = None
  /\ request = [q \in Requests |->
       [kind |-> "none", stage |-> "idle", persona |-> None, session |-> None,
        base |-> 0, next |-> 0]]
  /\ stored \in [Sessions -> Personas \cup {None}]
  /\ \E p \in Personas, s \in Sessions \cup {None} :
       /\ s # None => stored[s] = p
       /\ runtime = [r \in Runtimes |->
            IF r = 1 THEN [status |-> "active", persona |-> p, session |-> s]
            ELSE [status |-> "none", persona |-> None, session |-> None]]
       /\ now = [authority |-> 1, agent |-> 1, persona |-> p, session |-> s]
       /\ memory = s
  /\ run = [r \in Runtimes |-> "idle"]

-----------------------------------------------------------------------------
Running(r) == r # 0 /\ run[r] = "running"

\* No route is between the publication of its runtime and its assignments.
Settled == \A q \in Requests : request[q].stage # "published"

\* rejectWhenRuntimeBusy lets the request pass.
NotBusy == accepting /\ ~Running(now.agent)

Active(r) == r # 0 /\ runtime[r].status = "active"

\* The next runtime to be prepared.
Fresh(r) ==
  /\ runtime[r].status = "none"
  /\ \A t \in Runtimes : t < r => runtime[t].status # "none"

Retired(r) ==
  IF r = 0 THEN runtime ELSE [runtime EXCEPT ![r].status = "retired"]

\* issueRuntimeAuthority, new Agent and setSession; the authorities in R are
\* retired in the same step.
Issued(r, p, s, R) ==
  /\ runtime' = [t \in Runtimes |->
       IF t = r THEN [status |-> IF r \in R THEN "retired" ELSE "active",
                      persona |-> p, session |-> s]
       ELSE IF t \in R THEN [runtime[t] EXCEPT !.status = "retired"]
       ELSE runtime[t]]
  /\ memory' = IF s = None THEN memory ELSE s

Stage(q, stage) == request' = [request EXCEPT ![q].stage = stage]

\* The runtime r is selected, or none if r = 0.
Select(r) == now' = [now EXCEPT !.authority = r, !.agent = r]

-----------------------------------------------------------------------------
(* The routes, up to their turn.                                           *)

\* From here the request waits for its turn, to select persona p and session s.
Enqueued(q, kind, p, s) ==
  request' = [request EXCEPT ![q] =
    [kind |-> kind, stage |-> "queued", persona |-> p, session |-> s,
     base |-> 0, next |-> 0]]

\* The request has not been made yet.
Waiting(q) == request[q].stage = "idle"

SwitchPersona(q, p) ==
  /\ Settled /\ NotBusy /\ Waiting(q)
  /\ Enqueued(q, "persona", p, None)
  /\ UNCHANGED <<accepting, holder, runtime, now, run, memory, stored>>

NewSession(q, s) ==
  /\ Settled /\ NotBusy /\ Waiting(q)
  /\ stored[s] = None
  /\ stored' = [stored EXCEPT ![s] = now.persona]
  /\ Enqueued(q, "new", now.persona, s)
  /\ UNCHANGED <<accepting, holder, runtime, now, run, memory>>

SelectSession(q, s) ==
  /\ Settled /\ NotBusy /\ Waiting(q)
  /\ stored[s] \in Personas
  /\ Enqueued(q, "select", stored[s], s)
  /\ UNCHANGED <<accepting, holder, runtime, now, run, memory, stored>>

UpdateSettings(q) ==
  /\ Settled /\ NotBusy /\ Waiting(q)
  /\ Enqueued(q, "settings", None, None)
  /\ UNCHANGED <<accepting, holder, runtime, now, run, memory, stored>>

\* A provider is stored, or another one is chosen.
UpdateProvider(q) ==
  /\ Settled /\ NotBusy /\ Waiting(q)
  /\ request' = [request EXCEPT ![q].kind = "provider", ![q].stage = "storing"]
  /\ UNCHANGED <<accepting, holder, runtime, now, run, memory, stored>>

\* rebuildRuntimeAgent: persona and session are read before the turn.
RebuildRuntime(q) ==
  /\ Settled
  /\ request[q].stage = "storing"
  /\ \/ Enqueued(q, "provider", now.persona, now.session)
     \/ Stage(q, "done")
  /\ UNCHANGED <<accepting, holder, runtime, now, run, memory, stored>>

DeleteSession(q, s) ==
  /\ Settled /\ accepting /\ Waiting(q)
  /\ stored[s] \in Personas
  /\ ~(now.session = s /\ Running(now.agent))
  /\ request' = [request EXCEPT ![q].kind = "delete", ![q].stage = "deleting",
                                ![q].session = s]
  /\ UNCHANGED <<accepting, holder, runtime, now, run, memory, stored>>

\* The session's resources are retired, or that fails and the session stays.
SessionRemoved(q) ==
  LET s == request[q].session IN
  /\ Settled
  /\ request[q].stage = "deleting"
  /\ \/ /\ stored' = [stored EXCEPT ![s] = "removed"]
        /\ IF now.session = s THEN Enqueued(q, "delete", now.persona, None)
                              ELSE Stage(q, "done")
     \/ Stage(q, "done") /\ UNCHANGED stored
  /\ UNCHANGED <<accepting, holder, runtime, now, run, memory>>

-----------------------------------------------------------------------------
(* A turn: withRuntimeMutation runs replaceRuntimeAgentLocked, or for the   *)
(* settings executeSettingsEnrollment.                                     *)

\* The turn ends: the next request may acquire it.
Release(q, stage) == Stage(q, stage) /\ holder' = None

InTurn(q, stage) == holder = q /\ request[q].stage = stage

Settings(q) == request[q].kind = "settings"

\* Refused when the service is closing or a run is in progress; otherwise the
\* base is captured (the settings capture persona and session as well).
Acquire(q) ==
  /\ holder = None
  /\ request[q].stage = "queued"
  /\ IF accepting /\ ~Running(now.agent)
       THEN /\ holder' = q
            /\ request' = [request EXCEPT
                 ![q].stage = "preparing",
                 ![q].base = now.authority,
                 ![q].persona = IF Settings(q) THEN now.persona ELSE @,
                 ![q].session = IF Settings(q) THEN now.session ELSE @]
       ELSE Stage(q, "done") /\ UNCHANGED holder
  /\ UNCHANGED <<accepting, runtime, now, run, memory, stored>>

PrepareFails(q) ==
  /\ Settled
  /\ InTurn(q, "preparing")
  /\ Release(q, "done")
  /\ UNCHANGED <<accepting, runtime, now, run, memory, stored>>

\* Fault: the base is retired after the publication.
PreparedReplacementUnrevoked(q) ==
  /\ Settled
  /\ InTurn(q, "preparing") /\ ~Settings(q)
  /\ \E r \in Runtimes :
       /\ Fresh(r)
       /\ Issued(r, request[q].persona, request[q].session, {})
       /\ Release(q, "published") /\ Select(r)
  /\ UNCHANGED <<accepting, run, stored>>

\* The next agent is constructed, and the memory switched to its session,
\* before the base is retired.
PreparedReplacement(q) ==
  LET base == request[q].base IN
  /\ Settled
  /\ InTurn(q, "preparing") /\ ~Settings(q)
  /\ \E r \in Runtimes :
       /\ Fresh(r)
       /\ Issued(r, request[q].persona, request[q].session, {base})
       /\ IF base = 0
            THEN Release(q, "published") /\ Select(r)
            ELSE /\ request' = [request EXCEPT ![q].stage = "retiring", ![q].next = r]
                 /\ UNCHANGED <<holder, now>>
  /\ UNCHANGED <<accepting, run, stored>>

\* Fault: only the authority is compared.
IsBaseAuthority(q) == now.authority = request[q].base

\* isBaseCurrent: nothing the candidate was prepared from has changed.
IsBaseCurrent(q) ==
  /\ now.authority = request[q].base
  /\ now.persona = request[q].persona
  /\ now.session = request[q].session

PreparedSettings(q) ==
  LET base == request[q].base IN
  /\ Settled
  /\ InTurn(q, "preparing") /\ Settings(q)
  /\ \E r \in Runtimes :
       /\ Fresh(r)
       /\ IF IsBaseCurrent(q)
            THEN /\ Issued(r, request[q].persona, request[q].session, {base})
                 /\ request' = [request EXCEPT
                      ![q].stage = IF base = 0 THEN "persisting" ELSE "retiring",
                      ![q].next = r]
            ELSE /\ Issued(r, request[q].persona, request[q].session, {r})
                 /\ Stage(q, "discarding")
  /\ UNCHANGED <<accepting, holder, now, run, stored>>

\* The stale candidate has been retired.
Discarded(q) ==
  /\ Settled
  /\ InTurn(q, "discarding")
  /\ Release(q, "done")
  /\ UNCHANGED <<accepting, runtime, now, run, memory, stored>>

\* The base has been retired.
BaseRetired(q) ==
  /\ Settled
  /\ InTurn(q, "retiring")
  /\ IF Settings(q)
       THEN Select(0) /\ Stage(q, "persisting") /\ UNCHANGED holder
       ELSE Select(request[q].next) /\ Release(q, "published")
  /\ UNCHANGED <<accepting, runtime, run, memory, stored>>

\* Fault: the candidate is forgotten.
BaseRetirementFailsLeaking(q) ==
  /\ Settled
  /\ InTurn(q, "retiring")
  /\ Stage(q, "stopping")
  /\ UNCHANGED <<accepting, holder, runtime, now, run, memory, stored>>

\* The retirement of the base failed: the candidate is retired too.
BaseRetirementFails(q) ==
  /\ Settled
  /\ InTurn(q, "retiring")
  /\ runtime' = Retired(request[q].next)
  /\ Stage(q, "stopping")
  /\ UNCHANGED <<accepting, holder, now, run, memory, stored>>

\* Faults: the retired runtime stays selected; the turn is not released.
StoppedSelected(q) ==
  /\ Settled
  /\ InTurn(q, "stopping")
  /\ Release(q, "done")
  /\ UNCHANGED <<accepting, runtime, now, run, memory, stored>>

StoppedUnreleased(q) ==
  /\ Settled
  /\ InTurn(q, "stopping")
  /\ Select(0)
  /\ Stage(q, "done")
  /\ UNCHANGED <<accepting, holder, runtime, run, memory, stored>>

\* The service is left without a runtime.
Stopped(q) ==
  /\ Settled
  /\ InTurn(q, "stopping")
  /\ Select(0)
  /\ Release(q, "done")
  /\ UNCHANGED <<accepting, runtime, run, memory, stored>>

\* The runtime r with the persona and session the settings were captured with.
PublishSettings(q, r) ==
  now' = [authority |-> r, agent |-> r,
          persona |-> request[q].persona, session |-> now.session]

\* persistCandidate, publishCandidate and commitCandidate.
Persisted(q) ==
  /\ Settled
  /\ InTurn(q, "persisting")
  /\ PublishSettings(q, request[q].next)
  /\ Release(q, "done")
  /\ UNCHANGED <<accepting, runtime, run, memory, stored>>

PersistFails(q) ==
  /\ Settled
  /\ InTurn(q, "persisting")
  /\ runtime' = Retired(request[q].next)
  /\ Stage(q, "recovering")
  /\ UNCHANGED <<accepting, holder, now, run, memory, stored>>

\* recoverPreviousSettingsRuntime: a new runtime with the previous settings.
Recovered(q) ==
  /\ Settled
  /\ InTurn(q, "recovering")
  /\ \E r \in Runtimes :
       /\ Fresh(r)
       /\ Issued(r, request[q].persona, request[q].session, {})
       /\ PublishSettings(q, r)
  /\ Release(q, "done")
  /\ UNCHANGED <<accepting, run, stored>>

RecoveryFails(q) ==
  /\ Settled
  /\ InTurn(q, "recovering")
  /\ Select(0)
  /\ Release(q, "done")
  /\ UNCHANGED <<accepting, runtime, run, memory, stored>>

\* The route goes on after its turn: each assigns what it changed.
Assign(q) ==
  LET p == request[q].persona
      s == request[q].session IN
  /\ request[q].stage = "published"
  /\ now' = CASE request[q].kind = "persona" ->
                   [now EXCEPT !.persona = p, !.session = None]
              [] request[q].kind = "select" ->
                   [now EXCEPT !.persona = p, !.session = s]
              [] request[q].kind \in {"new", "delete"} ->
                   [now EXCEPT !.session = s]
              [] request[q].kind = "provider" -> now
  /\ Stage(q, "done")
  /\ UNCHANGED <<accepting, holder, runtime, run, memory, stored>>

-----------------------------------------------------------------------------
(* What does not take turns.                                               *)

\* POST /api/chat: the agent's run is accepted by the broker.
Chat ==
  LET r == now.agent IN
  /\ Settled /\ accepting
  /\ r # 0 /\ now.session # None
  /\ run[r] = "idle"
  /\ Active(r)
  /\ runtime[r].session # None
  /\ stored[runtime[r].session] = runtime[r].persona
  /\ run' = [run EXCEPT ![r] = "running"]
  /\ UNCHANGED <<accepting, holder, request, runtime, now, memory, stored>>

\* The finally of Agent.run.  That the broker refuses the next run until the
\* resources of this one are retired is CapabilityBroker's.
RunEnds(r) ==
  /\ Settled
  /\ run[r] = "running"
  /\ run' = [run EXCEPT ![r] = "idle"]
  /\ UNCHANGED <<accepting, holder, request, runtime, now, memory, stored>>

\* The agent and the memory reload the session.
Rollback(s) ==
  /\ Settled /\ NotBusy
  /\ now.agent # 0 /\ now.session = s
  /\ runtime' = [runtime EXCEPT ![now.agent].session = s]
  /\ memory' = s
  /\ UNCHANGED <<accepting, holder, request, now, run, stored>>

Shutdown ==
  /\ Settled /\ accepting
  /\ accepting' = FALSE
  /\ runtime' = Retired(now.authority)
  /\ Select(0)
  /\ UNCHANGED <<holder, request, run, memory, stored>>

\* The check at the end of shutdown.  serverClosed need not have waited for
\* the request in its turn: its client may be gone.
FinalCheck ==
  /\ Settled /\ ~accepting
  /\ now.authority # 0
  /\ runtime' = Retired(now.authority)
  /\ now' = [now EXCEPT !.authority = 0]
  /\ UNCHANGED <<accepting, holder, request, run, memory, stored>>

-----------------------------------------------------------------------------
Route(q) ==
  \/ \E p \in Personas : SwitchPersona(q, p)
  \/ \E s \in Sessions : NewSession(q, s) \/ SelectSession(q, s) \/ DeleteSession(q, s)
  \/ UpdateSettings(q)
  \/ UpdateProvider(q)

\* What an awaited operation of the request leads to.
Settles(q) ==
  \/ RebuildRuntime(q) \/ SessionRemoved(q)
  \/ PreparedReplacement(q) \/ PreparedSettings(q) \/ PrepareFails(q)
  \/ Discarded(q)
  \/ BaseRetired(q) \/ BaseRetirementFails(q) \/ Stopped(q)
  \/ Persisted(q) \/ PersistFails(q)
  \/ Recovered(q) \/ RecoveryFails(q)

Next ==
  \/ \E q \in Requests : Route(q) \/ Acquire(q) \/ Settles(q) \/ Assign(q)
  \/ Chat
  \/ \E r \in Runtimes : RunEnds(r)
  \/ \E s \in Sessions : Rollback(s)
  \/ Shutdown \/ FinalCheck

\* Promises settle and their continuations run.  Routes, chats, the end of a
\* run and the shutdown need not happen.
Fairness ==
  \A q \in Requests :
    WF_vars(Acquire(q)) /\ WF_vars(Settles(q)) /\ WF_vars(Assign(q))

Spec == Init /\ [][Next]_vars /\ Fairness

-----------------------------------------------------------------------------
(* Properties                                                              *)

\* Every authority that is still active is the selected one or belongs to the
\* request in its turn: whichever step of a replacement or of a settings change
\* fails, and wherever the shutdown falls, no authority is left behind active
\* with nobody to retire it (index.ts:521-541, settings-enrollment.ts:27-80).
NoAuthorityLeak ==
  \A r \in Runtimes :
    Active(r) =>
      \/ r = now.authority
      \/ holder # None /\ r \in {request[holder].base, request[holder].next}

\* While the service accepts requests, the agent chats are given to belongs to
\* the selected authority, and that is active unless the request in its turn is
\* retiring it: a failed replacement never leaves a dead runtime selected.
ServedIsLive ==
  accepting =>
    /\ now.agent = now.authority
    /\ now.agent # 0 =>
         \/ Active(now.agent)
         \/ /\ holder # None
            /\ request[holder].base = now.agent
            /\ request[holder].stage \in {"retiring", "stopping"}

\* A runtime is selected only when every other authority has been retired, also
\* when a request publishes while the shutdown is under way ("Revoke before
\* publish": index.ts:533-540).
RevokeBeforePublish ==
  [][ now'.authority \notin {0, now.authority} =>
        \A r \in Runtimes :
          r # now'.authority => runtime'[r].status # "active" ]_vars

\* Settings are published for the persona and the session that are current at
\* that moment, though both can change between capture and publication
\* (settings-enrollment.ts:36).
StaleNeverPublished ==
  [][ \A q \in Requests :
        (Settings(q) /\ holder = q /\ now'.authority \notin {0, now.authority}) =>
          /\ now.persona = request[q].persona
          /\ now.session = request[q].session
          /\ runtime'[now'.authority].session = now.session ]_vars

\* A request that waits for its turn gets it and ends, whatever fails on the
\* way: the mutex is always released.
MutationsFinish ==
  \A q \in Requests : request[q].stage = "queued" ~> request[q].stage = "done"

\* At most one agent runs (SEC-01 architecture, "Current-runtime single
\* flight"): the service has one conversation memory.  The code does not ensure
\* it: index.ts:523 looks at the agent before the await that prepares the next.
SingleFlight ==
  \A r, t \in Runtimes : run[r] = "running" /\ run[t] = "running" => r = t

\* While an agent runs, what it says is stored in the session of its run
\* (SEC-01 architecture: "tool-result routing never reread mutable
\* this.sessionId").  The code does not ensure it: ConversationMemory.add reads
\* its own sessionId (memory.ts:205), which the preparation of the next agent
\* switches.
MessagesStayInSession ==
  \A r \in Runtimes : run[r] = "running" => memory = runtime[r].session

=============================================================================
