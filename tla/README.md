# RainyDays in TLA+

RainyDays is a desktop agent: a Node service (`src/src/*.ts`) that runs a
language-model agent with tools, behind an Electron shell (`src/electron`) that
owns the window, the native dialogs and the credentials, and a Windows sandbox
host written in C++ (`src/native`). What makes it worth specifying is its
authority machinery: every tool call runs under a capability context that can
be revoked at any moment, dangerous calls need the user's approval, and every
process, handle and lease a run has opened must be gone before the next run may
take its place. All of that is spread over promises, timers, dialogs and window
events.

This directory holds TLA+ modules for those parts, TLC configurations that
check small instances, and proofs checked by TLAPS. Paths below are relative to
the repository's root; `index.ts` and so on stand for `src/index.ts`.

## 1. The system

| part | state it keeps | operations | interacts with |
|---|---|---|---|
| Capability broker, `capability-broker.ts` | authorities with `active`, `activeRoot`, pending and blocked sessions; contexts, grants, challenges, prepared calls; resource owners by key | `createRuntimeAuthority`, `beginAgentRun`, `deriveChild`, `deriveInvocationChild`, `issueLocalApiContext`, `inspectToolCall`, `createApprovalChallenge`, `resolveApprovalChallenge`, `invokeTool`, `authorizeDirectOperation`, `finishContext`, `getResourceOwner`, `retireSessionResources`, `retireAuthority`, `revokeAuthority` | called by the agent, the tools and `index.ts`; retires resource owners; asks `index.ts` for a session's persona |
| Resource owner, `resource-owner.ts` | closers by id, `active`, `retiring`, the retirement promise | issue, register, withdraw, retire, cleanup check | terminals, processes, leases and timers register closers |
| Manual consent, `manual-execution-consent.ts` with its callers in `index.ts` and `electron/main.cjs` | `#active`, `#consumed`; the dialog | `prepare`, `decide`, `invalidateAll`, `invalidateWebContents` | window events, runtime replacement, shutdown |
| Native process consent, `native-process-consent.ts` and its transport | generation, nonce, requests in flight on either side of a pipe | request, answer, invalidate, time out | approval of agent tool calls in the shell |
| Runtime lifecycle, `index.ts`, `settings-enrollment.ts` | `currentAuthority`, `agent`, `currentPersona`, `currentSessionId`, `memory`, the runtime mutex, incarnation | chat, rollback, new/select/delete session, switch persona, settings, provider, shutdown | owns everything above |
| Agent run, `agent.ts`, `llm.ts`, `supervisor.ts`, `tools/index.ts`, `tools/ask-user-tool.ts` | `running`, iteration, the message list, the pending approval or question | `run`, tool calls one after another | broker, memory, LLM |
| Path policy, `path-policy.ts`, `managed-path-store.ts` | tree of path authorities, leases, objects an operation has created | derive, revoke, read, list, lease, reveal, create, replace, reserve and commit, enroll, watch | broker, tools, file system |
| Bootstrap stores, `bootstrap-path-store.ts`, `bootstrap-database.ts` | identities of files used before there is a policy, leases on the model's files | open, check, close | embedding, database, shutdown |
| Execution isolation, `execution-isolation.ts`, `execution-runtime.ts`, `execution-native.ts` | grants, records and sessions of sandboxed processes | prepare, start, write, cancel, retire, shut down | resource owners, native launcher |
| Terminals, `terminal.ts` | terminals by id, subscribers | start, input, kill, close | resource owners, isolation |
| Sandbox launcher and host, `native/sandbox-host` | two pipes, job object, ACL journal | launch, terminate, report, clean up, recover | called by isolation |
| Memory and sessions, `memory.ts`, `session.ts` | messages by session | append, compact, clear, load | agent |
| Scheduler, `cron.ts`, `tools/cron-tools.ts` | rows, timers | schedule, fire, cancel, reload | agent, database |
| Subscriptions, `wire.ts` | watchers of directories | subscribe, unsubscribe, dispose | broker, path policy |
| Configuration, `config.ts` | `config.json`, its copy in memory, the current profile | store, delete, switch, enroll | runtime, path policy |
| Quitting, `electron/main.cjs`, `shutdown` in `index.ts` | what is still open | quit, refuse, finish | closes everything above |
| Tasks, subagents, playbooks | children of a run | start, step, finish | broker, agent |
| Daemon, tools, viewer, database, personas, web interface | formats and I/O | | |

The interactions are direct calls within one JavaScript thread, so a piece of
code between two `await`s is atomic and everything else interleaves: promise
callbacks, timers, HTTP routes, Electron events and the dialogs' answers.
The hard behaviours are therefore

- *what is read before an await and used after it*: bindings, busy checks, the
  current session (`index.ts` 312, 523, 1137, 1160);
- *revocation while something is under way*: a context, a challenge, a dialog,
  a decision or an execution whose run, authority or window goes away;
- *several drains that share one mark*: a session is pending while owners
  drain, and each owner's callback clears or poisons that mark on its own;
- *closers that fail or hang* against a deadline that gives up on them;
- *single use*: grants, prepared calls, challenges, nonces;
- *limits that are checked before an await or pruned lazily*;
- *time limits on both sides of a pipe*, and answers that cross them;
- *other threads, processes and programs*: the host's threads, a host or an
  application that dies, files that others replace between two looks.

What makes the parts correct, in a sentence each: nothing runs under a context
whose run, parent or authority is gone; what runs is what was approved, once;
no resource outlives its run unseen; a session is never left busy for ever;
the runtime that answers is the one that was asked; what the model is sent is a
whole conversation; a process is watched or ended; an operation on a file touches
what it has looked at, and undoes only what is its own; what was journalled
before a crash is undone after it; the application quits when everything is
closed. `PROJECT.json` lists the hazards line by line.

## 2. What is modelled

| module | code | role |
|---|---|---|
| `CapabilityBroker` | `capability-broker.ts` | the broker, with the retirements of its owners as phases |
| `OwnerLifecycle` | `resource-owner.ts` | abstract specification: what those who wait for a retirement may rely on |
| `ResourceOwner` | `resource-owner.ts` | the code of one owner; implements `OwnerLifecycle` |
| `ManualConsent` | `manual-execution-consent.ts`, `index.ts`, `electron/main.cjs` | ledger, dialog, window events, and runtime replacement as consent sees it |
| `RuntimeLifecycle` | `index.ts`, `settings-enrollment.ts`, parts of `agent.ts` and `memory.ts` | the selected runtime, the requests that replace it, chat, rollback, shutdown |
| `NativeConsent` | `native-process-consent.ts`, its transport, `electron/main.cjs` | ledger, pipes and dialog for a process the agent wants to start |
| `AgentRun` | `agent.ts`, `llm.ts`, `supervisor.ts`, `memory.ts`, `tools/index.ts`, `tools/ask-user-tool.ts` | a turn of the conversation; extends `NativeConsent`, which is one of the ways its calls are approved |
| `Quit` | `electron/main.cjs`, `shutdown` in `index.ts`, `embedding.ts`, the bootstrap stores | quitting; extends `ResourceOwner`, the first thing a shutdown retires |
| `Execution` | `execution-isolation.ts`, `execution-runtime.ts`, `execution-native.ts`, `terminal.ts` | launches, processes and terminals against owners and shutdown |
| `HostProtocol` | `execution-native.ts`, `sandbox-launcher.cpp`, `sandbox-host.cpp` | one execution: application, two pipes, the host's three threads, the job |
| `AclJournal` | `sandbox-host.cpp`, `journal.h`, `sandbox-launcher.cpp` | the entry on a root, its journal, and recovery after a crash |
| `PathReads`, `PathWrites` | `path-policy.ts` | operations that look at the disk, operations that change it |
| `Watches` | `wire.ts`, `capability-broker.ts`, `path-policy.ts` | a directory watcher in its three layers |
| `Scheduler` | `cron.ts`, `tools/cron-tools.ts`, `db.ts` | timed jobs, their rows and timers |
| `Configuration` | `config.ts`, `settings-enrollment.ts`, `index.ts`, `path-policy.ts` | who writes the configuration, and which the runtime gets |
| `MCCapabilityBroker`, `MCManualConsent`, `MCAgentRun`, `MCServices` | | constants, symmetry and scenes for TLC |
| `CapabilityBrokerProofs`, `ManualConsentProofs`, `RuntimeLifecycleProofs`, `AgentRunProofs` | | theorems on the modules of those names |
| `QuitProofs`, `PathProofs`, `SandboxProofs`, `ServicesProofs` | | theorems on `ResourceOwner` and `Quit`; on `PathReads`, `PathWrites` and `Watches`; on `Execution`, `HostProtocol` and `AclJournal`; on `Scheduler`, `Configuration` and the services side by side in `MCServices` |

Operators whose comment begins with "Fault:" are not part of a specification.
Each is a wrong version of the definition of similar name below it, such as a
programmer might write, and serves to see that a property notices it.

### CapabilityBroker

The broker's methods are synchronous, so each is one action, with its whole
effect. A denied call throws before it changes anything and is a disabled
action. The exception is `SessionMismatch`: `requireActiveContext` revokes the
context on its way out when the session no longer belongs to the authority's
persona. `Revoke(S)` is `revokeContext` applied to everything it reaches;
`S = Subtree(c)` is the closure over the `children` sets.

| state | in the code |
|---|---|
| `authority`, `pending`, `blocked` | `AuthorityRecord.active`, `.activeRoot`, `.pendingResourceSessions`, `.blockedResourceSessions` |
| `context` | `ContextRecord` with its grant; `spent` is `GrantRecord.consumed`, or that of a direct operation; `ancestors` the chain of `parent` |
| `call`, `challenge` | `InspectedToolCallRecord`, `ChallengeRecord`; a deleted challenge keeps its last status |
| `owner` | `ResourceOwnerRecord` as a phase of `OwnerLifecycle`; `held`: still in `resourceOwners` |
| `waits` | promise callbacks attached to retirements and not yet run: one per owner for a revoked run, one for all owners of a session or an authority |
| `persona` | what `resolveSessionPersona` answers; changed by the environment |
| `expired` | deadlines that have gone by |

A retirement that settles does not run its callbacks in the same step:
`OwnerDrained` and `OwnerDeadline` change the phase, `WaitResolves` and
`WaitRejects` are the callbacks, so that everything may happen between the two.

### OwnerLifecycle and ResourceOwner

`OwnerLifecycle` is a machine of five phases: live, draining, and then released,
failed, or overdue (rejected by the deadline with closers still running).
`ResourceOwner` has the closers, the `active` and `retiring` flags and the
retirement promise separately, as the code does, and maps them to a phase
(`PhaseNow`). `ImplementsLifecycle` is checked by TLC and proved. This is what
entitles `CapabilityBroker` to represent an owner by its phase.

### ManualConsent

`prepare` is a call of `prepareManualTerminalConsent`, `decision` one of
`decideManualTerminalConsent`, `entry` what the ledger holds of a challenge,
`runtime` the module variables of `index.ts` that consent reads, with the stage
a replacement is in. Three points deserve a justification.

- *A decision is two steps.* `decideManualTerminalConsent` awaits
  `currentManualConsentBinding()`, an async function, so that one microtask
  separates reading the binding (`Answer`) from `ledger.decide`
  (`DecideRuns`, `DecideDenied`, `DecideUnavailable`).
- *`SwitchPublish` waits for decisions in between.* The retirement of the old
  authority is awaited by the replacement and its promise chain takes more
  microtasks than that one; a decision that read the old binding has therefore
  reached the ledger before the new authority is published. After the old
  authority is retired no binding can be read until the new one is there.
  Likewise `Answer` does not fall between the publication of the new authority
  and the route's selection of its session: both are in one run of the microtask
  queue, and an answer comes from an IPC event. A shutdown, which is
  synchronous up to its first await, may fall between the two steps.
- *`gone`* are the requests whose page was navigated away from:
  `event.senderFrame` is then not the main frame, and the IPC handler refuses to
  decide.

`SwitchBegin`, `SwitchPrepared`, `SwitchPublish` and `SwitchSession` are
`replaceRuntimeAgentLocked` up to each of its awaits and the route around it.
`enrollAppSettings` invalidates, prepares, retires and publishes in the same
stages, with the session kept.

### RuntimeLifecycle

`now` is `currentAuthority`, `agent`, `currentPersona` and `currentSessionId`;
`runtime` what has been prepared, each an authority with the agent bound to it;
`memory` the session the one `ConversationMemory` stores messages in; `request`
the requests that change the runtime and the stage each is in, `holder` the one
`withRuntimeMutation` lets run. A stage ends at an await: `preparing`,
`retiring` and `stopping` are `replaceRuntimeAgentLocked`, and these with
`discarding`, `persisting` and `recovering` are `executeSettingsEnrollment` with
the adapter that `enrollAppSettings` gives it. Some points deserve a
justification.

- *After the turn.* When a turn ends the next request in line continues, and the
  route that has ended its turn makes its assignments, all in one run of the
  microtask queue: `Acquire` may come before `Assign`, everything else waits
  (`Settled`).
- *The memory is switched by the preparation.* `prepareRuntimeInstance` binds
  the next agent to its session before the base is retired, and no one
  switches it back when the candidate is dropped.
- *A retirement takes effect at once* (`active` is cleared synchronously) and is
  then awaited; if it fails the authority is retired nevertheless.
- *`commitCandidate` cannot fail here*: the lease it commits is rejected only
  after it was rolled back.
- *Shutdown takes no turn.* A request in its turn goes on, and its client may be
  gone, in which case `server.close` does not wait for it: `FinalCheck` may come
  before its publication.
- The model lets waiting requests acquire the turn in any order, where the code
  is first come, first served. What it shows to be safe is safe in that order.

### NativeConsent and AgentRun

`AgentRun` is a turn of the conversation, cut at its awaits: `run` holds what
`Agent.run` keeps in local variables, `attempt` and `request` what `chatStream`
keeps over its retries, `memory` the messages in memory, `stored` the rows of the
session the memory is bound to and `aside` those of another, `question` what waits
for the page's user. `NativeConsent` supplies the other
way of being approved: `entry` is the ledger, `child` and `parent` the two ends
of the transport, `toChild` and `toParent` the frames between them, `dialog` what
is on the screen. In a packaged application there are no pipes (`gate`).

- *A tool that has timed out goes on* (`lingering`): `executeTool` races the tool
  with a timer and drops the loser's result, not its effects.
- *The runtime is replaced under the run* (`ReplaceRuntime`): the next agent shares
  the one memory, and its preparation gives the memory the new prompt and, unless it
  has no session, the rows of its session, while the run of the old agent goes on to
  store what it has (`SetSession`, `agent.ts:36-45`, `index.ts:508-541`). The
  authority of the run is revoked, or kept if the replacement is given up. What the
  replacement itself may do wrong is `RuntimeLifecycle`'s; a second run that the new
  agent starts beside the old one is not in `AgentRun`.
- *Every call is shown to the supervisor*, which may deny it, leave it to the user
  although its policy does not ask for that, or let it pass (`Supervised`).
- *A scene* fixes what does not change in a behaviour: how the server runs, the
  kinds of call the model makes, how many turns and exchanges, and which events
  come from outside. The scenes of `MCAgentRun` are the combinations that meet in
  one piece of code; the product of all of them would add no meeting.
- *Compaction* keeps the newest messages, asks the model for a summary of the
  others and, if that fails, deletes from the front. Where it cuts, and which
  results it drops or takes along so as not to cut an exchange in two, is modelled
  as it is; whether the messages are over the token budget is a free choice.

### Quit

`stage` is the await `shutdown` is in, `open` what has not been closed, `load`
the loads of the embedding model with the lease each takes on the model's files,
`caller` those who wait in `embed`. `QuitPackaged` retires the owner of
`ResourceOwner`, and `OwnerStep` lets it go on. A cleanup that is rejected is told
to the user, who may quit again (`QuitRefused`). The model begins with a server
that has started; a shutdown by signal, which a Windows application does not
get, is left out, and the store's comparison of sizes and its revocation are one
step.

### The services

The components below share no state with one another. `MCServices` therefore
puts them side by side: `part` says which of them moves in a behaviour, the
others keep one initial state, and the reachable states are the sum, not the
product, of theirs. Each keeps its variables and its `Init`, `Next` and
specification to itself (`execVars`, `ExecInit`, `ExecNext`, `ExecSpec` and so
on); the theorems are about those specifications. The invariants speak of all parts
and are trivially true of those that stand still.

*Execution* (91 000 states). `launch` follows `startProcess` from one await to the
next: the service, the grant, the native call, the registration with the owner.
`process` is alive, told to end, or dead; `terminal` what `terminal.ts` lists.
`service` is the promise `executionService` memoises, failed ones included, until
a shutdown.

*HostProtocol* (140 000). `app` is the application with bridge and launcher,
`pipe` the control frames under way, `main` the host's main thread and what its
threads share, `thread` the control and the output thread, `tree` the processes
and whether the root is in the job, `report` what the launcher has read. The
application, the host and each process may die at any point. `FailJob`'s store
to `accepting`, its compare-and-swap of the reason and `TerminateJobObject` are
one step: the main thread joins both others before it reads the reason, so that
no one can see the difference. The job object kills its processes at once and
posts what it did; Windows is assumed to post an end-of-time or limit message
before the end it causes.

*AclJournal* (20 000). Each `host` adds its entry to the root's DACL between
journal files 0, 1, 2 ..., written to a temporary file, flushed and renamed; each
launch recovers under a mutex what hosts that are dead have left. `overwritten`
marks a DACL that changed between the last reading and `SetSecurityInfo`, for
which there is no compare-and-swap; `AceAccounted` exempts it, as does
`parity/SEC-03-EXECUTION-ISOLATION-ARCHITECTURE.md:176`.

*PathReads* (72 000). `auth` is a chain of authorities, the last the gateway of a
tool call, `object` the identity of what is at the path, `reading` an operation
with the identity it validated and the handle that is open for it. The disk
changes between any two steps, also between the last look of the policy
(`Rechecks`), the call of the callback, which is given a path (`Uses`), and what the
callback does with it. A program that is to run there is followed to its end:
the launcher finds the identities with handles that share deletion (`Probes`), opens
others that do not and finds them again (`Holds`), and the host that inherits
these looks once more before it resumes the program (`Resumes`). A handle that may
delete and shares deletion with nobody keeps the name from being given to anything
else, and a second launch from opening its own (`NamesHeld`). One operation is
checked: others influence it through revocations, which come from outside here, and
through the handles of a launch, which only keep things as they are; the proofs are
for any number (two exceed nine million states).

*PathWrites* (790 000). `disk` is the
object at each name, known by who created it; `write` an operation with the
identities it has looked at. Another program may change a name at any time
except in the interval between a last look and the call that uses it, about
which `parity/SEC-02-PATH-POLICY-ARCHITECTURE.md:34` claims nothing
(`Unobserved`).

*Watches* (238 000). `watch` has the three layers of each watcher, which are
created from the outside in and can be closed from any side, before the inner
ones exist. `watchOwner` is the owner of the run, `runtimePaths` the authority
above.

*Scheduler* (256 000). `row` is a job in the database, `timer` its timer, `up`
whether the server runs; after a restart the timers are made from the rows.
`TimeoutMax` is the largest delay a timer holds.

*Configuration* (271 000). `saving` is `saveConfig` for each of its callers: look
at the file, compare when the new one is complete, rename, look again, publish
in memory. A file is known by how often it was replaced (`configFile.version`).
`enrollment` is `executeSettingsEnrollment` with its persistence, `switch` another
request that rebuilds the runtime; both take the mutex, storing a provider does
not.

## 3. Runs

| run | instance | question | states |
|---|---|---|---|
| `broker_contexts` | 1 authority, 1 session, 3 contexts, 2 calls, 2 challenges, an approval-bound and a spawning tool, 2 arguments, 1 root | every order of starting, deriving, approving, invoking, revoking, retiring, expiring | 262 000 |
| `broker_owners` | 1 authority, 1 session, 2 contexts, 2 owners; fair | drains that succeed, fail or overrun around two runs | 94 000 |
| `broker_replacement` | 3 contexts, 3 owners | does a draining run keep a replacement owner out? No | violation |
| `manual_consent` | 2 requests, 2 decisions, 2 arguments, 2 sessions, 2 authorities, `MaxPending` 1, 2 invalidations of all consent | requests and answers against window events, replacement, shutdown | 740 000 |
| `consent_switch` | as `manual_consent` | does a request run in the runtime it was made in? Not always | violation |
| `runtime_lifecycle` | 2 requests, 2 personas, 2 sessions, 5 runtimes; fair | replacements, settings changes and their failures, with chats, rollbacks and the shutdown in between | 451 000 |
| `runtime_single_flight` | as `runtime_lifecycle` | does at most one agent run? No | violation |
| `runtime_messages` | as `runtime_lifecycle` | are messages stored in the session of their run? Not always | violation |
| `agent_run` | six scenes (below), 2 exchanges of 2 calls, 2 iterations, 1 retry, 2 replacements, 7 messages; fair | a turn through every way a call or an answer can fail, be refused, be late or be withdrawn, with the memory cleared, loaded or given another session under it | 169 000 |
| `quit` | 2 resources, 2 loads of the embedding model; fair | does the application quit only when everything is closed, and does the user get an answer | 81 000 |
| `services` | the eight components below | see the components | 1 528 000 |
| `cron_delay` | delays up to 3, a timer holds 2 | does no job fire early? A long one does | violation |

**What the bounds have to allow.** In `broker_contexts` three contexts give a
run with a child and a grandchild, or a run with two grants, or two runs one
after the other; two calls and two challenges are what "one execution per
approval" needs to fail, and two arguments what "exactly this call" needs. The
two tools are one that needs approval and one that starts children. In
`broker_owners` two contexts are two runs, or a run and its child, and with two
owners each may be replaced or may drain beside the other. A second authority
shares nothing with the first but the code, so that one suffices; that the
properties hold for any number is proved for the most important of them. In
`manual_consent` the second decision is the concurrent or repeated answer, the
second request fills the ledger (`MaxPending` is 1, 64 in the code, where only
"full" matters), and two invalidations are a replacement followed by a shutdown,
or two replacements. `MaxIncarnation` is the only bound that the code lacks; it
appears in the guards of `SwitchBegin` and `Shutdown` alone. In
`runtime_lifecycle` each request prepares at most two runtimes (a candidate and
a recovery), so that five are never too few (`MaxRuntimes`, the only bound); two
requests are what one behind the other, or one between the turn and the
assignments of another, needs. In `agent_run` two exchanges of two calls are
what an exchange that is torn, or cut by compaction, needs, and `MaxMessages` 7
(80 in the code) is passed by the second of them; two replacements take the memory
to another session and back, each at any await of two turns. In `quit` two loads are one
that fails and the next, or one that closing has passed over; a third is never
begun. In `services` three launches, two of them persistent, with `MaxTerminals`
1 let one terminal end while another waits; two writers are every pair of
operations on one name; two hosts share a root, each with three journal states;
two jobs have one tag or two, and only in `cron_delay` does a delay exceed
`TimeoutMax`, where jobs do fire early; two providers
and one enrollment are the three writers of one file. `MaxEnrollments`,
`MaxForeign`, `MaxFrames`, `MaxObjects`, `MaxQueued` and `Horizon` are bounds
that the code lacks; they stand in guards only, or limit the values that may
come from outside. Ids are finite sets and are used up, which is why
`CHECK_DEADLOCK` is off: a run may stop when they are. A finished owner, ledger
or runtime stops too.

**Symmetry** is used where ids differ by nothing but their names and no
liveness property is checked: contexts and calls of the broker, requests and
decisions of consent. In `services`, profiles and settings begin with one fixed
value each for the same reason, and of two writers the first has the kind that
comes first (`Kind`); there a state is compared by the part that moves, the
others being constant (`VIEW Moving`).

**Fairness.** Few kinds only. A deadline timer that is armed fires
(`OwnerDeadline`, `Deadline`), and a promise callback whose promises have
settled is run (`WaitResolves`, `WaitRejects`, `Acquire`, `Assign`): both are
promised by the event loop. In `runtime_lifecycle` an awaited operation of a
request settles, in success or failure (`Settles`): the retirement of an
authority because of its deadline, which `RetirementSettles` shows for each of
its owners, the others because they are file operations. In `agent_run` the run
itself goes on (`Progress`): the model answers, fails or times out, a tool
returns or its time limit passes, and timers fire. Of the user nothing is
assumed, which is why `RunEnds` excepts the dialog of a packaged application. In
`quit` the owner's deadline fires, a step of the shutdown whose wait is over
goes on, a run's own HTTP stream ends with its run, `taskkill` ends, and the
outcome of the cleanup reaches the shell. The processes that
`shutdownExecutionRuntime` awaits are assumed to end: `HostProtocol` shows who
ends them, with the exception told below. `services` has no liveness property.
Nothing is assumed of closers, which may hang, of callers or of users. The
liveness properties rest on that: `RetirementSettles` is about a caller that
must not hang with a closer, `QuitAnswered` about a user who must not wait for
one either, `RunEnds` about a run that nobody answers, `PendingConverges` and
`RejectionPoisonsSession` about a session that must not stay busy or be reused
after a drain that failed, `MutationsFinish` about a mutex that has to be
released on every path.

### What the runs show

*Broker.* `ActiveAncestry`: whatever ends part of the tree leaves nothing active
below it. `RunIsActiveRoot`: an authority is busy exactly while its run is
active, although `activeRoot` is cleared in three places. `ApprovalCoversExecution`
and `OneExecutionPerApproval`: an approval-bound tool ran only for an approved
challenge with the same tool and arguments, and no challenge served two
executions. `Attenuation`: tools and roots shrink along the tree, the recursion
ban survives it, and only a grant carries an approval-bound tool.
`RunsOnlyInCurrentRun` (of steps): a tool runs only in the run in progress.
`NoOrphanOwner`, `OneUnreleasedOwnerPerKey`: no way of ending a run leaves an
owner nobody retires, and no key has two owners that are not released.

*Owner.* `NothingLeftOpen`: a resolved retirement means that everything was
withdrawn or closed without error, and `ImplementsLifecycle` that what others
see of it is `OwnerLifecycle`. Both are checked where the owner is retired by a
shutdown.

*Consent.* `OneExecutionPerChallenge`, `ExecutesAsConfirmed`: what ran is what
was shown, once, where and when it was shown for. `WithdrawnNeverRuns` (of
steps): no challenge in the ledger at a withdrawal starts to run after it.
`WithinCapacity`: expired entries cannot overfill the ledger. That no entry is
left being executed by nobody (`ConsumingHasOneRunner`) is proved.

*Runtime.* `NoAuthorityLeak`: whatever step fails and wherever the shutdown
falls, an authority that is active is selected or belongs to the request in its
turn. `ServedIsLive`: no chat is given to a runtime whose replacement failed
after it was retired. `RevokeBeforePublish` (of steps): when a runtime is
selected every other one has been retired. `StaleNeverPublished` (of steps):
settings captured between another request's turn and its assignments are
discarded. `MutationsFinish`: a request in line gets its turn and ends.

*Agent run.* `ExchangesWhole`: every answer with tool calls that the model is
sent has all its results behind it, and no result stands alone, through refused,
failed and late calls, the message limit, compaction, a restart and a runtime that is
replaced for the same session. Exempt is an exchange during which the memory was
cleared, lost or given another session: that one may be torn in both sessions.
`RememberedAsStored`: what the memory holds of a conversation is the end of the rows
of the session it is bound to, nothing invented, repeated or left out in between.
Exempt is a memory that was given another session while a summary was being
written, which puts the messages of the session before back (`memory.ts:307`), until
it is loaded again.
`ExecutedAsApproved`: an answer that crosses a withdrawal, a time limit or the
end of the runtime executes nothing. `RunEnds`: a run ends although pipes break,
tools hang and nobody answers; only the dialog of a packaged application waits
for ever.

*Quit.* `QuitOnlyWhenClosed`: the first quit that is not refused finds
everything closed, and no lease on the model's files. `QuitAnswered`: a quit ends
in the end of the application or in a refusal, unless a client listens to
`/api/cron/events`, which nothing ends.

*Processes.* `NoProcessUnattended`: the process of a retired owner, of a terminal
that is stopped or not listed, has been told to end, also if it was launched while
its owner retired. `SupervisedRun`: a process that runs is in the job of a host
that lives and watches it. `CompletionTruthful`: code 0 means that the root ended
by itself, and a proof gives the reason of the code. `AceAccounted`: an entry on
the root belongs to a living host, or a later launch can remove it.

*Files.* `RunsWhereValidated`: a program runs in the directory that was
validated, which keeps its name until the program has ended, although the path
went from the policy to the launcher without anyone looking. No such thing holds
of what a callback is given (`withReveal`, `withInitialCwd`): `realpath` is
awaited after the last look, so that the path may lead to another object by
then; and what a read or a lease opens is compared in the same step that hands
it on. `NothingBehindRevocation` (of steps): nothing is begun under a revoked
authority. `ConservativeRollback`: a failed operation leaves nothing of its own
unless it says so, but for one case, and removes nothing of others. The case is
the temporary file of an atomic write whose writing fails (below).
`WatchersEnd`: no watcher outlives its owner or stays open when nobody owns it.

*Jobs and configuration.* `FiresOnce` (of steps, for delays that fit a timer): a
job that is cancelled or has fired does not fire, through restarts too.
`ConfigurationAgrees`: when nobody writes, file and memory are the same and the
current profile exists; the runtime has the settings that are stored unless a
provider was stored during an enrollment or a request waited behind one; a
profile reported as stored is there unless two were stored at once or during an
enrollment. The exceptions are real: see below.

### Disagreements with the repository's own statements

1. `broker_replacement`. The comment on `pendingResourceSessions` says that a
   retiring run prevents a replacement owner until its drain has converged.
   `revokeContext` attaches one callback per owner and each removes the session,
   so that the first owner to drain admits a replacement while the run's other
   owners still drain. `agent.ts` retires the session's resources as a whole
   before it finishes its context and does not meet this; a run revoked because
   its session changed persona does.
2. `consent_switch`. `parity/SEC-03-EXECUTION-ISOLATION-ARCHITECTURE.md` says
   that a session switch or an authority's retirement produces no side effect of
   a pending confirmation. A terminal request whose start directory is still
   being qualified is not in the ledger yet when a replacement invalidates it;
   it is then bound to the new runtime, shown, and runs there if approved.
3. `runtime_single_flight`. `parity/SEC-01-CAPABILITY-BROKER-ARCHITECTURE.md`
   says that there is at most one root run and a second chat is rejected. The
   busy check of a replacement precedes the await in which the next agent is
   prepared; a chat in that window runs on the old agent, and a second one is
   accepted by the new agent while the first still waits for the model.
4. `runtime_messages`. The same document says that the routing of results does
   not read mutable session state. `ConversationMemory.add` reads the memory's
   own session, which the preparation of the next agent switches: the rest of a
   run goes into another session's history. A rollback while the old authority is
   being retired, or settings that are discarded as stale behind the selection of
   a session, leave the memory in the wrong session for later runs too.
5. `cron_delay`. A delay of more than 2^31-1 ms does not fit a timer, which then
   takes 1 ms: a job 25 days ahead fires at once (`cron.ts:88`), although the
   tool promises the delay that was given (`tools/cron-tools.ts:41`).

More was found on the way that no run is about:

- *Configuration.* A provider stored from a snapshot that was taken before an
  enrollment's write, and renamed after it, puts the old settings back in file
  and memory while the runtime keeps the new roots;
  `parity/SEC-02-PATH-POLICY-ARCHITECTURE.md:164` forbids "disk/runtime
  disagreement and stale concurrent candidate publication". Stored after the
  comparison of digests it is overwritten though it was acknowledged; of two
  stored at once one is lost. A switch that waits behind an enrollment gives the
  persona the old settings and the roots the new ones (`index.ts` 553, 795, 1134
  against 526).
- *Quit.* A refused quit leaves `isShuttingDown` set, so that the next one finds
  the shutdown done and ends the application with the later stages open,
  although the user was told that the quit "remains blocked"
  (`electron/main.cjs:612`); in development the handle on the child is forgotten
  in the same way (524).
- *Path policy.* `openReadLease` opens the file before it checks again that its
  authority is active, and then closes it;
  `parity/SEC-02-PATH-POLICY-ARCHITECTURE.md:186` promises the check immediately
  before every open. When the temporary file of an atomic write cannot be
  written or flushed, it stays, and the error is an ordinary one
  (`path-policy.ts:1671-1680`, outside of the `try` whose handler rolls back);
  invariant 17 of the same document has an operation remove what it created, or
  fail with `PATH_ROLLBACK_FAILED`, and invariant 22 leaves no temporary file.
  `PathWrites` has this ending (`unsaved`), and `ConservativeRollback` names it
  as its exception. Two concurrent replacements of one file can both succeed.
- *Agent run.* A stream that fails after text was shown is tried again
  (`llm.ts:166-240`), against the comments, which say that there is no retry
  once the stream has started (`llm.ts:143`, `165`). The text that is stored is
  that of the last attempt; the page has shown the others. A summary that is
  being written when the memory is given another session overwrites that
  session's messages. `/api/clear` does not look whether a run is going on, and
  a compaction that is under way brings the messages back (`memory.ts:307`). The
  question to the user has five minutes, the approval behind it 60 seconds and
  the tool that asks 30 (`agent.ts` 262-305, `tools/index.ts:260`).
- *Terminals.* The limit is compared before the await that starts one
  (`terminal.ts:104`), so that concurrent starts exceed it. A service whose
  start failed is remembered until a shutdown.
- *Host.* A terminate frame that is read after the main thread has left its loop
  is not obeyed, and the execution is reported as completed; an exit during a
  write of input is reported as a failure of the protocol; a host killed between
  `CreateProcess` and the assignment to the job leaves a suspended process.
- *Journal.* A crash before the first file is published, or between two
  deletions, a failed write of the first file, another build, or a root that is
  gone make recovery refuse for good.
- *Jobs.* Every restart fires each repeating job at once, as `fire_at` is never
  updated; a one-shot job missed while the server was down is deactivated
  unfired; a job whose repetition cannot be parsed is reported as created and
  never fires.
- *Watchers.* A subscription that is cancelled while it is being opened does not
  close its lease; the watcher stays until the owner retires (`wire.ts:37`).


## 4. Proofs

All theorems are of the form `Spec => []P` or `Spec => [][A]_vars`, or say that one
specification implements another, for every value of
the constants under the named assumptions. Ids of different kinds are distinct
where the code could not confuse them (`IdsAssumption`,
`DeadlineIdsAssumption`; `WriteAssumption`: a writer is not called as one of the
other names or makers), `None` is not an id (`NoneAssumption`, `RequestsAssumption`),
approval tools are tools, the set of requests is finite, and sets without which
there is nothing to do are not empty (`MaxRuntimesAssumption`, `AclAssumption`,
`ConfigAssumption`). A call of the model is one of an exchange at a place in it
(`CallsAssumption`), and the memory has room for an exchange
(`MessagesAssumption`: with the 80 messages and 25 iterations of the code, one of
up to 52 calls). What ends a process other than
its own exit has an exit code of its own (`HostAssumption`).

Two theorems and a part of a third (`ServicesKeepPromises`) have a hypothesis,
`DelaysFit`: no delay exceeds what a timer holds. It cannot be dropped, as a
longer delay fires early (`cron_delay`) and, after a restart, again;
`OnlyActiveFires` is what remains without it. Two properties of the services
carry their exceptions in their statement by a variable that remembers them
(`overwritten`, `overlap`), two of the agent run as well (`interrupted`,
`mixed`), and one by the step (`unsaved`); the theorems prove them as they are
stated.

Each module proves inductive invariants with one lemma per kind of step, then the
theorems.

| theorem | says |
|---|---|
| `CapabilityBrokerProofs!TypeCorrect` | the broker's state keeps its types |
| `ActiveAncestryHolds`, `ApprovalCoversExecutionHolds`, `OneExecutionPerApprovalHolds`, `AttenuationHolds`, `RunIsActiveRootHolds`, `RunsOnlyInCurrentRunHolds`, `NoOrphanOwnerHolds`, `OneUnreleasedOwnerPerKeyHolds` | the properties of those names |
| `OwnersFollowLifecycle` | every owner of the broker: `Spec => Life(o)!Spec`, the abstract specification that `ResourceOwner` implements |
| `ManualConsentProofs!TypeCorrect`, `OneExecutionPerChallengeHolds`, `ExecutesAsConfirmedHolds`, `ConsumingHasOneRunnerHolds`, `WithdrawnNeverRunsHolds`, `WithinCapacityHolds` | the properties of those names |
| `RuntimeLifecycleProofs!TypeCorrect`, `NoLeak`, `RevokedFirst` | type correctness, `NoAuthorityLeak`, `RevokeBeforePublish` |
| `ServedIsLiveHolds`, `StaleNeverPublishedHolds` | the properties of those names |
| `AgentRunProofs!ExecutedAsApprovedHolds`, `RememberedAsStoredHolds` | the properties of those names, for conversations of any length and any number of replacements |
| `TypeOKHolds`, `ExchangesWholeHolds` | type correctness of the run with its memory, and `ExchangesWhole`, for any number of messages, exchanges, calls and iterations |
| `AtRestWholeHolds` | while no call of an answer is under way, memory and rows hold whole exchanges only, and the rows of the other session always do, but for the exchanges that were interrupted; no guidance and no summary is ever stored |
| `QuitProofs!TypeCorrect`, `NothingLeftOpenHolds`, `CleanupWindowHolds` | one owner: the properties of those names |
| `QuitProofs!Refinement` | one owner: `Spec => Lifecycle!Spec` |
| `QuitProofs!QuitUsesOwner` | a quit implies the specification of the owner it retires |
| `QuitLeavesNothingOpen`, `QuitTypeCorrect`, `QuitOnlyWhenClosedHolds` | `NothingLeftOpen` in a quit, type correctness, `QuitOnlyWhenClosed` |
| `PathProofs!ReadTypeCorrect`, `RunsWhereValidatedHolds`, `NothingBehindRevocationHolds` | operations that look, and programs that are run, for any number of them at once |
| `WriteTypeCorrect`, `ConservativeRollbackHolds` | operations that change, for any number of them and of changes by others |
| `WatchTypeCorrect`, `WatchersEndHolds` | watchers |
| `SandboxProofs!ExecTypeCorrect`, `NoProcessUnattendedHolds` | launches and terminals, for any number |
| `HostTypeCorrect`, `SupervisedRunHolds`, `CompletionTruthfulHolds` | one execution, for any number of frames, limits and reasons |
| `AclTypeCorrect`, `AceAccountedHolds` | the entries on a root, for any number of hosts |
| `ServicesProofs!CronTypeCorrect`, `OnlyActiveFires` | jobs: a job that is cancelled, or found too late, does not fire |
| `FiresOnceHolds`, `PunctualFirings` | under `DelaysFit`: `FiresOnce`; no job fires early (`NotBeforeItsTime`) |
| `ConfigTypeCorrect`, `ConfigurationAgreesHolds` | the configuration, for any number of providers, profiles and settings |
| `ServicesApart` | the services side by side imply the specification of each of them |
| `ServicesTypeOKHolds`, `ServicesKeepPromises` | what is proved of each service holds where they run together |

**Why the invariants need strengthening.** `ActiveAncestry` is preserved
only because ancestor sets are closed: an ancestor's ancestors are ancestors,
and a parent is one of them, so that revoking `Subtree(c)` cannot leave an
active context with a revoked ancestor. `ApprovalCoversExecution` looks at a
context that may have been revoked since; it needs to know that a context with a
grant never changes its parent and that a challenge once approved keeps its
tool, arguments and parent for good. `OneExecutionPerApproval` needs in addition
that one challenge gives one grant, and that a grant through which something
ran is `spent`. For consent the ledger and the two kinds of call
have to be related: a decision that runs has its entry in `consuming`; a stored
entry's binding was read under an authority that is retired if it is not the
present one; a challenge that was withdrawn is consumed or was already being
executed; a request becomes a challenge only once. That a decision's binding is
still current when it runs (`BoundIsCurrent`) is what makes `ExecutesAsConfirmed`
inductive, and is where the argument about microtasks enters.
For the runtime the stages have to be ordered: while a candidate is prepared or
the base retired, what is selected is the base or (after a shutdown) nothing;
from `retiring` on the base is inactive; from `persisting` on nothing is
selected; and a candidate is active in `retiring` and `persisting` alone. Only
the request in its turn is in one of these stages, which is the mutex.
For a quit each stage is related to what may still be open in it and to what was
awaited before it; a store that is closed has no lease, and a retirement that
has resolved stays so, which brings in the owner's own theorem.

`Attenuation` compares a context with its parent, and a run's root with the
authority. It is kept through approvals because a challenge asks only for what is
among the tools of the context that raised it (`Requested`), and because the root
of a derived context is an agent's without a parent (`Rooted`). For owners the
step from "unreleased" to "in the table" has to be made part of the invariant
(`StillHeld`): only then does the registration, which looks at the table, see
every owner of the key; and an owner that lives belongs to a run that is active
(`OwnedBy`), which is how a run that ends reaches it.

`ServedIsLive` needs that the agent is always that of the selected authority,
that this authority is active but for the turn that is retiring it, and that the
candidate is active when it is selected (`ServeInv`). `StaleNeverPublished` rests
on the order of assignments: once a turn has its candidate no earlier route is
still to assign persona and session (`LateSettled`), so that what settings were
captured with stays current until they are published.

For the agent run, `ExecutedAsApproved` speaks of calls long past. It is kept
because the frames on their way to the server approve only what the user has
approved, because the ledger waits for an answer exactly while the run does, and
because no call comes twice: what was executed, or withdrawn while it was asked
for, is a call the run has left, or the present one in a phase from which it
cannot be executed any more.

`ExchangesWhole` is about one request, but the memory it is made from has been
added to, cut at its limit, compacted and read back from rows since the
exchanges in it took place. Its invariant is `ConversationInv`. Memory and rows
hold whole exchanges, but for the answer whose calls are under way, which stands
at the end without results (`Open`), and for those during which the memory was
lost, cleared or given another session. The results are collected in the order
of the calls (`InOrder`), so that storing them makes the exchange whole. A
compaction continues with the request it had before the summary was asked for
(`Talk`). The rows of the other session are whole as well (`SessionsFormed`):
what a run has left open in them is interrupted. The message limit is the
delicate part: it keeps guidance and summaries first and gives the conversation
what room is left, so it would cut an exchange in two if guidance could pile up.
There is at most one summary, and one piece of guidance for an iteration
(`Guidance`), and by `MessagesAssumption` an exchange fits beside them.

The operators it speaks of select by role (`OfRoles`), take the last so many and drop
orphans. `OfRoles` is a recursive function of the module (`Selection`); the
proof shows that it exists and what it returns from the selection as it grows
message by message (`Steps`). Induction over a conversation is by the least
counterexample (`WFMin`), once message by message (`SeqInduction`) and once exchange
by exchange (`WholeInduction`). From these come the lemmas that a message added to
whole blocks leaves whole blocks (`AddingBlock`, `AddingTorn`) and that the limit does
(`LimitedBlock`).

`RememberedAsStored` says that the messages of the conversation in memory are an end
of the rows. Every step either adds the same message to both or cuts at the front of
one: the limit, the summary and the fallback keep an end of what is there, guidance
and prompts are system messages and do not count. The request from which a summary is
made is read before an await, so that the invariant has to hold of it as well while
the summary is written (`RememberedInv`).

Reads: from the opening of the launcher's handles to the end of the program they
are open and the path leads where it was validated (`HeldInPlace`), which the
probes alone would not give; and an active authority has an active parent
(`Rooted`), by which one look at the authority's own flag suffices. Watchers:
one that is or may still be opened is owned (`Held`), and a drained owner owns
none. Writes: whatever an operation has on the disk is in its list of made
objects, under the name it was made for or was renamed to (`PlacedOn`,
`Listed`), except the temporary file while it is being written, or when that has
failed; and the object that a removal has looked at is still its own
(`Prepared`).

Launches: a process that lives untold has an owner that is active or has not yet
registered, and then its launch will tell it (`Launched`). Host: which thread has
ended at which place of the main thread, and what it has said before it did
(`Threaded`), decides whether the reason is that of the end; the launch frame is
the first in the pipe (`Framed`); a root that was killed has left a reason or an
unclean end (`Jobbed`). Journal: which files a host has at which place
(`Journaled`), and that a host with an entry is at a place where they suffice
(`Accounted`); recovery deletes them only when the entry is away (`Taken`).

Jobs: a timer is that of an active job (`Timed`), a job that fired and stays
active is overdue by the time the server is up again (`Spent`), and no timer is set
for a time before the job's (`Punctual`). Configuration: the last to have renamed
its file is the one that memory will follow (`Replaced`), the runtime is absent
while an enrollment stores its settings (`Turns`), and outside of the exceptions
all copies of the settings and of the profiles are derived from one another
(`Undisturbed`, `Current`, `Stored`).

**Only model-checked.** Liveness under fairness, which the prover does not treat:
`RetirementSettles`, `PendingConverges`, `RejectionPoisonsSession`,
`MutationsFinish`, `RunEnds`, `QuitAnswered`. Every other property of a run that
passes has its theorem. Conversely, what is proved and would say little in a run is
not checked there: the type invariants of the broker, the owner, consent and the
runtime, `CleanupWindowOpen` and `ConsumingHasOneRunner`.

## 5. What is not modelled

- In the broker: registration of tools, the direct execution root, and network
  policies, which attenuate as roots do. The epoch of an authority moves
  together with `active` and is not kept apart.
- Of the runtime: the lease on the output directory, and startup. That the
  broker refuses a run while the previous one's resources are retired is in
  `CapabilityBroker`.
- In the consent ledger: evidence records (`attachObservation`), the two
  invalidations nothing calls, and the distinction between denial codes. Blurs
  that the modal dialog itself may cause depend on the platform; a blur can
  happen at any time here, which includes them.
- In the agent: the text of messages, streamed or stored, and how tokens are
  counted; which messages are over budget is a free choice. Rows are not deleted
  (rollback, `DELETE` of a session), and one agent runs at a time: what two of
  them do to the shared memory is `RuntimeLifecycle`'s, which shows that it
  happens.
- In executions: output and its offsets, denial evidence, proofs and their keys
  (frames are well formed and come from the other program), tokens and
  identities.
- In the path policy: the syntax of paths, contents (so that lost updates of two
  replacements are not seen), what Windows says of a root's access, audit
  events. A directory that is open has no identity, so that what a list returns
  may be of another; an object that is replaced and put back between two looks
  is the same. The sharing of handles is what Windows promises of NTFS.
- One hazard of the host has no property: `CancelSynchronousIo` can find the
  control thread between its check and its read, and the join then waits until
  the application sends a frame or dies. Nothing in the model says when a thread
  is in a system call.
- The bootstrap stores but for `Quit`: they compare two looks at identities and
  digests and by design do not see what is changed and undone in between.
- The daemon: a supervisor of one child and a timer. Whether its limit of
  restarts is ever reached depends on how long a start takes to fail
  (`daemon.ts:93`), which no text fixes.
- The database, the viewer, the tools' executors, the web interface, and the
  governance, build and test scripts: SQL, formats, I/O, rendering and tooling.
- The clock: only whether a deadline has gone by, except in `Scheduler`.

`PROJECT.json` gives the reason for each component left out.

## 6. Plan

What is left, in order of importance. Modules to be proved about use no recursive
operator.

1. Sessions and their database rows: creation, deletion and selection against a
   run that stores messages.
2. The viewer: parsers in worker threads with time limits and abandoned requests.
3. The daemon and the supervision of the child in development.
4. An abstract specification of the runtime: a register that is replaced
   atomically or not at all, implemented by `RuntimeLifecycle`.
