-------------------------- MODULE CapabilityBroker --------------------------
(***************************************************************************)
(* The capability broker (src/capability-broker.ts): runtime authorities,  *)
(* the tree of capability contexts below each of them, the approval        *)
(* challenges and the single-use grants made from them, prepared tool      *)
(* calls, and the resource owners a run leaves behind to be drained.       *)
(*                                                                         *)
(* Every public method is synchronous, hence one action.  What is          *)
(* asynchronous is the drain of a resource owner (see OwnerLifecycle) and  *)
(* the promise callbacks that wait for it: `waits` holds one record per    *)
(* callback that has been attached and has not run.  A call that is denied *)
(* throws and changes nothing, so it is a disabled action here, except for *)
(* the one denial that has an effect (SessionMismatch).                    *)
(*                                                                         *)
(* Abstracted: the authority's epoch, which moves in the same step as its  *)
(* `active` flag and only once; the context's own PathAuthority, derived   *)
(* and revoked in the same steps as the context; risk classes and network  *)
(* policies, which attenuate as roots do; digests and ids; the wall clock, *)
(* of which only "this deadline has passed" is kept (`expired`).           *)
(***************************************************************************)
EXTENDS FiniteSets

CONSTANTS
  Authorities,      \* runtime authorities (RuntimeAuthority)
  Sessions,         \* session ids
  Personas,         \* persona names
  PersonaOf,        \* the persona each authority was prepared for
  Contexts,         \* capability contexts, one id per createContext
  Calls,            \* prepared tool calls, one id per inspectToolCall
  Challenges,       \* approval challenges
  Owners,           \* resource owners
  Tools,            \* tools the persona binds
  ApprovalTools,    \* those whose policy has approval = "user"
  Arguments,        \* canonical argument digests
  Roots,            \* path roots the persona allows
  None              \* absence: null in the code

ASSUME ApprovalToolsAssumption == ApprovalTools \subseteq Tools
ASSUME PersonaOfAssumption == PersonaOf \in [Authorities -> Personas]
ASSUME NoneAssumption ==
  /\ None \notin Authorities \cup Sessions \cup Personas \cup Contexts
  /\ None \notin Calls \cup Challenges \cup Owners \cup Tools
  /\ None \notin Arguments
ASSUME IdsAssumption == Contexts \cap Authorities = {}
\* challenge ids and context ids name different deadlines
ASSUME DeadlineIdsAssumption == Contexts \cap Challenges = {}

VARIABLES
  authority,     \* AuthorityRecord.active and .activeRoot
  pending,       \* AuthorityRecord.pendingResourceSessions
  blocked,       \* AuthorityRecord.blockedResourceSessions
  persona,       \* what resolveSessionPersona answers for a session
  context,       \* ContextRecord
  call,          \* InspectedToolCallRecord
  challenge,     \* ChallengeRecord
  expired,       \* challenges and direct contexts past their expiresAtMs
  owner,         \* ResourceOwnerRecord, and its place in resourceOwners
  waits          \* attached callbacks on owners' retirements

vars == <<authority, pending, blocked, persona, context, call, challenge,
          expired, owner, waits>>

runVars   == <<authority, context, challenge>>
ownerVars == <<pending, blocked, owner, waits>>

Principals == {"agent", "subagent", "playbook", "local-user-api"}

ContextRecord ==
  [status    : {"unused", "active", "revoked"},
   authority : Authorities \cup {None},
   parent    : Contexts \cup {None},
   ancestors : SUBSET Contexts,
   domain    : Contexts \cup Authorities \cup {None},
   principal : Principals,
   session   : Sessions \cup {None},
   tools     : SUBSET Tools,
   roots     : SUBSET Roots,
   grant     : Challenges \cup {None},
   spent     : BOOLEAN]

CallRecord ==
  [source : Contexts \cup {None}, tool : Tools \cup {None},
   args : Arguments \cup {None}, by : Contexts \cup {None}]

ChallengeRecord ==
  [status : {"unused", "open", "approved", "denied", "void"},
   parent : Contexts \cup {None}, tool : Tools \cup {None},
   args : Arguments \cup {None}]

OwnerRecord ==
  [phase     : {"unused", "live", "draining", "overdue", "released", "failed"},
   authority : Authorities \cup {None},
   session   : Sessions \cup {None},
   domain    : Contexts \cup Authorities \cup {None},
   principal : Principals,
   roots     : SUBSET Roots,
   held      : BOOLEAN]

WaitRecord ==
  [kind : {"run", "session"}, authority : Authorities, session : Sessions,
   owners : SUBSET Owners]
  \cup
  [kind : {"authority"}, authority : Authorities, session : {None},
   owners : SUBSET Owners]

UnusedContext ==
  [status |-> "unused", authority |-> None, parent |-> None, ancestors |-> {},
   domain |-> None, principal |-> "agent", session |-> None, tools |-> {},
   roots |-> {}, grant |-> None, spent |-> FALSE]
UnusedCall == [source |-> None, tool |-> None, args |-> None, by |-> None]
UnusedChallenge ==
  [status |-> "unused", parent |-> None, tool |-> None, args |-> None]
UnusedOwner ==
  [phase |-> "unused", authority |-> None, session |-> None, domain |-> None,
   principal |-> "agent", roots |-> {}, held |-> FALSE]

\* The type invariant.
TypeOK ==
  /\ authority \in [Authorities ->
       [status : {"none", "active", "retired"}, activeRoot : Contexts \cup {None}]]
  /\ pending \in [Authorities -> SUBSET Sessions]
  /\ blocked \in [Authorities -> SUBSET Sessions]
  /\ persona \in [Sessions -> Personas \cup {None}]
  /\ context \in [Contexts -> ContextRecord]
  /\ call \in [Calls -> CallRecord]
  /\ challenge \in [Challenges -> ChallengeRecord]
  /\ expired \in SUBSET (Challenges \cup Contexts)
  /\ owner \in [Owners -> OwnerRecord]
  /\ waits \in SUBSET WaitRecord

Init ==
  /\ authority = [a \in Authorities |-> [status |-> "none", activeRoot |-> None]]
  /\ pending = [a \in Authorities |-> {}]
  /\ blocked = [a \in Authorities |-> {}]
  /\ persona \in [Sessions -> Personas]
  /\ context = [c \in Contexts |-> UnusedContext]
  /\ call = [k \in Calls |-> UnusedCall]
  /\ challenge = [h \in Challenges |-> UnusedChallenge]
  /\ expired = {}
  /\ owner = [o \in Owners |-> UnusedOwner]
  /\ waits = {}

-----------------------------------------------------------------------------
(* Guards shared by the operations.                                        *)

Active(c) == context[c].status = "active"

AuthorityActive(a) == authority[a].status = "active"

\* requireActiveContext up to the session check.
Current(c) == Active(c) /\ AuthorityActive(context[c].authority)

SessionMatches(c) ==
  persona[context[c].session] = PersonaOf[context[c].authority]

\* requireActiveContext returns.
Usable(c) ==
  /\ Current(c)
  /\ SessionMatches(c)
  /\ context[c].parent # None => Active(context[c].parent)

\* Fault: only the context itself is revoked.
SubtreeWithoutChildren(c) == {d \in {c} : Active(d)}

\* The contexts revokeContext(c) reaches: c and, through `children`, every
\* active context below it.
Subtree(c) ==
  {d \in Contexts : Active(d) /\ (d = c \/ c \in context[d].ancestors)}

-----------------------------------------------------------------------------
(* The effects of revokeContext on the contexts S it reaches.              *)

ContextsRevoked(S) ==
  [c \in Contexts |-> IF c \in S
     THEN [context[c] EXCEPT !.status = "revoked", !.spent = TRUE]
     ELSE context[c]]

\* Challenges of a revoked parent are consumed and deleted.
ChallengesVoided(S) ==
  [h \in Challenges |->
     IF /\ challenge[h].status = "open"
        /\ challenge[h].parent \in S \/ ~Active(challenge[h].parent)
     THEN [challenge[h] EXCEPT !.status = "void"]
     ELSE challenge[h]]

\* Fault: revocation leaves activeRoot.
RootsKept(S) == authority

RootsCleared(S) ==
  [a \in Authorities |-> IF authority[a].activeRoot \in S
     THEN [authority[a] EXCEPT !.activeRoot = None]
     ELSE authority[a]]

\* Fault: the key prefix matches the agent's own owners only.
AgentOwners(S) ==
  {o \in Owners : owner[o].held /\ owner[o].domain \in S
                                /\ owner[o].principal = "agent"}

\* Owners whose key carries the run of a root context in S.
RunOwners(S) ==
  {o \in Owners : owner[o].held /\ owner[o].domain \in S}

PendingAdded(O) ==
  [a \in Authorities |->
     pending[a] \cup {owner[o].session : o \in {p \in O : owner[p].authority = a}}]

\* retireResourceOwner: an owner already retired keeps its retirement.
OwnersRetired(O) ==
  [o \in Owners |-> IF o \in O /\ owner[o].phase = "live"
     THEN [owner[o] EXCEPT !.phase = "draining"]
     ELSE owner[o]]

RunWaits(O) ==
  {[kind |-> "run", authority |-> owner[o].authority,
    session |-> owner[o].session, owners |-> {o}] : o \in O}

\* revokeContext, for the contexts S it reaches.
Revoke(S) ==
  /\ context' = ContextsRevoked(S)
  /\ challenge' = ChallengesVoided(S)
  /\ authority' = RootsCleared(S)
  /\ pending' = PendingAdded(RunOwners(S))
  /\ owner' = OwnersRetired(RunOwners(S))
  /\ waits' = waits \cup RunWaits(RunOwners(S))

-----------------------------------------------------------------------------
(* Authorities and contexts.                                               *)

\* The session store changes under the broker: a session is given another
\* persona, or deleted.
SetSessionPersona(s, p) ==
  /\ persona[s] # p
  /\ persona' = [persona EXCEPT ![s] = p]
  /\ UNCHANGED <<authority, pending, blocked, context, call, challenge,
                 expired, owner, waits>>

CreateRuntimeAuthority(a) ==
  /\ authority[a].status = "none"
  /\ authority' = [authority EXCEPT ![a].status = "active"]
  /\ UNCHANGED <<pending, blocked, persona, context, call, challenge,
                 expired, owner, waits>>

BeginAgentRun(a, s, c) ==
  /\ AuthorityActive(a)
  /\ authority[a].activeRoot = None
  /\ persona[s] = PersonaOf[a]
  /\ context[c].status = "unused"
  /\ context' = [context EXCEPT ![c] =
       [status |-> "active", authority |-> a, parent |-> None,
        ancestors |-> {}, domain |-> c, principal |-> "agent", session |-> s,
        tools |-> Tools, roots |-> Roots, grant |-> None, spent |-> FALSE]]
  /\ authority' = [authority EXCEPT ![a].activeRoot = c]
  /\ UNCHANGED <<persona, call, challenge, expired>>
  /\ UNCHANGED ownerVars

\* createContext below a parent.
ChildContext(p, principal, T, R, grant) ==
  [status |-> "active", authority |-> context[p].authority, parent |-> p,
   ancestors |-> context[p].ancestors \cup {p}, domain |-> context[p].domain,
   principal |-> principal, session |-> context[p].session, tools |-> T,
   roots |-> R, grant |-> grant, spent |-> FALSE]

\* The tool that starts a child of this kind.
SpawningTool(principal) ==
  IF principal = "subagent" THEN "subagent" ELSE "playbook_execute"

\* Fault: a child keeps the tool that starts children of its kind.
InheritableRecursive(p, principal) == context[p].tools \ ApprovalTools

\* The bindings a child may take from p: approval-bound tools stay behind, and
\* so does the tool that would start another child of the same kind.
Inheritable(p, principal) ==
  (context[p].tools \ ApprovalTools) \ {SpawningTool(principal)}

DeriveChild(p, principal, T, R, d) ==
  /\ Usable(p)
  /\ context[p].principal # "local-user-api"
  /\ T \subseteq Inheritable(p, principal)
  /\ R \subseteq context[p].roots
  /\ context[d].status = "unused"
  /\ context' = [context EXCEPT ![d] = ChildContext(p, principal, T, R, None)]
  /\ UNCHANGED <<authority, persona, call, challenge, expired>>
  /\ UNCHANGED ownerVars

\* A tool running under a grant derives children from the grant's parent.
DeriveInvocationChild(c, principal, T, R, d) ==
  /\ Usable(c)
  /\ context[c].grant # None
  /\ DeriveChild(context[c].parent, principal, T, R, d)

IssueLocalApiContext(a, s, c) ==
  /\ AuthorityActive(a)
  /\ persona[s] = PersonaOf[a]
  /\ context[c].status = "unused"
  /\ context' = [context EXCEPT ![c] =
       [status |-> "active", authority |-> a, parent |-> None,
        ancestors |-> {}, domain |-> a, principal |-> "local-user-api",
        session |-> s, tools |-> {}, roots |-> Roots, grant |-> None,
        spent |-> FALSE]]
  /\ UNCHANGED <<authority, persona, call, challenge, expired>>
  /\ UNCHANGED ownerVars

AuthorizeDirectOperation(c) ==
  /\ Usable(c)
  /\ context[c].principal = "local-user-api"
  /\ c \notin expired
  /\ ~context[c].spent
  /\ context' = [context EXCEPT ![c].spent = TRUE]
  /\ UNCHANGED <<authority, persona, call, challenge, expired>>
  /\ UNCHANGED ownerVars

FinishContext(c) ==
  /\ Active(c)
  /\ Revoke(Subtree(c))
  /\ UNCHANGED <<blocked, persona, call, expired>>

\* Any operation on a context whose session no longer has the persona of its
\* authority is denied, and revokes the context on the way out.
SessionMismatch(c) ==
  /\ Current(c)
  /\ ~SessionMatches(c)
  /\ Revoke(Subtree(c))
  /\ UNCHANGED <<blocked, persona, call, expired>>

-----------------------------------------------------------------------------
(* Prepared calls, approval and invocation.                                *)

InspectToolCall(c, t, x, k) ==
  /\ Usable(c)
  /\ context[c].principal # "local-user-api"
  /\ t \in context[c].tools
  /\ call[k] = UnusedCall
  /\ call' = [call EXCEPT ![k] =
       [source |-> c, tool |-> t, args |-> x, by |-> None]]
  /\ UNCHANGED <<persona, expired>>
  /\ UNCHANGED runVars /\ UNCHANGED ownerVars

CreateApprovalChallenge(c, k, h) ==
  /\ Usable(c)
  /\ call[k].source = c
  /\ call[k].tool \in context[c].tools \cap ApprovalTools
  /\ challenge[h].status = "unused"
  /\ challenge' = [challenge EXCEPT ![h] =
       [status |-> "open", parent |-> c, tool |-> call[k].tool,
        args |-> call[k].args]]
  /\ UNCHANGED <<authority, persona, context, call, expired>>
  /\ UNCHANGED ownerVars

\* challenge found, not consumed, not expired, its parent usable.
Answerable(h) ==
  /\ challenge[h].status = "open"
  /\ h \notin expired
  /\ Usable(challenge[h].parent)

DenyChallenge(h) ==
  /\ Answerable(h)
  /\ challenge' = [challenge EXCEPT ![h].status = "denied"]
  /\ UNCHANGED <<authority, persona, context, call, expired>>
  /\ UNCHANGED ownerVars

ApproveChallenge(h, d) ==
  LET p == challenge[h].parent IN
  /\ Answerable(h)
  /\ context[d].status = "unused"
  /\ challenge' = [challenge EXCEPT ![h].status = "approved"]
  /\ context' = [context EXCEPT ![d] =
       ChildContext(p, context[p].principal, {challenge[h].tool},
                    context[p].roots, h)]
  /\ UNCHANGED <<authority, persona, call, expired>>
  /\ UNCHANGED ownerVars

\* The call was prepared by this context, or by the parent of this grant.
SourceMatches(c, k) ==
  \/ call[k].source = c
  \/ /\ context[c].grant # None
     /\ context[c].parent = call[k].source

\* Fault: a grant covers its tool whatever the arguments.
GrantCoversTool(c, k) ==
  LET h == context[c].grant IN
  /\ h # None
  /\ challenge[h].tool = call[k].tool
  /\ h \notin expired
  /\ ~context[c].spent

\* Fault: a grant is not checked for reuse.
GrantCoversAgain(c, k) ==
  LET h == context[c].grant IN
  /\ h # None
  /\ challenge[h].tool = call[k].tool
  /\ challenge[h].args = call[k].args
  /\ h \notin expired

\* A tool that needs approval runs on an unused grant for exactly this call.
GrantCovers(c, k) ==
  LET h == context[c].grant IN
  /\ h # None
  /\ challenge[h].tool = call[k].tool
  /\ challenge[h].args = call[k].args
  /\ h \notin expired
  /\ ~context[c].spent

InvokeTool(c, k) ==
  /\ Usable(c)
  /\ context[c].principal # "local-user-api"
  /\ call[k].source # None
  /\ SourceMatches(c, k)
  /\ call[k].tool \in context[c].tools
  /\ call[k].by = None
  /\ \/ /\ call[k].tool \in ApprovalTools
        /\ GrantCovers(c, k)
        /\ context' = [context EXCEPT ![c].spent = TRUE]
     \/ /\ call[k].tool \notin ApprovalTools
        /\ UNCHANGED context
  /\ call' = [call EXCEPT ![k].by = c]
  /\ UNCHANGED <<authority, persona, challenge, expired>>
  /\ UNCHANGED ownerVars

\* Time passes: the deadline of a challenge (and of the grant made from it) or
\* of a direct operation goes by.
Expire(e) ==
  /\ e \notin expired
  /\ \/ e \in Challenges /\ challenge[e].status # "unused"
     \/ /\ e \in Contexts
        /\ context[e].status # "unused"
        /\ context[e].principal = "local-user-api"
  /\ expired' = expired \cup {e}
  /\ UNCHANGED <<persona, call>>
  /\ UNCHANGED runVars /\ UNCHANGED ownerVars

-----------------------------------------------------------------------------
(* Resource owners.                                                        *)

HeldOwners(a) == {o \in Owners : owner[o].held /\ owner[o].authority = a}

\* The key under which resourceOwners holds an owner.
KeyOf(r) == <<r.authority, r.session, r.domain, r.principal, r.roots>>

\* A second call under the same key returns the owner already issued, or is
\* denied when that owner is retired: only the first one changes anything.
GetResourceOwner(c, o) ==
  LET a == context[c].authority IN
  /\ Usable(c)
  /\ context[c].session \notin blocked[a] \cup pending[a]
  /\ \A q \in HeldOwners(a) : KeyOf(owner[q]) # KeyOf(context[c])
  /\ owner[o].phase = "unused"
  /\ owner' = [owner EXCEPT ![o] =
       [phase |-> "live", authority |-> a, session |-> context[c].session,
        domain |-> context[c].domain, principal |-> context[c].principal,
        roots |-> context[c].roots, held |-> TRUE]]
  /\ UNCHANGED <<pending, blocked, waits, persona, call, expired>>
  /\ UNCHANGED runVars

\* With no owner to wait for, the session is cleared at once.
RetireSessionResources(a, s) ==
  LET O == {o \in HeldOwners(a) : owner[o].session = s} IN
  /\ authority[a].status # "none"
  /\ \/ /\ O # {}
        /\ pending' = [pending EXCEPT ![a] = @ \cup {s}]
        /\ owner' = OwnersRetired(O)
        /\ waits' = waits \cup {[kind |-> "session", authority |-> a,
                                 session |-> s, owners |-> O]}
     \/ /\ O = {}
        /\ pending' = [pending EXCEPT ![a] = @ \ {s}]
        /\ UNCHANGED <<owner, waits>>
  /\ UNCHANGED <<blocked, persona, call, expired>>
  /\ UNCHANGED runVars

\* revokeAuthority and retireAuthority (beginAuthorityRetirement).
RetireAuthority(a) ==
  LET S == {c \in Contexts : Active(c) /\ context[c].authority = a} IN
  /\ AuthorityActive(a)
  /\ authority' = [authority EXCEPT ![a] =
                     [status |-> "retired", activeRoot |-> None]]
  /\ context' = ContextsRevoked(S)
  /\ challenge' = ChallengesVoided(S)
  /\ pending' = PendingAdded(RunOwners(S))
  /\ owner' = OwnersRetired(RunOwners(S) \cup HeldOwners(a))
  /\ waits' = waits \cup RunWaits(RunOwners(S))
                    \cup {[kind |-> "authority", authority |-> a,
                           session |-> None, owners |-> HeldOwners(a)]}
  /\ UNCHANGED <<blocked, persona, call, expired>>

\* The owner's closers have all settled.
OwnerDrained(o) ==
  /\ owner[o].phase \in {"draining", "overdue"}
  /\ \E result \in {"released", "failed"} :
       /\ owner[o].phase = "overdue" => result = "failed"
       /\ owner' = [owner EXCEPT ![o].phase = result]
  /\ UNCHANGED <<pending, blocked, waits, persona, call, expired>>
  /\ UNCHANGED runVars

\* The retirement deadline fires first; the drain goes on unobserved.
OwnerDeadline(o) ==
  /\ owner[o].phase = "draining"
  /\ owner' = [owner EXCEPT ![o].phase = "overdue"]
  /\ UNCHANGED <<pending, blocked, waits, persona, call, expired>>
  /\ UNCHANGED runVars

Rejected(o) == owner[o].phase \in {"overdue", "failed"}

Dropped(O) ==
  [o \in Owners |-> IF o \in O THEN [owner[o] EXCEPT !.held = FALSE] ELSE owner[o]]

\* Every retirement the callback waits for has resolved.
WaitResolves(w) ==
  /\ \A o \in w.owners : owner[o].phase = "released"
  /\ owner' = Dropped(w.owners)
  /\ pending' = [pending EXCEPT ![w.authority] = @ \ {w.session}]
  /\ waits' = waits \ {w}
  /\ UNCHANGED <<blocked, persona, call, expired>>
  /\ UNCHANGED runVars

\* Fault: the catch handler does not clear the pending session.
WaitRejectsStillPending(w) ==
  /\ \E o \in w.owners : Rejected(o)
  /\ blocked' = [blocked EXCEPT ![w.authority] =
                   IF w.kind = "authority" THEN @ ELSE @ \cup {w.session}]
  /\ waits' = waits \ {w}
  /\ UNCHANGED <<pending, owner, persona, call, expired>>
  /\ UNCHANGED runVars

\* Fault: a rejected retirement is cleaned up like a resolved one.
WaitRejectsAsResolved(w) ==
  /\ \E o \in w.owners : Rejected(o)
  /\ owner' = Dropped(w.owners)
  /\ pending' = [pending EXCEPT ![w.authority] = @ \ {w.session}]
  /\ waits' = waits \ {w}
  /\ UNCHANGED <<blocked, persona, call, expired>>
  /\ UNCHANGED runVars

\* One of them has rejected: the session is poisoned, the owners stay.
WaitRejects(w) ==
  /\ \E o \in w.owners : Rejected(o)
  /\ pending' = [pending EXCEPT ![w.authority] = @ \ {w.session}]
  /\ blocked' = [blocked EXCEPT ![w.authority] =
                   IF w.kind = "authority" THEN @ ELSE @ \cup {w.session}]
  /\ waits' = waits \ {w}
  /\ UNCHANGED <<owner, persona, call, expired>>
  /\ UNCHANGED runVars

-----------------------------------------------------------------------------
CallerNext ==
  \/ \E a \in Authorities : CreateRuntimeAuthority(a)
  \/ \E a \in Authorities, s \in Sessions, c \in Contexts : BeginAgentRun(a, s, c)
  \/ \E p, d \in Contexts, principal \in {"subagent", "playbook"},
        T \in SUBSET Tools, R \in SUBSET Roots :
        DeriveChild(p, principal, T, R, d)
  \/ \E c, d \in Contexts, principal \in {"subagent", "playbook"},
        T \in SUBSET Tools, R \in SUBSET Roots :
        DeriveInvocationChild(c, principal, T, R, d)
  \/ \E a \in Authorities, s \in Sessions, c \in Contexts : IssueLocalApiContext(a, s, c)
  \/ \E c \in Contexts : AuthorizeDirectOperation(c)
  \/ \E c \in Contexts : FinishContext(c)
  \/ \E c \in Contexts : SessionMismatch(c)
  \/ \E c \in Contexts, t \in Tools, x \in Arguments, k \in Calls : InspectToolCall(c, t, x, k)
  \/ \E c \in Contexts, k \in Calls, h \in Challenges : CreateApprovalChallenge(c, k, h)
  \/ \E h \in Challenges : DenyChallenge(h)
  \/ \E h \in Challenges, d \in Contexts : ApproveChallenge(h, d)
  \/ \E c \in Contexts, k \in Calls : InvokeTool(c, k)
  \/ \E c \in Contexts, o \in Owners : GetResourceOwner(c, o)
  \/ \E a \in Authorities, s \in Sessions : RetireSessionResources(a, s)
  \/ \E a \in Authorities : RetireAuthority(a)

EnvironmentNext ==
  \/ \E s \in Sessions, p \in Personas \cup {None} : SetSessionPersona(s, p)
  \/ \E e \in Challenges \cup Contexts : Expire(e)

DrainNext ==
  \/ \E o \in Owners : OwnerDrained(o) \/ OwnerDeadline(o)
  \/ \E w \in waits : WaitResolves(w) \/ WaitRejects(w)

Next == CallerNext \/ EnvironmentNext \/ DrainNext

Spec == Init /\ [][Next]_vars
-----------------------------------------------------------------------------
(* What the broker promises.                                               *)

\* A context is active only while its authority and every context it was
\* derived from are active: finishing or revoking a run, retiring its
\* authority or losing its persona leaves nothing usable below it
\* (revokeContext's recursion, createContext's link to the parent).
ActiveAncestry ==
  \A c \in Contexts : Active(c) =>
    /\ AuthorityActive(context[c].authority)
    /\ \A d \in context[c].ancestors : Active(d)

\* An authority has at most one root agent run, and activeRoot is that run and
\* no other: a run that ended by any path does not leave the authority busy,
\* and no run goes on that activeRoot does not name (beginAgentRun,
\* revokeContext, beginAuthorityRetirement).
RunIsActiveRoot ==
  /\ \A c \in Contexts :
       Active(c) /\ context[c].principal = "agent" /\ context[c].parent = None
         => authority[context[c].authority].activeRoot = c
  /\ \A a \in Authorities : authority[a].activeRoot # None =>
       /\ Active(authority[a].activeRoot)
       /\ context[authority[a].activeRoot].authority = a

\* A tool that needs approval has run only under a grant made from a challenge
\* the user approved, for the same tool and the same arguments, and the call was
\* prepared by the grant or by the context that raised the challenge
\* (createApprovalChallenge, resolveApprovalChallenge, invokeTool).
ApprovalCoversExecution ==
  \A k \in Calls : call[k].by # None /\ call[k].tool \in ApprovalTools =>
    LET c == call[k].by
        h == context[c].grant
    IN /\ h # None
       /\ challenge[h] = [status |-> "approved", parent |-> context[c].parent,
                          tool |-> call[k].tool, args |-> call[k].args]
       /\ call[k].source \in {c, context[c].parent}

\* One approval runs one call: two calls that needed approval never ran on the
\* same challenge, through one grant or through two (GrantRecord.consumed,
\* ChallengeRecord.consumed).
OneExecutionPerApproval ==
  \A k, l \in Calls :
    /\ k # l
    /\ call[k].by # None /\ call[k].tool \in ApprovalTools
    /\ call[l].by # None /\ call[l].tool \in ApprovalTools
    => context[call[k].by].grant # context[call[l].by].grant

\* No context holds a tool or a root that one of its ancestors did not, only a
\* grant gives a derived context an approval-bound tool, and no chain of
\* children gives a subagent (a playbook) the tool that starts another
\* (deriveChild, resolveApprovalChallenge).
Attenuation ==
  \A c \in Contexts :
    /\ \A d \in context[c].ancestors :
         /\ context[c].tools \subseteq context[d].tools
         /\ context[c].roots \subseteq context[d].roots
         /\ context[d].principal \in {"subagent", "playbook"} =>
              SpawningTool(context[d].principal) \notin context[c].tools
    /\ context[c].parent # None /\ context[c].grant = None =>
         context[c].tools \cap ApprovalTools = {}

\* At the moment a tool runs, its context belongs to the run that its authority
\* has in progress (invokeTool).
RunsOnlyInCurrentRun ==
  [][\A k \in Calls : call'[k].by # call[k].by =>
       LET c == call'[k].by IN
       authority[context[c].authority].activeRoot = context[c].domain]_vars

\* A live resource owner belongs to a run still in progress, or to the local
\* user of an authority still active: no way of ending a run or an authority
\* leaves an owner that nobody retires (getResourceOwner, revokeContext,
\* beginAuthorityRetirement).
NoOrphanOwner ==
  \A o \in Owners : owner[o].phase = "live" =>
    /\ AuthorityActive(owner[o].authority)
    /\ owner[o].principal # "local-user-api" => Active(owner[o].domain)

\* Under one key an owner is replaced only once the previous one has been
\* released: two of them are never both unreleased (getResourceOwner,
\* retireSessionResources).
OneUnreleasedOwnerPerKey ==
  \A o, q \in Owners :
    /\ o # q
    /\ owner[o].phase \notin {"unused", "released"}
    /\ owner[q].phase \notin {"unused", "released"}
    => KeyOf(owner[o]) # KeyOf(owner[q])

\* "A retiring run prevents a replacement owner until its drain has converged"
\* (AuthorityRecord.pendingResourceSessions): while an owner of one run drains,
\* no other run of that session has a live owner.
NoReplacementWhileDraining ==
  \A o, q \in Owners :
    /\ owner[o].phase = "draining"
    /\ owner[o].principal # "local-user-api"
    /\ owner[q].phase = "live"
    /\ owner[q].principal # "local-user-api"
    /\ owner[q].authority = owner[o].authority
    /\ owner[q].session = owner[o].session
    => owner[q].domain = owner[o].domain

\* A session whose resources are retiring does not stay busy for ever.
PendingConverges ==
  \A a \in Authorities, s \in Sessions : s \in pending[a] ~> s \notin pending[a]

\* A drain that failed or overran its deadline poisons its session in the end,
\* unless the authority is gone (retireSessionResources, revokeContext).
RejectionPoisonsSession ==
  \A o \in Owners :
    Rejected(o) ~> \E a \in Authorities :
      /\ owner[o].authority = a
      /\ owner[o].session \in blocked[a] \/ ~AuthorityActive(a)

\* The deadline timer fires and promise callbacks run; closers may hang.
Fairness ==
  /\ \A o \in Owners : WF_vars(OwnerDeadline(o))
  /\ \A w \in WaitRecord : WF_vars(w \in waits /\ (WaitResolves(w) \/ WaitRejects(w)))

FairSpec == Spec /\ Fairness
=============================================================================
