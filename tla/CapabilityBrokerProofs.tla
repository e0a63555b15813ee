----------------------- MODULE CapabilityBrokerProofs -----------------------
(* The safety of CapabilityBroker for any number of authorities, sessions,  *)
(* contexts, calls, challenges and owners.                                  *)
EXTENDS CapabilityBroker, TLAPS

\* What is in use is fully filled in: a context, challenge, or owner that was
\* ever created names the authority, session and parent it belongs to.
FormedContext(c) ==
  /\ context[c].status # "unused" =>
       /\ context[c].authority \in Authorities
       /\ context[c].session \in Sessions
       /\ context[c].domain \in Contexts \cup Authorities
  /\ context[c].status = "unused" => context[c] = UnusedContext
  /\ context[c].grant # None => context[c].parent \in Contexts

FormedChallenge(h) ==
  challenge[h].status # "unused" =>
    challenge[h].parent \in Contexts /\ challenge[h].tool \in Tools

FormedOwner(o) ==
  owner[o].held =>
    owner[o].authority \in Authorities /\ owner[o].session \in Sessions

Formed ==
  /\ \A c \in Contexts : FormedContext(c)
  /\ \A h \in Challenges : FormedChallenge(h)
  /\ \A o \in Owners : FormedOwner(o)

TypeInv == TypeOK /\ Formed

\* The types of what revokeContext computes.
LEMMA RevokeTypes ==
  ASSUME TypeInv, NEW S \in SUBSET Contexts
  PROVE  /\ ContextsRevoked(S) \in [Contexts -> ContextRecord]
         /\ ChallengesVoided(S) \in [Challenges -> ChallengeRecord]
         /\ RootsCleared(S) \in [Authorities ->
              [status : {"none", "active", "retired"}, activeRoot : Contexts \cup {None}]]
<1>1. ContextsRevoked(S) \in [Contexts -> ContextRecord]
  <2>1. ASSUME NEW r \in ContextRecord
        PROVE  [r EXCEPT !.status = "revoked", !.spent = TRUE] \in ContextRecord
    BY DEF ContextRecord
  <2>2. context \in [Contexts -> ContextRecord]
    BY DEF TypeInv, TypeOK
  <2> QED
    BY <2>1, <2>2 DEF ContextsRevoked
<1>2. ChallengesVoided(S) \in [Challenges -> ChallengeRecord]
  BY SMTT(30) DEF TypeInv, TypeOK, ChallengesVoided, ChallengeRecord
<1>3. RootsCleared(S) \in [Authorities ->
              [status : {"none", "active", "retired"}, activeRoot : Contexts \cup {None}]]
  BY DEF TypeInv, TypeOK, RootsCleared
<1> QED
  BY <1>1, <1>2, <1>3

\* The types of what retiring a set of held owners computes.
LEMMA RetireTypes ==
  ASSUME TypeInv, NEW O \in SUBSET Owners, \A o \in O : owner[o].held
  PROVE  /\ PendingAdded(O) \in [Authorities -> SUBSET Sessions]
         /\ OwnersRetired(O) \in [Owners -> OwnerRecord]
         /\ RunWaits(O) \subseteq WaitRecord
<1>1. PendingAdded(O) \in [Authorities -> SUBSET Sessions]
  BY DEF TypeInv, TypeOK, Formed, FormedOwner, PendingAdded
<1>2. OwnersRetired(O) \in [Owners -> OwnerRecord]
  <2>1. ASSUME NEW r \in OwnerRecord
        PROVE  [r EXCEPT !.phase = "draining"] \in OwnerRecord
    BY DEF OwnerRecord
  <2>2. owner \in [Owners -> OwnerRecord]
    BY DEF TypeInv, TypeOK
  <2> QED
    BY <2>1, <2>2 DEF OwnersRetired
<1>3. RunWaits(O) \subseteq WaitRecord
  BY DEF TypeInv, Formed, FormedOwner, RunWaits, WaitRecord
<1> QED
  BY <1>1, <1>2, <1>3

\* revokeContext changes only the status and the authorization of a context.
LEMMA RevokedFields ==
  ASSUME TypeOK, NEW S, context' = ContextsRevoked(S), NEW c \in Contexts
  PROVE  /\ c \in S => /\ context'[c].status = "revoked"
                       /\ context'[c].spent = TRUE
         /\ c \notin S => context'[c] = context[c]
         /\ context'[c].authority = context[c].authority
         /\ context'[c].parent = context[c].parent
         /\ context'[c].ancestors = context[c].ancestors
         /\ context'[c].domain = context[c].domain
         /\ context'[c].principal = context[c].principal
         /\ context'[c].session = context[c].session
         /\ context'[c].tools = context[c].tools
         /\ context'[c].roots = context[c].roots
         /\ context'[c].grant = context[c].grant
<1>1. context[c] \in ContextRecord
  BY DEF TypeOK
<1>2. ASSUME NEW r \in ContextRecord
      PROVE  LET q == [r EXCEPT !.status = "revoked", !.spent = TRUE] IN
             /\ q.status = "revoked" /\ q.spent = TRUE
             /\ q.authority = r.authority /\ q.parent = r.parent
             /\ q.ancestors = r.ancestors /\ q.domain = r.domain
             /\ q.principal = r.principal /\ q.session = r.session
             /\ q.tools = r.tools /\ q.roots = r.roots /\ q.grant = r.grant
  BY DEF ContextRecord
<1>3. context'[c] = IF c \in S
        THEN [context[c] EXCEPT !.status = "revoked", !.spent = TRUE]
        ELSE context[c]
  BY DEF ContextsRevoked
<1> QED
  BY <1>1, <1>2, <1>3

\* Voiding changes only the status of a challenge, and only of an open one.
LEMMA VoidedFields ==
  ASSUME TypeOK, NEW S, challenge' = ChallengesVoided(S), NEW h \in Challenges
  PROVE  /\ challenge'[h].parent = challenge[h].parent
         /\ challenge'[h].tool = challenge[h].tool
         /\ challenge'[h].args = challenge[h].args
         /\ challenge[h].status # "open" => challenge'[h] = challenge[h]
         /\ challenge'[h].status = "open" =>
              /\ challenge[h].status = "open"
              /\ challenge[h].parent \notin S /\ Active(challenge[h].parent)
         /\ challenge'[h].status # "unused" => challenge[h].status # "unused"
  BY DEF TypeOK, ChallengesVoided, ChallengeRecord

\* Retiring changes only the phase of an owner, and only of a live one.
LEMMA RetiredFields ==
  ASSUME TypeOK, NEW O, owner' = OwnersRetired(O), NEW o \in Owners
  PROVE  /\ owner'[o].authority = owner[o].authority
         /\ owner'[o].session = owner[o].session
         /\ owner'[o].domain = owner[o].domain
         /\ owner'[o].principal = owner[o].principal
         /\ owner'[o].roots = owner[o].roots
         /\ owner'[o].held = owner[o].held
         /\ owner'[o].phase = "live" => owner[o].phase = "live" /\ o \notin O
         /\ owner'[o].phase \in {"unused", "released"} =>
              owner'[o].phase = owner[o].phase
         /\ owner[o].phase \in {"unused", "released"} =>
              owner'[o].phase = owner[o].phase
  BY DEF TypeOK, OwnersRetired, OwnerRecord

\* A revocation, for any contexts, keeps the types.
LEMMA RevokePreservesTypes ==
  ASSUME TypeInv, NEW S \in SUBSET Contexts, \A c \in S : Active(c),
         Revoke(S), UNCHANGED <<blocked, persona, call, expired>>
  PROVE  TypeInv'
<1>1. TypeOK'
  <2>1. RunOwners(S) \in SUBSET Owners /\ \A o \in RunOwners(S) : owner[o].held
    BY DEF RunOwners
  <2> QED
    BY <2>1, RevokeTypes, RetireTypes DEF Revoke, TypeInv, TypeOK
<1>2. Formed'
  <2>1. ASSUME NEW c \in Contexts PROVE FormedContext(c)'
    <3>1. FormedContext(c) /\ (c \in S => Active(c))
      BY DEF TypeInv, Formed
    <3>2. context' = ContextsRevoked(S) /\ TypeOK
      BY DEF Revoke, TypeInv
    <3>3. CASE c \in S
      BY <3>1, <3>2, <3>3, RevokedFields DEF FormedContext, Active
    <3>4. CASE c \notin S
      BY <3>1, <3>2, <3>4, RevokedFields DEF FormedContext
    <3> QED
      BY <3>3, <3>4
  <2>2. ASSUME NEW h \in Challenges PROVE FormedChallenge(h)'
    BY VoidedFields DEF Revoke, TypeInv, Formed, FormedChallenge
  <2>3. ASSUME NEW o \in Owners PROVE FormedOwner(o)'
    BY RetiredFields DEF Revoke, TypeInv, Formed, FormedOwner
  <2> QED
    BY <2>1, <2>2, <2>3 DEF Formed
<1> QED
  BY <1>1, <1>2 DEF TypeInv

\* So does storing a filled-in record under an unused context id, alone or
\* together with a challenge.
LEMMA NewContextPreservesTypes ==
  ASSUME TypeInv, NEW c \in Contexts, NEW r \in ContextRecord,
         context' = [context EXCEPT ![c] = r],
         r.status # "unused", r.authority \in Authorities,
         r.session \in Sessions, r.domain \in Contexts \cup Authorities,
         r.grant # None => r.parent \in Contexts
  PROVE  /\ context' \in [Contexts -> ContextRecord]
         /\ \A d \in Contexts : FormedContext(d)'
<1>1. context \in [Contexts -> ContextRecord] /\ \A d \in Contexts : FormedContext(d)
  BY DEF TypeInv, TypeOK, Formed
<1>2. context' \in [Contexts -> ContextRecord]
  BY <1>1
<1>3. ASSUME NEW d \in Contexts PROVE FormedContext(d)'
  BY <1>1 DEF FormedContext
<1> QED
  BY <1>2, <1>3

\* So does spending the authorization of a context in use.
LEMMA SpendingPreservesTypes ==
  ASSUME TypeInv, NEW c \in Contexts,
         context' = [context EXCEPT ![c].spent = TRUE],
         context[c].status # "unused"
  PROVE  /\ context' \in [Contexts -> ContextRecord]
         /\ \A d \in Contexts : FormedContext(d)'
<1>1. context \in [Contexts -> ContextRecord] /\ \A d \in Contexts : FormedContext(d)
  BY DEF TypeInv, TypeOK, Formed
<1>2. ASSUME NEW q \in ContextRecord
      PROVE  LET r == [q EXCEPT !.spent = TRUE] IN
             /\ r \in ContextRecord
             /\ r.status = q.status /\ r.parent = q.parent /\ r.grant = q.grant
             /\ r.authority = q.authority /\ r.session = q.session
             /\ r.domain = q.domain
  BY DEF ContextRecord
<1>3. context' = [context EXCEPT ![c] = [context[c] EXCEPT !.spent = TRUE]]
  OBVIOUS
<1>4. context' \in [Contexts -> ContextRecord]
  BY <1>1, <1>2, <1>3
<1>5. ASSUME NEW d \in Contexts PROVE FormedContext(d)'
  BY <1>1, <1>2, <1>3 DEF FormedContext
<1> QED
  BY <1>4, <1>5

\* Retiring an authority keeps the types.
LEMMA RetireAuthorityPreservesTypes ==
  ASSUME TypeInv, NEW a \in Authorities, RetireAuthority(a)
  PROVE  TypeInv'
<1> DEFINE S == {c \in Contexts : Active(c) /\ context[c].authority = a}
           O == RunOwners(S) \cup HeldOwners(a)
<1>1. /\ S \in SUBSET Contexts /\ \A c \in S : Active(c)
      /\ O \in SUBSET Owners /\ \A o \in O : owner[o].held
      /\ RunOwners(S) \in SUBSET Owners /\ \A o \in RunOwners(S) : owner[o].held
      /\ HeldOwners(a) \in SUBSET Owners
  BY DEF RunOwners, HeldOwners
<1>2. /\ context' = ContextsRevoked(S)
      /\ challenge' = ChallengesVoided(S)
      /\ pending' = PendingAdded(RunOwners(S))
      /\ owner' = OwnersRetired(O)
      /\ waits' = waits \cup RunWaits(RunOwners(S))
                        \cup {[kind |-> "authority", authority |-> a,
                               session |-> None, owners |-> HeldOwners(a)]}
      /\ authority' = [authority EXCEPT ![a] =
                         [status |-> "retired", activeRoot |-> None]]
      /\ UNCHANGED <<blocked, persona, call, expired>>
  BY DEF RetireAuthority
<1>3. TypeOK
  BY DEF TypeInv
<1> HIDE DEF S, O
<1>4. TypeOK'
  <2>1. [kind |-> "authority", authority |-> a, session |-> None,
         owners |-> HeldOwners(a)] \in WaitRecord
    BY <1>1 DEF WaitRecord
  <2>2. authority' \in [Authorities ->
          [status : {"none", "active", "retired"}, activeRoot : Contexts \cup {None}]]
    BY <1>2, <1>3 DEF TypeOK
  <2>3. /\ context' \in [Contexts -> ContextRecord]
        /\ challenge' \in [Challenges -> ChallengeRecord]
    BY <1>1, <1>2, RevokeTypes
  <2>4. /\ pending' \in [Authorities -> SUBSET Sessions]
        /\ RunWaits(RunOwners(S)) \subseteq WaitRecord
    BY <1>1, <1>2, RetireTypes
  <2>5. owner' \in [Owners -> OwnerRecord]
    BY <1>1, <1>2, RetireTypes
  <2> QED
    BY <1>2, <1>3, <2>1, <2>2, <2>3, <2>4, <2>5 DEF TypeOK
<1>5. ASSUME NEW c \in Contexts PROVE FormedContext(c)'
  <2>1. FormedContext(c) /\ (c \in S => Active(c))
    BY <1>1 DEF TypeInv, Formed
  <2>2. CASE c \in S
    BY <1>2, <1>3, <2>1, <2>2, RevokedFields DEF FormedContext, Active
  <2>3. CASE c \notin S
    BY <1>2, <1>3, <2>1, <2>3, RevokedFields DEF FormedContext
  <2> QED
    BY <2>2, <2>3
<1>6. ASSUME NEW h \in Challenges PROVE FormedChallenge(h)'
  BY <1>2, <1>3, VoidedFields DEF TypeInv, Formed, FormedChallenge
<1>7. ASSUME NEW o \in Owners PROVE FormedOwner(o)'
  BY <1>2, <1>3, RetiredFields DEF TypeInv, Formed, FormedOwner
<1> QED
  BY <1>4, <1>5, <1>6, <1>7 DEF TypeInv, Formed

\* A context in use has all its fields, and may have children.
LEMMA InUse ==
  ASSUME TypeInv, NEW p \in Contexts, context[p].status = "active"
  PROVE  /\ context[p] \in ContextRecord
         /\ context[p].authority \in Authorities /\ context[p].session \in Sessions
         /\ context[p].domain \in Contexts \cup Authorities
         /\ context[p].ancestors \cup {p} \in SUBSET Contexts
         /\ context[p].principal \in Principals
         /\ context[p].tools \in SUBSET Tools /\ context[p].roots \in SUBSET Roots
  BY DEF TypeInv, TypeOK, Formed, FormedContext, ContextRecord

\* Every step of the broker keeps the types.
LEMMA TypeInvNext == TypeInv /\ [Next]_vars => TypeInv'
<1> SUFFICES ASSUME TypeInv, [Next]_vars PROVE TypeInv'
  OBVIOUS
<1>1. ASSUME NEW a \in Authorities, CreateRuntimeAuthority(a) PROVE TypeInv'
  BY <1>1 DEF CreateRuntimeAuthority, TypeInv, TypeOK, Formed, FormedContext,
     FormedChallenge, FormedOwner
<1>2. ASSUME NEW a \in Authorities, NEW s \in Sessions, NEW c \in Contexts,
             BeginAgentRun(a, s, c)
      PROVE  TypeInv'
  <2> DEFINE r == [status |-> "active", authority |-> a, parent |-> None,
        ancestors |-> {}, domain |-> c, principal |-> "agent", session |-> s,
        tools |-> Tools, roots |-> Roots, grant |-> None, spent |-> FALSE]
  <2>1. r \in ContextRecord
    BY DEF ContextRecord, Principals
  <2>2. context' = [context EXCEPT ![c] = r]
    BY <1>2 DEF BeginAgentRun
  <2>3. /\ context' \in [Contexts -> ContextRecord]
        /\ \A d \in Contexts : FormedContext(d)'
    <3> HIDE DEF r
    <3>1. /\ r.status # "unused" /\ r.authority \in Authorities
          /\ r.session \in Sessions /\ r.domain \in Contexts \cup Authorities
          /\ r.grant = None
      BY DEF r
    <3> QED
      BY <2>1, <2>2, <3>1, NewContextPreservesTypes
  <2> QED
    BY <1>2, <2>3 DEF BeginAgentRun, ownerVars, TypeInv, TypeOK, Formed,
       FormedChallenge, FormedOwner
<1>3. ASSUME NEW p \in Contexts, NEW principal \in {"subagent", "playbook"},
             NEW T \in SUBSET Tools, NEW R \in SUBSET Roots, NEW d \in Contexts,
             DeriveChild(p, principal, T, R, d)
      PROVE  TypeInv'
  <2>1. context[p].status = "active" /\ principal \in Principals
    BY <1>3 DEF DeriveChild, Usable, Current, Active, Principals
  <2>2. context' = [context EXCEPT ![d] = ChildContext(p, principal, T, R, None)]
    BY <1>3 DEF DeriveChild
  <2>3. /\ context' \in [Contexts -> ContextRecord]
        /\ \A e \in Contexts : FormedContext(e)'
    <3> DEFINE r == ChildContext(p, principal, T, R, None)
    <3>1. r = ChildContext(p, principal, T, R, None)
      OBVIOUS
    <3>2. context' = [context EXCEPT ![d] = r]
      BY <2>2
    <3> HIDE DEF r
    <3>3. /\ r \in ContextRecord
          /\ r.status # "unused" /\ r.authority \in Authorities
          /\ r.session \in Sessions /\ r.domain \in Contexts \cup Authorities
          /\ r.parent \in Contexts
      BY <2>1, <3>1, InUse DEF ChildContext, ContextRecord
    <3> QED
      BY <3>2, <3>3, NewContextPreservesTypes
  <2> QED
    BY <1>3, <2>3 DEF DeriveChild, ownerVars, TypeInv, TypeOK, Formed,
       FormedChallenge, FormedOwner
<1>4. ASSUME NEW c \in Contexts, NEW principal \in {"subagent", "playbook"},
             NEW T \in SUBSET Tools, NEW R \in SUBSET Roots, NEW d \in Contexts,
             DeriveInvocationChild(c, principal, T, R, d)
      PROVE  TypeInv'
  <2>1. context[c].parent \in Contexts
    BY <1>4 DEF DeriveInvocationChild, TypeInv, Formed, FormedContext
  <2> QED
    BY <1>3, <1>4, <2>1 DEF DeriveInvocationChild
<1>5. ASSUME NEW a \in Authorities, NEW s \in Sessions, NEW c \in Contexts,
             IssueLocalApiContext(a, s, c)
      PROVE  TypeInv'
  <2> DEFINE r == [status |-> "active", authority |-> a, parent |-> None,
        ancestors |-> {}, domain |-> a, principal |-> "local-user-api",
        session |-> s, tools |-> {}, roots |-> Roots, grant |-> None,
        spent |-> FALSE]
  <2>1. r \in ContextRecord
    BY DEF ContextRecord, Principals
  <2>2. context' = [context EXCEPT ![c] = r]
    BY <1>5 DEF IssueLocalApiContext
  <2>3. /\ context' \in [Contexts -> ContextRecord]
        /\ \A d \in Contexts : FormedContext(d)'
    <3> HIDE DEF r
    <3>1. /\ r.status # "unused" /\ r.authority \in Authorities
          /\ r.session \in Sessions /\ r.domain \in Contexts \cup Authorities
          /\ r.grant = None
      BY DEF r
    <3> QED
      BY <2>1, <2>2, <3>1, NewContextPreservesTypes
  <2> QED
    BY <1>5, <2>3 DEF IssueLocalApiContext, ownerVars, TypeInv, TypeOK, Formed,
       FormedChallenge, FormedOwner
<1>6. ASSUME NEW c \in Contexts, AuthorizeDirectOperation(c) PROVE TypeInv'
  BY <1>6, SpendingPreservesTypes DEF AuthorizeDirectOperation, Usable, Current,
     Active, ownerVars, TypeInv, TypeOK, Formed, FormedChallenge, FormedOwner
<1>7. ASSUME NEW c \in Contexts, FinishContext(c) PROVE TypeInv'
  BY <1>7, RevokePreservesTypes DEF FinishContext, Subtree
<1>8. ASSUME NEW c \in Contexts, SessionMismatch(c) PROVE TypeInv'
  BY <1>8, RevokePreservesTypes DEF SessionMismatch, Subtree
<1>9. ASSUME NEW c \in Contexts, NEW t \in Tools, NEW x \in Arguments,
             NEW k \in Calls, InspectToolCall(c, t, x, k)
      PROVE  TypeInv'
  <2>1. [source |-> c, tool |-> t, args |-> x, by |-> None] \in CallRecord
    BY DEF CallRecord
  <2> QED
    BY <1>9, <2>1 DEF InspectToolCall, runVars, ownerVars, TypeInv, TypeOK,
       Formed, FormedContext, FormedChallenge, FormedOwner
<1>10. ASSUME NEW c \in Contexts, NEW k \in Calls, NEW h \in Challenges,
              CreateApprovalChallenge(c, k, h)
       PROVE  TypeInv'
  <2>1. call[k] \in CallRecord /\ call[k].tool \in Tools
    BY <1>10, ApprovalToolsAssumption DEF CreateApprovalChallenge, TypeInv, TypeOK
  <2> DEFINE r == [status |-> "open", parent |-> c, tool |-> call[k].tool,
                   args |-> call[k].args]
  <2>2. r \in ChallengeRecord /\ r.parent = c /\ r.tool \in Tools
    BY <2>1 DEF ChallengeRecord, CallRecord
  <2>3. challenge' = [challenge EXCEPT ![h] = r]
    BY <1>10 DEF CreateApprovalChallenge
  <2> HIDE DEF r
  <2> QED
    BY <1>10, <2>2, <2>3 DEF CreateApprovalChallenge, ownerVars, TypeInv, TypeOK,
       Formed, FormedContext, FormedChallenge, FormedOwner
<1>11. ASSUME NEW h \in Challenges, DenyChallenge(h) PROVE TypeInv'
  BY <1>11, SMTT(30) DEF DenyChallenge, Answerable, ownerVars, TypeInv, TypeOK,
     ChallengeRecord, Formed, FormedContext, FormedChallenge, FormedOwner
<1>12. ASSUME NEW h \in Challenges, NEW d \in Contexts, ApproveChallenge(h, d)
       PROVE  TypeInv'
  <2> DEFINE p == challenge[h].parent
             r == ChildContext(p, context[p].principal, {challenge[h].tool},
                               context[p].roots, h)
  <2>1. p \in Contexts /\ challenge[h].tool \in Tools
    BY <1>12 DEF ApproveChallenge, Answerable, TypeInv, Formed, FormedChallenge
  <2>2. context[p].status = "active"
    BY <1>12 DEF ApproveChallenge, Answerable, Usable, Current, Active
  <2>3. context[p].principal \in Principals /\ context[p].roots \in SUBSET Roots
    BY <2>1 DEF TypeInv, TypeOK, ContextRecord
  <2>4. context' = [context EXCEPT ![d] = r]
    BY <1>12 DEF ApproveChallenge
  <2>5. /\ r \in ContextRecord
        /\ r.status # "unused" /\ r.authority \in Authorities
        /\ r.session \in Sessions /\ r.domain \in Contexts \cup Authorities
        /\ r.parent \in Contexts
    <3>1. r = ChildContext(p, context[p].principal, {challenge[h].tool},
                           context[p].roots, h)
      OBVIOUS
    <3>2. r.grant = h /\ r.parent = p /\ r.status = "active"
      BY DEF ChildContext
    <3> HIDE DEF p, r
    <3> QED
      BY <2>1, <2>2, <2>3, <3>1, <3>2, InUse DEF ChildContext, ContextRecord
  <2> HIDE DEF r
  <2>6. /\ context' \in [Contexts -> ContextRecord]
        /\ \A e \in Contexts : FormedContext(e)'
    BY <2>4, <2>5, NewContextPreservesTypes
  <2>7. /\ challenge' \in [Challenges -> ChallengeRecord]
        /\ \A e \in Challenges : FormedChallenge(e)'
    BY <1>12 DEF ApproveChallenge, Answerable, TypeInv, TypeOK, Formed,
       FormedChallenge, ChallengeRecord
  <2> QED
    BY <1>12, <2>6, <2>7 DEF ApproveChallenge, ownerVars, TypeInv, TypeOK,
       Formed, FormedOwner
<1>13. ASSUME NEW c \in Contexts, NEW k \in Calls, InvokeTool(c, k) PROVE TypeInv'
  <2>1. /\ context' \in [Contexts -> ContextRecord]
        /\ \A e \in Contexts : FormedContext(e)'
    BY <1>13, SpendingPreservesTypes DEF InvokeTool, Usable, Current, Active,
       TypeInv, TypeOK, Formed, FormedContext
  <2>2. call' \in [Calls -> CallRecord]
    <3>1. ASSUME NEW q \in CallRecord PROVE [q EXCEPT !.by = c] \in CallRecord
      BY DEF CallRecord
    <3>2. call \in [Calls -> CallRecord]
      BY DEF TypeInv, TypeOK
    <3>3. call' = [call EXCEPT ![k] = [call[k] EXCEPT !.by = c]]
      BY <1>13 DEF InvokeTool
    <3> QED
      BY <3>1, <3>2, <3>3
  <2> QED
    BY <1>13, <2>1, <2>2 DEF InvokeTool, ownerVars, TypeInv, TypeOK, Formed,
       FormedChallenge, FormedOwner
<1>14. ASSUME NEW c \in Contexts, NEW o \in Owners, GetResourceOwner(c, o)
       PROVE  TypeInv'
  <2> DEFINE r == [phase |-> "live", authority |-> context[c].authority,
        session |-> context[c].session, domain |-> context[c].domain,
        principal |-> context[c].principal, roots |-> context[c].roots,
        held |-> TRUE]
  <2>1. context[c] \in ContextRecord /\ FormedContext(c) /\ Active(c)
    BY <1>14 DEF GetResourceOwner, Usable, Current, TypeInv, TypeOK, Formed
  <2>2. /\ r \in OwnerRecord
        /\ r.authority \in Authorities /\ r.session \in Sessions
    BY <2>1 DEF OwnerRecord, ContextRecord, FormedContext, Active
  <2>3. owner' = [owner EXCEPT ![o] = r]
    BY <1>14 DEF GetResourceOwner
  <2> HIDE DEF r
  <2> QED
    BY <1>14, <2>2, <2>3, ZenonT(60) DEF GetResourceOwner, runVars, TypeInv, TypeOK, Formed,
       FormedContext, FormedChallenge, FormedOwner
<1>15. ASSUME NEW a \in Authorities, NEW s \in Sessions, RetireSessionResources(a, s)
       PROVE  TypeInv'
  <2> DEFINE O == {o \in HeldOwners(a) : owner[o].session = s}
  <2>1. O \in SUBSET Owners /\ \A o \in O : owner[o].held
    BY DEF HeldOwners
  <2>2. CASE O # {}
    <3>1. owner' = OwnersRetired(O) /\ TypeOK
      BY <1>15, <2>2 DEF RetireSessionResources, TypeInv
    <3>2. waits' = waits \cup {[kind |-> "session", authority |-> a,
                                session |-> s, owners |-> O]}
      BY <1>15, <2>2 DEF RetireSessionResources
    <3>3. pending' = [pending EXCEPT ![a] = @ \cup {s}]
      BY <1>15, <2>2 DEF RetireSessionResources
    <3> HIDE DEF O
    <3>4. owner' \in [Owners -> OwnerRecord] /\ \A o \in Owners : FormedOwner(o)'
      BY <2>1, <3>1, RetireTypes, RetiredFields DEF TypeInv, Formed, FormedOwner
    <3>5. waits' \in SUBSET WaitRecord
      BY <2>1, <3>1, <3>2 DEF TypeOK, WaitRecord
    <3> QED
      BY <1>15, <3>3, <3>4, <3>5 DEF RetireSessionResources, runVars, TypeInv,
         TypeOK, Formed, FormedContext, FormedChallenge
  <2>3. CASE O = {}
    <3>1. /\ pending' = [pending EXCEPT ![a] = @ \ {s}]
          /\ UNCHANGED <<owner, waits>>
      BY <1>15, <2>3 DEF RetireSessionResources
    <3> HIDE DEF O
    <3> QED
      BY <1>15, <3>1 DEF RetireSessionResources, runVars, TypeInv, TypeOK, Formed,
         FormedContext, FormedChallenge, FormedOwner
  <2> QED
    BY <2>2, <2>3
<1>16. ASSUME NEW a \in Authorities, RetireAuthority(a) PROVE TypeInv'
  BY <1>16, RetireAuthorityPreservesTypes
<1>17. ASSUME NEW s \in Sessions, NEW p \in Personas \cup {None},
              SetSessionPersona(s, p)
       PROVE  TypeInv'
  BY <1>17 DEF SetSessionPersona, TypeInv, TypeOK, Formed, FormedContext,
     FormedChallenge, FormedOwner
<1>18. ASSUME NEW e \in Challenges \cup Contexts, Expire(e) PROVE TypeInv'
  BY <1>18 DEF Expire, runVars, ownerVars, TypeInv, TypeOK, Formed,
     FormedContext, FormedChallenge, FormedOwner
<1>19. ASSUME NEW o \in Owners, OwnerDrained(o) \/ OwnerDeadline(o) PROVE TypeInv'
  <2>1. owner' \in [Owners -> OwnerRecord] /\ \A q \in Owners : FormedOwner(q)'
    <3>1. PICK f \in {"released", "failed", "overdue"} :
            owner' = [owner EXCEPT ![o] = [owner[o] EXCEPT !.phase = f]]
      BY <1>19 DEF OwnerDrained, OwnerDeadline
    <3>2. ASSUME NEW q \in OwnerRecord
          PROVE  LET r == [q EXCEPT !.phase = f] IN
                 /\ r \in OwnerRecord /\ r.held = q.held
                 /\ r.authority = q.authority /\ r.session = q.session
      BY DEF OwnerRecord
    <3> QED
      BY <3>1, <3>2 DEF TypeInv, TypeOK, Formed, FormedOwner
  <2> QED
    BY <1>19, <2>1 DEF OwnerDrained, OwnerDeadline, runVars, TypeInv, TypeOK,
       Formed, FormedContext, FormedChallenge
<1>20. ASSUME NEW w \in waits, WaitResolves(w) PROVE TypeInv'
  <2>1. owner' \in [Owners -> OwnerRecord] /\ \A q \in Owners : FormedOwner(q)'
    <3>1. owner' = [o \in Owners |-> IF o \in w.owners
                      THEN [owner[o] EXCEPT !.held = FALSE] ELSE owner[o]]
      BY <1>20 DEF WaitResolves, Dropped
    <3>2. ASSUME NEW q \in OwnerRecord
          PROVE  LET r == [q EXCEPT !.held = FALSE] IN
                 r \in OwnerRecord /\ ~r.held
      BY DEF OwnerRecord
    <3> QED
      BY <3>1, <3>2 DEF TypeInv, TypeOK, Formed, FormedOwner
  <2> QED
    BY <1>20, <2>1 DEF WaitResolves, runVars, TypeInv, TypeOK,
       Formed, FormedContext, FormedChallenge
<1>21. ASSUME NEW w \in waits, WaitRejects(w) PROVE TypeInv'
  <2>1. w \in WaitRecord
    BY DEF TypeInv, TypeOK
  <2>2. blocked' \in [Authorities -> SUBSET Sessions]
    <3>1. CASE w.kind = "authority"
      BY <1>21, <2>1, <3>1 DEF WaitRejects, TypeInv, TypeOK, WaitRecord
    <3>2. CASE w.kind # "authority"
      <4>1. w.session \in Sessions
        BY <2>1, <3>2 DEF WaitRecord
      <4> QED
        BY <1>21, <2>1, <3>2, <4>1 DEF WaitRejects, TypeInv, TypeOK, WaitRecord
    <3> QED
      BY <3>1, <3>2
  <2> QED
    BY <1>21, <2>1, <2>2 DEF WaitRejects, runVars, TypeInv, TypeOK, Formed,
       FormedContext, FormedChallenge, FormedOwner
<1>22. CASE UNCHANGED vars
  BY <1>22 DEF vars, TypeInv, TypeOK, Formed, FormedContext, FormedChallenge,
     FormedOwner
<1> QED
  BY <1>1, <1>2, <1>3, <1>4, <1>5, <1>6, <1>7, <1>8, <1>9, <1>10, <1>11, <1>12,
     <1>13, <1>14, <1>15, <1>16, <1>17, <1>18, <1>19, <1>20, <1>21, <1>22
  DEF Next, CallerNext, EnvironmentNext, DrainNext

\* The initial state has the types.
LEMMA TypeInvInit == Init => TypeInv
  BY DEF Init, TypeInv, TypeOK, Formed, FormedContext, FormedChallenge,
     FormedOwner, ContextRecord, CallRecord, ChallengeRecord, OwnerRecord,
     WaitRecord, Principals, UnusedContext, UnusedCall, UnusedChallenge,
     UnusedOwner

LEMMA TypeInvariance == Spec => []TypeInv
  BY TypeInvInit, TypeInvNext, PTL DEF Spec

\* Type correctness.
THEOREM TypeCorrect == Spec => []TypeOK
<1>1. TypeInv => TypeOK
  BY DEF TypeInv
<1> QED
  BY <1>1, TypeInvariance, PTL

-----------------------------------------------------------------------------
(* The tree of contexts.                                                    *)

\* All of a context but whether its authorization is spent stays as it is.
Kept(c) ==
  /\ context'[c].status = context[c].status
  /\ context'[c].authority = context[c].authority
  /\ context'[c].parent = context[c].parent
  /\ context'[c].ancestors = context[c].ancestors
  /\ context'[c].domain = context[c].domain
  /\ context'[c].principal = context[c].principal
  /\ context'[c].session = context[c].session
  /\ context'[c].tools = context[c].tools
  /\ context'[c].roots = context[c].roots
  /\ context'[c].grant = context[c].grant

LEMMA SpendingKeeps ==
  ASSUME TypeOK, NEW c \in Contexts, context' = [context EXCEPT ![c].spent = TRUE]
  PROVE  \A d \in Contexts : Kept(d)
<1>1. ASSUME NEW q \in ContextRecord
      PROVE  LET r == [q EXCEPT !.spent = TRUE] IN
             /\ r.status = q.status /\ r.authority = q.authority
             /\ r.parent = q.parent /\ r.ancestors = q.ancestors
             /\ r.domain = q.domain /\ r.principal = q.principal
             /\ r.session = q.session /\ r.tools = q.tools
             /\ r.roots = q.roots /\ r.grant = q.grant
  BY DEF ContextRecord
<1>2. context \in [Contexts -> ContextRecord]
  BY DEF TypeOK
<1>3. context' = [context EXCEPT ![c] = [context[c] EXCEPT !.spent = TRUE]]
  OBVIOUS
<1> QED
  BY <1>1, <1>2, <1>3 DEF Kept

\* Ancestors are contexts in use, under the same authority, and ancestry is
\* transitive; the parent is one of them, and so is the run's root.
Ancestry ==
  \A c \in Contexts :
    /\ \A d \in context[c].ancestors :
         /\ context[d].status # "unused"
         /\ context[d].authority = context[c].authority
         /\ context[d].ancestors \subseteq context[c].ancestors
    /\ context[c].parent # None => context[c].parent \in context[c].ancestors
    /\ context[c].status # "unused" /\ context[c].principal # "local-user-api" =>
         context[c].domain \in context[c].ancestors \cup {c}

TreeInv == Ancestry /\ ActiveAncestry

\* The tree survives a step that keeps every context and every authority that
\* is active.
LEMMA TreeKept ==
  ASSUME TypeInv, TreeInv, \A c \in Contexts : Kept(c),
         \A a \in Authorities : AuthorityActive(a) => AuthorityActive(a)'
  PROVE  TreeInv'
<1>1. \A c \in Contexts : context[c].ancestors \subseteq Contexts
  BY DEF TypeInv, TypeOK, ContextRecord
<1>2. Ancestry'
  BY <1>1 DEF TreeInv, Ancestry, Kept
<1>3. ActiveAncestry'
  BY <1>1, InUse DEF TreeInv, ActiveAncestry, Active, Kept
<1> QED
  BY <1>2, <1>3 DEF TreeInv

\* It survives a new leaf: a root, or a child of an active context.
LEMMA TreeGrows ==
  ASSUME TypeInv, TreeInv, NEW d \in Contexts, context[d].status = "unused",
         NEW r, context' = [context EXCEPT ![d] = r],
         r.ancestors \subseteq Contexts,
         r.authority \in Authorities, AuthorityActive(r.authority)',
         \A e \in r.ancestors : /\ Active(e)
                                /\ context[e].authority = r.authority
                                /\ context[e].ancestors \subseteq r.ancestors,
         r.parent # None => r.parent \in r.ancestors,
         r.principal # "local-user-api" => r.domain \in r.ancestors \cup {d},
         \A a \in Authorities : AuthorityActive(a) => AuthorityActive(a)'
  PROVE  TreeInv'
<1>1. \A c \in Contexts : context[c].ancestors \subseteq Contexts
  BY DEF TypeInv, TypeOK, ContextRecord
<1>2. context'[d] = r /\ \A c \in Contexts \ {d} : context'[c] = context[c]
  BY DEF TypeInv, TypeOK
<1>3. \A c \in Contexts : d \notin context[c].ancestors
  BY DEF TreeInv, Ancestry
<1>4. d \notin r.ancestors
  BY DEF Active
<1>5. Ancestry'
  <2>1. ASSUME NEW c \in Contexts \ {d}
        PROVE  /\ \A e \in context'[c].ancestors :
                    /\ context'[e].status # "unused"
                    /\ context'[e].authority = context'[c].authority
                    /\ context'[e].ancestors \subseteq context'[c].ancestors
               /\ context'[c].parent # None => context'[c].parent \in context'[c].ancestors
               /\ context'[c].status # "unused" /\ context'[c].principal # "local-user-api" =>
                    context'[c].domain \in context'[c].ancestors \cup {c}
    BY <1>1, <1>2, <1>3 DEF TreeInv, Ancestry
  <2>2. /\ \A e \in context'[d].ancestors :
             /\ context'[e].status # "unused"
             /\ context'[e].authority = context'[d].authority
             /\ context'[e].ancestors \subseteq context'[d].ancestors
        /\ context'[d].parent # None => context'[d].parent \in context'[d].ancestors
        /\ context'[d].principal # "local-user-api" =>
             context'[d].domain \in context'[d].ancestors \cup {d}
    BY <1>2, <1>4 DEF Active
  <2> QED
    BY <2>1, <2>2 DEF Ancestry
<1>6. ActiveAncestry'
  BY <1>1, <1>2, <1>3, <1>4, InUse DEF TreeInv, ActiveAncestry, Active
<1> QED
  BY <1>5, <1>6 DEF TreeInv

\* It survives the revocation of a set of contexts that contains, with a
\* context, every active context below it.
LEMMA TreeRevoked ==
  ASSUME TypeInv, TreeInv, NEW S \in SUBSET Contexts,
         context' = ContextsRevoked(S),
         \A c \in S : Active(c),
         \A c \in Contexts : Active(c) /\ c \notin S =>
           /\ context[c].ancestors \cap S = {}
           /\ authority'[context[c].authority].status = "active"
  PROVE  TreeInv'
<1>1. \A c \in Contexts : context[c].ancestors \subseteq Contexts
  BY DEF TypeInv, TypeOK, ContextRecord
<1>2. TypeOK
  BY DEF TypeInv
<1>3. \A c \in Contexts :
        /\ c \in S => context'[c].status = "revoked"
        /\ c \notin S => context'[c].status = context[c].status
        /\ context'[c].authority = context[c].authority
        /\ context'[c].parent = context[c].parent
        /\ context'[c].ancestors = context[c].ancestors
        /\ context'[c].domain = context[c].domain
        /\ context'[c].principal = context[c].principal
  BY <1>2, RevokedFields, ZenonT(60)
<1>4. Ancestry'
  BY <1>1, <1>3 DEF TreeInv, Ancestry, Active
<1>5. ActiveAncestry'
  BY <1>1, <1>3 DEF TreeInv, ActiveAncestry, Active, AuthorityActive
<1> QED
  BY <1>4, <1>5 DEF TreeInv

\* Subtree(c) is such a set, by transitivity of ancestry.
LEMMA SubtreeClosed ==
  ASSUME TypeInv, TreeInv, NEW c \in Contexts
  PROVE  /\ Subtree(c) \in SUBSET Contexts
         /\ \A d \in Subtree(c) : Active(d)
         /\ \A d \in Contexts : Active(d) /\ d \notin Subtree(c) =>
              context[d].ancestors \cap Subtree(c) = {}
  BY DEF Subtree, TreeInv, Ancestry, TypeInv, TypeOK, ContextRecord

\* The steps that touch neither a context nor an authority.
Elsewhere ==
  \/ \E c \in Contexts, t \in Tools, x \in Arguments, k \in Calls : InspectToolCall(c, t, x, k)
  \/ \E c \in Contexts, k \in Calls, h \in Challenges : CreateApprovalChallenge(c, k, h)
  \/ \E h \in Challenges : DenyChallenge(h)
  \/ \E c \in Contexts, o \in Owners : GetResourceOwner(c, o)
  \/ \E a \in Authorities, s \in Sessions : RetireSessionResources(a, s)
  \/ EnvironmentNext
  \/ DrainNext
  \/ UNCHANGED vars

LEMMA ElsewhereKeeps == Elsewhere => UNCHANGED <<context, authority>>
  BY DEF Elsewhere, InspectToolCall, CreateApprovalChallenge, DenyChallenge,
     GetResourceOwner, RetireSessionResources, EnvironmentNext, DrainNext,
     SetSessionPersona, Expire, OwnerDrained, OwnerDeadline, WaitResolves,
     WaitRejects, runVars, vars

\* A revocation of a subtree leaves every authority's status.
LEMMA RootsClearedFields ==
  ASSUME TypeOK, NEW S, authority' = RootsCleared(S), NEW a \in Authorities
  PROVE  /\ authority'[a].status = authority[a].status
         /\ authority'[a].activeRoot =
              IF authority[a].activeRoot \in S THEN None ELSE authority[a].activeRoot
  BY DEF TypeOK, RootsCleared

\* Deriving a child grows the tree.
LEMMA TreeDerive ==
  ASSUME TypeInv, TreeInv, NEW p \in Contexts, Usable(p),
         NEW principal,
         principal # "local-user-api" => context[p].principal # "local-user-api",
         NEW T, NEW R, NEW g, NEW d \in Contexts,
         context[d].status = "unused", UNCHANGED authority,
         context' = [context EXCEPT ![d] = ChildContext(p, principal, T, R, g)]
  PROVE  TreeInv'
<1>0. PICK r : r = ChildContext(p, principal, T, R, g)
  OBVIOUS
<1>1. /\ Active(p) /\ AuthorityActive(context[p].authority)
      /\ context[p].authority \in Authorities
      /\ context[p].ancestors \subseteq Contexts
  BY InUse DEF Usable, Current, Active
<1>2. /\ r.ancestors = context[p].ancestors \cup {p}
      /\ r.authority = context[p].authority
      /\ r.parent = p /\ r.domain = context[p].domain
      /\ r.principal = principal
  BY <1>0 DEF ChildContext
<1>3. context' = [context EXCEPT ![d] = r]
  BY <1>0
<1>4. r.ancestors \subseteq Contexts /\ r.parent \in r.ancestors
  BY <1>1, <1>2
<1>5. \A e \in r.ancestors : /\ Active(e)
                             /\ context[e].authority = r.authority
                             /\ context[e].ancestors \subseteq r.ancestors
  BY <1>1, <1>2 DEF TreeInv, Ancestry, ActiveAncestry
<1>6. r.principal # "local-user-api" => r.domain \in r.ancestors \cup {d}
  BY <1>1, <1>2 DEF TreeInv, Ancestry, Active
<1>7. /\ r.authority \in Authorities /\ AuthorityActive(r.authority)'
      /\ \A a \in Authorities : AuthorityActive(a) => AuthorityActive(a)'
  BY <1>1, <1>2 DEF AuthorityActive
<1> QED
  BY <1>3, <1>4, <1>5, <1>6, <1>7, TreeGrows

\* Every step of the broker preserves the tree.
LEMMA TreeInvNext == TypeInv /\ TreeInv /\ [Next]_vars => TreeInv'
<1> SUFFICES ASSUME TypeInv, TreeInv, [Next]_vars PROVE TreeInv'
  OBVIOUS
<1>0. TypeOK
  BY DEF TypeInv
<1>1. CASE Elsewhere
  BY <1>1, ElsewhereKeeps, TreeKept DEF Kept, AuthorityActive
<1>2. ASSUME NEW a \in Authorities, CreateRuntimeAuthority(a) PROVE TreeInv'
  <2>1. \A b \in Authorities : AuthorityActive(b) => AuthorityActive(b)'
    BY <1>0, <1>2 DEF CreateRuntimeAuthority, AuthorityActive, TypeOK
  <2> QED
    BY <1>2, <2>1, TreeKept DEF CreateRuntimeAuthority, Kept
<1>3. ASSUME NEW a \in Authorities, NEW s \in Sessions, NEW c \in Contexts,
             BeginAgentRun(a, s, c) \/ IssueLocalApiContext(a, s, c)
      PROVE  TreeInv'
  <2> DEFINE agent == [status |-> "active", authority |-> a, parent |-> None,
        ancestors |-> {}, domain |-> c, principal |-> "agent", session |-> s,
        tools |-> Tools, roots |-> Roots, grant |-> None, spent |-> FALSE]
      direct == [status |-> "active", authority |-> a, parent |-> None,
        ancestors |-> {}, domain |-> a, principal |-> "local-user-api",
        session |-> s, tools |-> {}, roots |-> Roots, grant |-> None,
        spent |-> FALSE]
  <2>0. PICK r \in {agent, direct} : context' = [context EXCEPT ![c] = r]
    BY <1>3 DEF BeginAgentRun, IssueLocalApiContext
  <2>1. /\ context' = [context EXCEPT ![c] = r]
        /\ r.ancestors = {} /\ r.authority = a /\ r.parent = None
        /\ r.principal # "local-user-api" => r.domain = c
    BY <2>0
  <2>2. /\ context[c].status = "unused" /\ AuthorityActive(a)'
        /\ \A b \in Authorities : AuthorityActive(b) => AuthorityActive(b)'
    BY <1>0, <1>3 DEF BeginAgentRun, IssueLocalApiContext, AuthorityActive, TypeOK
  <2>3. /\ r.ancestors \subseteq Contexts /\ r.authority \in Authorities
        /\ AuthorityActive(r.authority)' /\ \A e \in r.ancestors : FALSE
        /\ r.principal # "local-user-api" => r.domain \in r.ancestors \cup {c}
    BY <2>1, <2>2
  <2> QED
    BY <2>1, <2>2, <2>3, TreeGrows
<1>4. ASSUME NEW p \in Contexts, NEW principal \in {"subagent", "playbook"},
             NEW T \in SUBSET Tools, NEW R \in SUBSET Roots, NEW d \in Contexts,
             DeriveChild(p, principal, T, R, d)
      PROVE  TreeInv'
  BY <1>4, TreeDerive DEF DeriveChild
<1>5. ASSUME NEW c \in Contexts, NEW principal \in {"subagent", "playbook"},
             NEW T \in SUBSET Tools, NEW R \in SUBSET Roots, NEW d \in Contexts,
             DeriveInvocationChild(c, principal, T, R, d)
      PROVE  TreeInv'
  <2>1. context[c].parent \in Contexts
    BY <1>5 DEF DeriveInvocationChild, TypeInv, Formed, FormedContext
  <2> QED
    BY <1>4, <1>5, <2>1 DEF DeriveInvocationChild
<1>6. ASSUME NEW h \in Challenges, NEW d \in Contexts, ApproveChallenge(h, d)
      PROVE  TreeInv'
  <2> DEFINE p == challenge[h].parent
  <2>1. p \in Contexts
    BY <1>6 DEF ApproveChallenge, Answerable, TypeInv, Formed, FormedChallenge
  <2> QED
    BY <1>6, <2>1, TreeDerive DEF ApproveChallenge, Answerable
<1>7. ASSUME NEW c \in Contexts, AuthorizeDirectOperation(c) PROVE TreeInv'
  BY <1>0, <1>7, SpendingKeeps, TreeKept DEF AuthorizeDirectOperation, AuthorityActive
<1>8. ASSUME NEW c \in Contexts, NEW k \in Calls, InvokeTool(c, k) PROVE TreeInv'
  <2>1. \A d \in Contexts : Kept(d)
    BY <1>0, <1>8, SpendingKeeps DEF InvokeTool, Kept
  <2> QED
    BY <1>8, <2>1, TreeKept DEF InvokeTool, AuthorityActive
<1>9. ASSUME NEW c \in Contexts, FinishContext(c) \/ SessionMismatch(c) PROVE TreeInv'
  <2> DEFINE S == Subtree(c)
  <2>1. context' = ContextsRevoked(S) /\ authority' = RootsCleared(S)
    BY <1>9 DEF FinishContext, SessionMismatch, Revoke
  <2> HIDE DEF S
  <2>2. \A d \in Contexts : Active(d) =>
          authority'[context[d].authority].status = "active"
    BY <1>0, <2>1, RootsClearedFields, InUse
    DEF AuthorityActive, TreeInv, ActiveAncestry, Active
  <2> QED
    BY <2>1, <2>2, SubtreeClosed, TreeRevoked DEF S
<1>10. ASSUME NEW a \in Authorities, RetireAuthority(a) PROVE TreeInv'
  <2> DEFINE S == {c \in Contexts : Active(c) /\ context[c].authority = a}
  <2>1. context' = ContextsRevoked(S) /\ S \in SUBSET Contexts
    BY <1>10 DEF RetireAuthority
  <2>2. \A d \in Contexts : Active(d) /\ d \notin S =>
          /\ context[d].ancestors \cap S = {}
          /\ authority'[context[d].authority].status = "active"
    BY <1>0, <1>10, InUse
    DEF RetireAuthority, AuthorityActive, TreeInv, ActiveAncestry, Ancestry,
        Active, TypeOK
  <2>3. \A d \in S : Active(d)
    OBVIOUS
  <2> HIDE DEF S
  <2> QED
    BY <2>1, <2>2, <2>3, TreeRevoked
<1> QED
  BY <1>1, <1>2, <1>3, <1>4, <1>5, <1>6, <1>7, <1>8, <1>9, <1>10
  DEF Next, CallerNext, Elsewhere

LEMMA TreeInvariance == Spec => []TreeInv
<1>1. Init => TreeInv
  BY NoneAssumption DEF Init, TreeInv, Ancestry, ActiveAncestry, Active, UnusedContext
<1> QED
  BY <1>1, TreeInvNext, TypeInvariance, PTL DEF Spec

\* Nothing below a finished run, a revoked context or a retired authority is
\* usable, however deep the tree and whatever was in progress.
THEOREM ActiveAncestryHolds == Spec => []ActiveAncestry
<1>1. TreeInv => ActiveAncestry
  BY DEF TreeInv
<1> QED
  BY <1>1, TreeInvariance, PTL

-----------------------------------------------------------------------------
(* Runs, and what their contexts may do.                                    *)

\* A context of a run belongs to that run: its root, which nothing above derived.
Rooted ==
  \A c \in Contexts :
    context[c].status # "unused" /\ context[c].principal # "local-user-api" =>
      LET r == context[c].domain IN
      /\ r \in Contexts
      /\ context[r].principal = "agent" /\ context[r].parent = None
      /\ context[r].authority = context[c].authority

\* What a challenge asks for is among the tools of the context that raised it.
Requested ==
  \A h \in Challenges : challenge[h].status # "unused" =>
    /\ context[challenge[h].parent].status # "unused"
    /\ challenge[h].tool \in context[challenge[h].parent].tools

\* Attenuation, and that a child does not have the tool that starts its own kind.
Attenuated ==
  /\ Attenuation
  /\ \A c \in Contexts : context[c].principal \in {"subagent", "playbook"} =>
       SpawningTool(context[c].principal) \notin context[c].tools

\* A context that may have ended and may have spent its authorization, but is the same.
Remains(c) ==
  /\ context'[c].status = "unused" <=> context[c].status = "unused"
  /\ context'[c].authority = context[c].authority
  /\ context'[c].parent = context[c].parent
  /\ context'[c].ancestors = context[c].ancestors
  /\ context'[c].domain = context[c].domain
  /\ context'[c].principal = context[c].principal
  /\ context'[c].tools = context[c].tools
  /\ context'[c].roots = context[c].roots
  /\ context'[c].grant = context[c].grant

\* A challenge is answered or voided, or is new, about a tool its context has.
Asks(h) ==
  challenge'[h].status # "unused" =>
    \/ /\ challenge[h].status # "unused"
       /\ challenge'[h].parent = challenge[h].parent
       /\ challenge'[h].tool = challenge[h].tool
    \/ /\ challenge'[h].parent \in Contexts
       /\ context[challenge'[h].parent].status # "unused"
       /\ challenge'[h].tool \in context[challenge'[h].parent].tools

ScopeInv == Rooted /\ Requested /\ Attenuated

\* Nothing is gained by contexts that remain.
LEMMA ScopeKept ==
  ASSUME TypeInv, ScopeInv, \A c \in Contexts : Remains(c), \A h \in Challenges : Asks(h)
  PROVE  ScopeInv'
<1>1. \A c \in Contexts : context[c].ancestors \subseteq Contexts
  BY DEF TypeInv, TypeOK, ContextRecord
<1>2. \A h \in Challenges : challenge[h].status # "unused" => challenge[h].parent \in Contexts
  BY DEF TypeInv, Formed, FormedChallenge
<1>3. Rooted'
  BY DEF ScopeInv, Rooted, Remains
<1>4. Requested'
  BY <1>2 DEF ScopeInv, Requested, Remains, Asks
<1>5. Attenuated'
  BY <1>1 DEF ScopeInv, Attenuated, Attenuation, Remains
<1> QED
  BY <1>3, <1>4, <1>5 DEF ScopeInv

\* Nor by a new one that belongs to its run and has no more than those above it.
LEMMA ScopeGrows ==
  ASSUME TypeInv, TreeInv, ScopeInv, NEW d \in Contexts, context[d].status = "unused",
         NEW r, context' = [context EXCEPT ![d] = r],
         \A h \in Challenges : Asks(h),
         r.ancestors \subseteq Contexts, d \notin r.ancestors,
         r.principal # "local-user-api" =>
           \/ r.domain = d /\ r.principal = "agent" /\ r.parent = None
           \/ /\ r.domain \in Contexts \ {d}
              /\ context[r.domain].principal = "agent" /\ context[r.domain].parent = None
              /\ context[r.domain].authority = r.authority,
         \A e \in r.ancestors :
           /\ r.tools \subseteq context[e].tools
           /\ r.roots \subseteq context[e].roots
           /\ context[e].principal \in {"subagent", "playbook"} =>
                SpawningTool(context[e].principal) \notin r.tools,
         r.principal \in {"subagent", "playbook"} => SpawningTool(r.principal) \notin r.tools,
         r.parent # None /\ r.grant = None => r.tools \cap ApprovalTools = {}
  PROVE  ScopeInv'
<1>1. context'[d] = r /\ \A c \in Contexts \ {d} : context'[c] = context[c]
  BY DEF TypeInv, TypeOK
<1>2. \A c \in Contexts : context[c].ancestors \subseteq Contexts \ {d}
  BY DEF TypeInv, TypeOK, ContextRecord, TreeInv, Ancestry
<1>3. \A h \in Challenges : challenge[h].status # "unused" =>
        challenge[h].parent \in Contexts \ {d}
  BY DEF TypeInv, Formed, FormedChallenge, ScopeInv, Requested
<1>4. Rooted'
  <2> SUFFICES ASSUME NEW c \in Contexts, context'[c].status # "unused",
                      context'[c].principal # "local-user-api"
               PROVE  /\ context'[c].domain \in Contexts
                      /\ context'[context'[c].domain].principal = "agent"
                      /\ context'[context'[c].domain].parent = None
                      /\ context'[context'[c].domain].authority = context'[c].authority
    BY DEF Rooted
  <2>1. CASE c = d
    BY <1>1, <2>1
  <2>2. CASE c # d
    <3>1. /\ context[c].domain \in Contexts
          /\ context[context[c].domain].principal = "agent"
          /\ context[context[c].domain].parent = None
          /\ context[context[c].domain].authority = context[c].authority
      BY <1>1, <2>2 DEF ScopeInv, Rooted
    <3>2. context[c].domain # d
      BY <1>1, <1>2, <2>2 DEF TreeInv, Ancestry
    <3> QED
      BY <1>1, <2>2, <3>1, <3>2
  <2> QED
    BY <2>1, <2>2
<1>5. Requested'
  <2>1. ASSUME NEW h \in Challenges, challenge'[h].status # "unused"
        PROVE  /\ challenge'[h].parent \in Contexts \ {d}
               /\ context[challenge'[h].parent].status # "unused"
               /\ challenge'[h].tool \in context[challenge'[h].parent].tools
    BY <1>3, <2>1 DEF Asks, ScopeInv, Requested
  <2> QED
    BY <1>1, <2>1 DEF Requested
<1>6. Attenuated'
  BY <1>1, <1>2 DEF ScopeInv, Attenuated, Attenuation
<1> QED
  BY <1>4, <1>5, <1>6 DEF ScopeInv

\* A child derived from an active context, or a grant made for it, has no more than that.
LEMMA ScopeDerive ==
  ASSUME TypeInv, TreeInv, ScopeInv, NEW p \in Contexts, Active(p),
         NEW principal, NEW T, NEW R, NEW g, NEW d \in Contexts,
         context[d].status = "unused",
         context' = [context EXCEPT ![d] = ChildContext(p, principal, T, R, g)],
         \A h \in Challenges : Asks(h),
         context[p].principal = "local-user-api" => principal = "local-user-api",
         T \subseteq context[p].tools, R \subseteq context[p].roots,
         principal \in {"subagent", "playbook"} => SpawningTool(principal) \notin T,
         g = None => T \cap ApprovalTools = {}
  PROVE  ScopeInv'
<1>1. PICK r : r = ChildContext(p, principal, T, R, g)
  OBVIOUS
<1>2. /\ r.ancestors = context[p].ancestors \cup {p} /\ r.tools = T /\ r.roots = R
      /\ r.authority = context[p].authority /\ r.parent = p
      /\ r.domain = context[p].domain /\ r.principal = principal /\ r.grant = g
  BY <1>1 DEF ChildContext
<1>3. context' = [context EXCEPT ![d] = r]
  BY <1>1
<1>4. r.ancestors \subseteq Contexts /\ d \notin r.ancestors
  BY <1>2 DEF TypeInv, TypeOK, ContextRecord, TreeInv, Ancestry, Active
<1>5. r.principal # "local-user-api" =>
        /\ r.domain \in Contexts \ {d}
        /\ context[r.domain].principal = "agent" /\ context[r.domain].parent = None
        /\ context[r.domain].authority = r.authority
  <2>1. context[p].status = "active"
    BY DEF Active
  <2>2. context[p].principal # "local-user-api" =>
          /\ context[p].domain \in Contexts /\ context[p].domain \in context[p].ancestors \cup {p}
          /\ context[context[p].domain].principal = "agent"
          /\ context[context[p].domain].parent = None
          /\ context[context[p].domain].authority = context[p].authority
    BY <2>1 DEF ScopeInv, Rooted, TreeInv, Ancestry
  <2> QED
    BY <1>2, <1>4, <2>2
<1>6. ASSUME NEW e \in r.ancestors
      PROVE  /\ r.tools \subseteq context[e].tools
             /\ r.roots \subseteq context[e].roots
             /\ context[e].principal \in {"subagent", "playbook"} =>
                  SpawningTool(context[e].principal) \notin r.tools
  BY <1>2, <1>6 DEF ScopeInv, Attenuated, Attenuation
<1> QED
  BY <1>2, <1>3, <1>4, <1>5, <1>6, ScopeGrows

\* Every step of the broker keeps the scopes.
LEMMA ScopeInvNext == TypeInv /\ TreeInv /\ ScopeInv /\ [Next]_vars => ScopeInv'
<1> SUFFICES ASSUME TypeInv, TreeInv, ScopeInv, [Next]_vars PROVE ScopeInv'
  OBVIOUS
<1>0. TypeOK
  BY DEF TypeInv
<1>a. UNCHANGED challenge => \A h \in Challenges : Asks(h)
  BY DEF Asks
<1>b. UNCHANGED context => \A c \in Contexts : Remains(c)
  BY DEF Remains
<1>c. \A c \in Contexts : Kept(c) => Remains(c)
  BY DEF Kept, Remains
<1>1. CASE \/ \E a \in Authorities : CreateRuntimeAuthority(a)
           \/ \E c \in Contexts, t \in Tools, x \in Arguments, k \in Calls :
                InspectToolCall(c, t, x, k)
           \/ \E c \in Contexts, o \in Owners : GetResourceOwner(c, o)
           \/ \E a \in Authorities, s \in Sessions : RetireSessionResources(a, s)
           \/ EnvironmentNext \/ DrainNext \/ UNCHANGED vars
  <2>1. UNCHANGED <<context, challenge>>
    BY <1>1 DEF CreateRuntimeAuthority, InspectToolCall, GetResourceOwner,
       RetireSessionResources, EnvironmentNext, DrainNext, SetSessionPersona, Expire,
       OwnerDrained, OwnerDeadline, WaitResolves, WaitRejects, runVars, vars
  <2> QED
    BY <1>a, <1>b, <2>1, ScopeKept
<1>2. ASSUME NEW a \in Authorities, NEW s \in Sessions, NEW c \in Contexts,
             BeginAgentRun(a, s, c) \/ IssueLocalApiContext(a, s, c)
      PROVE  ScopeInv'
  <2> DEFINE agent == [status |-> "active", authority |-> a, parent |-> None,
        ancestors |-> {}, domain |-> c, principal |-> "agent", session |-> s,
        tools |-> Tools, roots |-> Roots, grant |-> None, spent |-> FALSE]
      direct == [status |-> "active", authority |-> a, parent |-> None,
        ancestors |-> {}, domain |-> a, principal |-> "local-user-api",
        session |-> s, tools |-> {}, roots |-> Roots, grant |-> None,
        spent |-> FALSE]
  <2>0. PICK r \in {agent, direct} : context' = [context EXCEPT ![c] = r]
    BY <1>2 DEF BeginAgentRun, IssueLocalApiContext
  <2>1. /\ context' = [context EXCEPT ![c] = r]
        /\ r.ancestors = {} /\ r.parent = None
        /\ r.principal # "local-user-api" => r.domain = c
        /\ r.principal \in {"agent", "local-user-api"}
    BY <2>0
  <2>2. context[c].status = "unused" /\ UNCHANGED challenge
    BY <1>2 DEF BeginAgentRun, IssueLocalApiContext
  <2> QED
    BY <1>a, <2>1, <2>2, ScopeGrows
<1>3. ASSUME NEW p \in Contexts, NEW principal \in {"subagent", "playbook"},
             NEW T \in SUBSET Tools, NEW R \in SUBSET Roots, NEW d \in Contexts,
             DeriveChild(p, principal, T, R, d)
      PROVE  ScopeInv'
  <2>1. /\ Active(p) /\ context[d].status = "unused" /\ UNCHANGED challenge
        /\ context[p].principal # "local-user-api"
        /\ R \subseteq context[p].roots
        /\ context' = [context EXCEPT ![d] = ChildContext(p, principal, T, R, None)]
    BY <1>3 DEF DeriveChild, Usable, Current
  <2>2. /\ T \subseteq context[p].tools /\ T \cap ApprovalTools = {}
        /\ SpawningTool(principal) \notin T
    BY <1>3 DEF DeriveChild, Inheritable
  <2> QED
    BY <1>a, <2>1, <2>2, ScopeDerive
<1>4. ASSUME NEW c \in Contexts, NEW principal \in {"subagent", "playbook"},
             NEW T \in SUBSET Tools, NEW R \in SUBSET Roots, NEW d \in Contexts,
             DeriveInvocationChild(c, principal, T, R, d)
      PROVE  ScopeInv'
  <2>1. context[c].parent \in Contexts
    BY <1>4 DEF DeriveInvocationChild, TypeInv, Formed, FormedContext
  <2> QED
    BY <1>3, <1>4, <2>1 DEF DeriveInvocationChild
<1>5. ASSUME NEW h \in Challenges, NEW d \in Contexts, ApproveChallenge(h, d)
      PROVE  ScopeInv'
  <2> DEFINE p == challenge[h].parent
  <2>1. /\ p \in Contexts /\ Active(p) /\ context[d].status = "unused"
        /\ challenge[h].tool \in context[p].tools
    BY <1>5 DEF ApproveChallenge, Answerable, Usable, Current, TypeInv, Formed,
       FormedChallenge, ScopeInv, Requested
  <2>2. context' = [context EXCEPT ![d] = ChildContext(p, context[p].principal,
                      {challenge[h].tool}, context[p].roots, h)]
    BY <1>5 DEF ApproveChallenge
  <2>3. \A e \in Challenges : Asks(e)
    BY <1>0, <1>5 DEF ApproveChallenge, Answerable, Asks, TypeOK, ChallengeRecord
  <2>4. h # None
    BY NoneAssumption
  <2>5. context[p].principal \in {"subagent", "playbook"} =>
          SpawningTool(context[p].principal) \notin {challenge[h].tool}
    BY <2>1 DEF ScopeInv, Attenuated
  <2> DEFINE q == context[p].principal
             T == {challenge[h].tool}
             R == context[p].roots
  <2>6. /\ T \subseteq context[p].tools /\ R \subseteq context[p].roots
        /\ q \in {"subagent", "playbook"} => SpawningTool(q) \notin T
        /\ context[p].principal = "local-user-api" => q = "local-user-api"
        /\ context' = [context EXCEPT ![d] = ChildContext(p, q, T, R, h)]
        /\ h = None => T \cap ApprovalTools = {}
    BY <2>1, <2>2, <2>4, <2>5
  <2> HIDE DEF p, q, T, R
  <2> QED
    BY <2>1, <2>3, <2>6, ScopeDerive
<1>6. ASSUME NEW c \in Contexts, AuthorizeDirectOperation(c) PROVE ScopeInv'
  BY <1>0, <1>6, <1>a, <1>c, SpendingKeeps, ScopeKept DEF AuthorizeDirectOperation
<1>7. ASSUME NEW c \in Contexts, NEW k \in Calls, InvokeTool(c, k) PROVE ScopeInv'
  <2>1. \A d \in Contexts : Remains(d)
    BY <1>0, <1>7, <1>b, <1>c, SpendingKeeps DEF InvokeTool
  <2> QED
    BY <1>7, <1>a, <2>1, ScopeKept DEF InvokeTool
<1>8. ASSUME NEW S, context' = ContextsRevoked(S), \A c \in S : Active(c),
             challenge' = ChallengesVoided(S)
      PROVE  ScopeInv'
  <2>1. \A c \in Contexts : Remains(c)
    BY <1>0, <1>8, RevokedFields DEF Remains, Active
  <2>2. \A h \in Challenges : Asks(h)
    BY <1>0, <1>8, VoidedFields DEF Asks
  <2> QED
    BY <2>1, <2>2, ScopeKept
<1>9. ASSUME NEW c \in Contexts, FinishContext(c) \/ SessionMismatch(c) PROVE ScopeInv'
  BY <1>8, <1>9 DEF FinishContext, SessionMismatch, Revoke, Subtree
<1>10. ASSUME NEW a \in Authorities, RetireAuthority(a) PROVE ScopeInv'
  BY <1>8, <1>10 DEF RetireAuthority
<1>11. ASSUME NEW c \in Contexts, NEW k \in Calls, NEW h \in Challenges,
              CreateApprovalChallenge(c, k, h)
       PROVE  ScopeInv'
  <2>1. /\ challenge' = [challenge EXCEPT ![h] =
             [status |-> "open", parent |-> c, tool |-> call[k].tool,
              args |-> call[k].args]]
        /\ UNCHANGED context
    BY <1>11 DEF CreateApprovalChallenge
  <2>2. Active(c) /\ call[k].tool \in context[c].tools
    BY <1>11 DEF CreateApprovalChallenge, Usable, Current
  <2>3. ASSUME NEW e \in Challenges PROVE Asks(e)
    <3>1. CASE e = h
      BY <1>0, <2>1, <2>2, <3>1 DEF Asks, Active, TypeOK
    <3>2. CASE e # h
      BY <1>0, <2>1, <3>2 DEF Asks, TypeOK
    <3> QED
      BY <3>1, <3>2
  <2> QED
    BY <1>b, <2>1, <2>3, ScopeKept
<1>12. ASSUME NEW h \in Challenges, DenyChallenge(h) PROVE ScopeInv'
  <2>1. \A e \in Challenges : Asks(e)
    BY <1>0, <1>12 DEF DenyChallenge, Answerable, Asks, TypeOK, ChallengeRecord
  <2> QED
    BY <1>12, <1>b, <2>1, ScopeKept DEF DenyChallenge
<1> QED
  BY <1>1, <1>2, <1>3, <1>4, <1>5, <1>6, <1>7, <1>9, <1>10, <1>11, <1>12
  DEF Next, CallerNext

LEMMA ScopeInvariance == Spec => []ScopeInv
<1>1. Init => ScopeInv
  BY DEF Init, ScopeInv, Rooted, Requested, Attenuated, Attenuation, UnusedContext,
     UnusedChallenge
<1> QED
  BY <1>1, ScopeInvNext, TypeInvariance, TreeInvariance, PTL DEF Spec

\* However deep the tree: no context has a tool or a root that one above it had not, no
\* child has an approval-bound tool, no chain of children leads from a kind to itself
\* (deriveChild, resolveApprovalChallenge).
THEOREM AttenuationHolds == Spec => []Attenuation
<1>1. ScopeInv => Attenuation
  BY DEF ScopeInv, Attenuated
<1> QED
  BY <1>1, ScopeInvariance, PTL

-----------------------------------------------------------------------------
(* The run in progress.                                                     *)

\* A revocation takes with it the marks of the runs it ends and no other.
LEMMA RunsRevoked ==
  ASSUME TypeInv, RunIsActiveRoot, NEW S \in SUBSET Contexts,
         context' = ContextsRevoked(S), \A c \in S : Active(c),
         \A b \in Authorities :
           authority'[b].activeRoot =
             IF authority[b].activeRoot \in S THEN None ELSE authority[b].activeRoot
  PROVE  RunIsActiveRoot'
<1>1. TypeOK
  BY DEF TypeInv
<1>2. \A c \in Contexts :
        /\ c \in S => context'[c].status = "revoked"
        /\ c \notin S => context'[c] = context[c]
        /\ context'[c].authority = context[c].authority
        /\ context'[c].parent = context[c].parent
        /\ context'[c].principal = context[c].principal
  BY <1>1, RevokedFields
<1>3. \A b \in Authorities : authority[b].activeRoot \in Contexts \cup {None}
  BY <1>1 DEF TypeOK
<1>4. ASSUME NEW c \in Contexts, context'[c].status = "active",
             context'[c].principal = "agent", context'[c].parent = None
      PROVE  authority'[context'[c].authority].activeRoot = c
  BY <1>2, <1>4, InUse DEF RunIsActiveRoot, Active
<1>5. ASSUME NEW b \in Authorities, authority'[b].activeRoot # None
      PROVE  /\ context'[authority'[b].activeRoot].status = "active"
             /\ context'[authority'[b].activeRoot].authority = b
  BY <1>2, <1>3, <1>5 DEF RunIsActiveRoot, Active
<1> QED
  BY <1>4, <1>5 DEF RunIsActiveRoot, Active

\* A new context is a new run, or is not a root of the agent's.
LEMMA RunsGrow ==
  ASSUME TypeInv, RunIsActiveRoot, NEW d \in Contexts, context[d].status = "unused",
         NEW r, context' = [context EXCEPT ![d] = r],
         \/ /\ r.principal # "agent" \/ r.parent # None
            /\ UNCHANGED authority
         \/ /\ r.status = "active" /\ r.authority \in Authorities
            /\ authority[r.authority].activeRoot = None
            /\ authority' = [authority EXCEPT ![r.authority].activeRoot = d]
  PROVE  RunIsActiveRoot'
<1>1. context'[d] = r /\ \A c \in Contexts \ {d} : context'[c] = context[c]
  BY DEF TypeInv, TypeOK
<1>2. \A b \in Authorities : authority[b].activeRoot \in (Contexts \ {d}) \cup {None}
  BY DEF TypeInv, TypeOK, RunIsActiveRoot, Active
<1>3. \A c \in Contexts : Active(c) => context[c].authority \in Authorities
  BY InUse DEF Active
<1>4. None \notin Contexts
  BY NoneAssumption
<1>5. CASE (r.principal # "agent" \/ r.parent # None) /\ UNCHANGED authority
  BY <1>1, <1>2, <1>5 DEF RunIsActiveRoot, Active
<1>6. CASE /\ r.status = "active" /\ r.authority \in Authorities
           /\ authority[r.authority].activeRoot = None
           /\ authority' = [authority EXCEPT ![r.authority].activeRoot = d]
  <2>1. \A b \in Authorities :
          authority'[b].activeRoot = IF b = r.authority THEN d ELSE authority[b].activeRoot
    BY <1>6 DEF TypeInv, TypeOK
  <2>2. ASSUME NEW c \in Contexts, context'[c].status = "active",
               context'[c].principal = "agent", context'[c].parent = None
        PROVE  authority'[context'[c].authority].activeRoot = c
    BY <1>1, <1>3, <1>4, <1>6, <2>1, <2>2 DEF RunIsActiveRoot, Active
  <2>3. ASSUME NEW b \in Authorities, authority'[b].activeRoot # None
        PROVE  /\ context'[authority'[b].activeRoot].status = "active"
               /\ context'[authority'[b].activeRoot].authority = b
    BY <1>1, <1>2, <1>6, <2>1, <2>3 DEF RunIsActiveRoot, Active
  <2> QED
    BY <2>2, <2>3 DEF RunIsActiveRoot, Active
<1> QED
  BY <1>5, <1>6

\* The runs in progress survive a step that keeps contexts and their marks.
LEMMA RunsKept ==
  ASSUME TypeInv, RunIsActiveRoot, \A c \in Contexts : Kept(c),
         \A b \in Authorities : authority'[b].activeRoot = authority[b].activeRoot
  PROVE  RunIsActiveRoot'
<1>1. \A c \in Contexts : Active(c) => context[c].authority \in Authorities
  BY InUse DEF Active
<1>2. \A b \in Authorities : authority[b].activeRoot \in Contexts \cup {None}
  BY DEF TypeInv, TypeOK
<1> QED
  BY <1>1, <1>2 DEF RunIsActiveRoot, Active, Kept

\* Every step of the broker keeps runs and marks together.
LEMMA RunsNext == TypeInv /\ RunIsActiveRoot /\ [Next]_vars => RunIsActiveRoot'
<1> SUFFICES ASSUME TypeInv, RunIsActiveRoot, [Next]_vars PROVE RunIsActiveRoot'
  OBVIOUS
<1>0. TypeOK
  BY DEF TypeInv
<1>1. CASE Elsewhere
  BY <1>1, ElsewhereKeeps, RunsKept DEF Kept
<1>2. ASSUME NEW a \in Authorities, CreateRuntimeAuthority(a) PROVE RunIsActiveRoot'
  <2>1. \A b \in Authorities : authority'[b].activeRoot = authority[b].activeRoot
    BY <1>0, <1>2 DEF CreateRuntimeAuthority, TypeOK
  <2> QED
    BY <1>2, <2>1, RunsKept DEF CreateRuntimeAuthority, Kept
<1>3. ASSUME NEW a \in Authorities, NEW s \in Sessions, NEW c \in Contexts,
             BeginAgentRun(a, s, c)
      PROVE  RunIsActiveRoot'
  <2>1. PICK r : r = [status |-> "active", authority |-> a, parent |-> None,
        ancestors |-> {}, domain |-> c, principal |-> "agent", session |-> s,
        tools |-> Tools, roots |-> Roots, grant |-> None, spent |-> FALSE]
    OBVIOUS
  <2>2. context' = [context EXCEPT ![c] = r] /\ r.status = "active" /\ r.authority = a
    BY <1>3, <2>1 DEF BeginAgentRun
  <2> QED
    BY <1>3, <2>2, RunsGrow DEF BeginAgentRun
<1>4. ASSUME NEW a \in Authorities, NEW s \in Sessions, NEW c \in Contexts,
             IssueLocalApiContext(a, s, c)
      PROVE  RunIsActiveRoot'
  <2>1. PICK r : r = [status |-> "active", authority |-> a, parent |-> None,
        ancestors |-> {}, domain |-> a, principal |-> "local-user-api",
        session |-> s, tools |-> {}, roots |-> Roots, grant |-> None,
        spent |-> FALSE]
    OBVIOUS
  <2>2. context' = [context EXCEPT ![c] = r] /\ r.principal = "local-user-api"
    BY <1>4, <2>1 DEF IssueLocalApiContext
  <2> QED
    BY <1>4, <2>2, RunsGrow DEF IssueLocalApiContext
<1>5. ASSUME NEW p \in Contexts, NEW q, NEW T, NEW R, NEW g, NEW d \in Contexts,
             context[d].status = "unused", UNCHANGED authority,
             context' = [context EXCEPT ![d] = ChildContext(p, q, T, R, g)]
      PROVE  RunIsActiveRoot'
  <2>1. PICK r : r = ChildContext(p, q, T, R, g)
    OBVIOUS
  <2>2. r.parent # None
    BY <2>1, NoneAssumption DEF ChildContext
  <2> QED
    BY <1>5, <2>1, <2>2, RunsGrow
<1>6. ASSUME NEW p \in Contexts, NEW principal \in {"subagent", "playbook"},
             NEW T \in SUBSET Tools, NEW R \in SUBSET Roots, NEW d \in Contexts,
             DeriveChild(p, principal, T, R, d)
      PROVE  RunIsActiveRoot'
  BY <1>5, <1>6 DEF DeriveChild
<1>7. ASSUME NEW c \in Contexts, NEW principal \in {"subagent", "playbook"},
             NEW T \in SUBSET Tools, NEW R \in SUBSET Roots, NEW d \in Contexts,
             DeriveInvocationChild(c, principal, T, R, d)
      PROVE  RunIsActiveRoot'
  <2>1. context[c].parent \in Contexts
    BY <1>7 DEF DeriveInvocationChild, TypeInv, Formed, FormedContext
  <2> QED
    BY <1>6, <1>7, <2>1 DEF DeriveInvocationChild
<1>8. ASSUME NEW h \in Challenges, NEW d \in Contexts, ApproveChallenge(h, d)
      PROVE  RunIsActiveRoot'
  <2>1. challenge[h].parent \in Contexts
    BY <1>8 DEF ApproveChallenge, Answerable, TypeInv, Formed, FormedChallenge
  <2> QED
    BY <1>5, <1>8, <2>1 DEF ApproveChallenge
<1>9. ASSUME NEW c \in Contexts, AuthorizeDirectOperation(c) PROVE RunIsActiveRoot'
  BY <1>0, <1>9, SpendingKeeps, RunsKept DEF AuthorizeDirectOperation
<1>10. ASSUME NEW c \in Contexts, NEW k \in Calls, InvokeTool(c, k) PROVE RunIsActiveRoot'
  <2>1. \A d \in Contexts : Kept(d)
    BY <1>0, <1>10, SpendingKeeps DEF InvokeTool, Kept
  <2> QED
    BY <1>10, <2>1, RunsKept DEF InvokeTool
<1>11. ASSUME NEW c \in Contexts, FinishContext(c) \/ SessionMismatch(c)
       PROVE  RunIsActiveRoot'
  <2> DEFINE S == Subtree(c)
  <2>1. /\ context' = ContextsRevoked(S) /\ authority' = RootsCleared(S)
        /\ S \in SUBSET Contexts /\ \A d \in S : Active(d)
    BY <1>11 DEF FinishContext, SessionMismatch, Revoke, Subtree
  <2> HIDE DEF S
  <2> QED
    BY <1>0, <2>1, RootsClearedFields, RunsRevoked
<1>12. ASSUME NEW a \in Authorities, RetireAuthority(a) PROVE RunIsActiveRoot'
  <2> DEFINE S == {c \in Contexts : Active(c) /\ context[c].authority = a}
  <2>1. /\ context' = ContextsRevoked(S)
        /\ authority' = [authority EXCEPT ![a] = [status |-> "retired", activeRoot |-> None]]
    BY <1>12 DEF RetireAuthority
  <2>2. \A b \in Authorities :
          authority[b].activeRoot \in S <=> authority[b].activeRoot # None /\ b = a
    BY <1>0, NoneAssumption DEF RunIsActiveRoot, TypeOK
  <2>3. \A b \in Authorities :
          authority'[b].activeRoot =
            IF authority[b].activeRoot \in S THEN None ELSE authority[b].activeRoot
    BY <1>0, <2>1, <2>2 DEF TypeOK
  <2>4. S \in SUBSET Contexts /\ \A d \in S : Active(d)
    OBVIOUS
  <2> HIDE DEF S
  <2> QED
    BY <2>1, <2>3, <2>4, RunsRevoked
<1> QED
  BY <1>1, <1>2, <1>3, <1>4, <1>6, <1>7, <1>8, <1>9, <1>10, <1>11, <1>12
  DEF Next, CallerNext, Elsewhere

\* For any number of runs and however each ends: activeRoot is the run in progress, and is
\* clear when there is none (beginAgentRun, revokeContext, beginAuthorityRetirement).
THEOREM RunIsActiveRootHolds == Spec => []RunIsActiveRoot
<1>1. Init => RunIsActiveRoot
  BY NoneAssumption DEF Init, RunIsActiveRoot, Active, UnusedContext
<1> QED
  BY <1>1, RunsNext, TypeInvariance, PTL DEF Spec

\* A context that is active belongs to the run in progress, or is the local user's.
LEMMA InCurrentRun ==
  ASSUME TypeInv, TreeInv, ScopeInv, RunIsActiveRoot, NEW c \in Contexts, Active(c),
         context[c].principal # "local-user-api"
  PROVE  /\ context[c].domain \in Contexts /\ Active(context[c].domain)
         /\ authority[context[c].authority].activeRoot = context[c].domain
<1>1. /\ context[c].domain \in Contexts /\ context[c].domain \in context[c].ancestors \cup {c}
      /\ context[context[c].domain].principal = "agent"
      /\ context[context[c].domain].parent = None
      /\ context[context[c].domain].authority = context[c].authority
  BY DEF ScopeInv, Rooted, TreeInv, Ancestry, Active
<1>2. Active(context[c].domain)
  BY <1>1 DEF TreeInv, ActiveAncestry
<1> QED
  BY <1>1, <1>2 DEF RunIsActiveRoot

\* Only an invocation marks a call as run, by the context it was made with.
LEMMA OnlyInvokeRuns ==
  ASSUME TypeInv, Next, NEW k \in Calls, call'[k].by # call[k].by
  PROVE  call'[k].by \in Contexts /\ InvokeTool(call'[k].by, k)
<1>0. TypeOK
  BY DEF TypeInv
<1>1. ASSUME NEW c \in Contexts, NEW t \in Tools, NEW x \in Arguments, NEW l \in Calls,
             InspectToolCall(c, t, x, l)
      PROVE  FALSE
  BY <1>0, <1>1 DEF InspectToolCall, UnusedCall, TypeOK
<1>2. ASSUME NEW c \in Contexts, NEW l \in Calls, InvokeTool(c, l)
      PROVE  call'[k].by = c /\ l = k
  BY <1>0, <1>2 DEF InvokeTool, TypeOK, CallRecord
<1>3. UNCHANGED call => FALSE
  OBVIOUS
<1>4. ASSUME NEW c \in Contexts, NEW principal, NEW T, NEW R, NEW d,
             DeriveChild(c, principal, T, R, d) \/ DeriveInvocationChild(c, principal, T, R, d)
      PROVE  UNCHANGED call
  BY <1>4 DEF DeriveChild, DeriveInvocationChild
<1>5. EnvironmentNext \/ DrainNext => UNCHANGED call
  BY DEF EnvironmentNext, DrainNext, SetSessionPersona, Expire, OwnerDrained,
     OwnerDeadline, WaitResolves, WaitRejects
<1>6. CASE CallerNext
  <2>1. CASE \E c \in Contexts, l \in Calls : InvokeTool(c, l)
    BY <1>2, <2>1
  <2>2. CASE \/ \E a \in Authorities : CreateRuntimeAuthority(a)
             \/ \E a \in Authorities, s \in Sessions, c \in Contexts : BeginAgentRun(a, s, c)
             \/ \E a \in Authorities, s \in Sessions, c \in Contexts :
                  IssueLocalApiContext(a, s, c)
             \/ \E c \in Contexts : AuthorizeDirectOperation(c)
             \/ \E c \in Contexts : FinishContext(c)
             \/ \E c \in Contexts : SessionMismatch(c)
             \/ \E c \in Contexts, l \in Calls, h \in Challenges :
                  CreateApprovalChallenge(c, l, h)
             \/ \E h \in Challenges : DenyChallenge(h)
             \/ \E h \in Challenges, d \in Contexts : ApproveChallenge(h, d)
             \/ \E c \in Contexts, o \in Owners : GetResourceOwner(c, o)
             \/ \E a \in Authorities, s \in Sessions : RetireSessionResources(a, s)
             \/ \E a \in Authorities : RetireAuthority(a)
    BY <1>3, <2>2 DEF CreateRuntimeAuthority, BeginAgentRun, IssueLocalApiContext,
       AuthorizeDirectOperation, FinishContext, SessionMismatch, CreateApprovalChallenge,
       DenyChallenge, ApproveChallenge, GetResourceOwner, RetireSessionResources,
       RetireAuthority
  <2> QED
    BY <1>1, <1>3, <1>4, <1>6, <2>1, <2>2 DEF CallerNext
<1> QED
  BY <1>3, <1>5, <1>6 DEF Next

\* A tool runs only in the run in progress, for any number of runs before it (invokeTool).
THEOREM RunsOnlyInCurrentRunHolds == Spec => RunsOnlyInCurrentRun
<1>1. TypeInv /\ TreeInv /\ ScopeInv /\ RunIsActiveRoot /\ [Next]_vars =>
        [\A k \in Calls : call'[k].by # call[k].by =>
           LET c == call'[k].by IN
           authority[context[c].authority].activeRoot = context[c].domain]_vars
  <2> SUFFICES ASSUME TypeInv, TreeInv, ScopeInv, RunIsActiveRoot, Next,
                      NEW k \in Calls, call'[k].by # call[k].by
               PROVE  authority[context[call'[k].by].authority].activeRoot
                        = context[call'[k].by].domain
    OBVIOUS
  <2>1. call'[k].by \in Contexts /\ InvokeTool(call'[k].by, k)
    BY OnlyInvokeRuns
  <2>2. Active(call'[k].by) /\ context[call'[k].by].principal # "local-user-api"
    BY <2>1 DEF InvokeTool, Usable, Current
  <2> QED
    BY <2>1, <2>2, InCurrentRun
<1> QED
  BY <1>1, TypeInvariance, TreeInvariance, ScopeInvariance, RunIsActiveRootHolds, PTL
  DEF Spec, RunsOnlyInCurrentRun

-----------------------------------------------------------------------------
(* The owners that runs leave behind.                                       *)

\* An owner that is not released is still found under its key.
Unreleased(o) == owner[o].phase \notin {"unused", "released"}

StillHeld == \A o \in Owners : Unreleased(o) => owner[o].held

OwnedBy(o) ==
  owner[o].phase = "live" =>
    /\ AuthorityActive(owner[o].authority)
    /\ owner[o].principal # "local-user-api" =>
         owner[o].domain \in Contexts /\ Active(owner[o].domain)

OwnerInv ==
  /\ StillHeld
  /\ OneUnreleasedOwnerPerKey
  /\ \A o \in Owners : OwnedBy(o)

\* An owner moves on: it is the same, and neither revived nor let go of unreleased.
Advances(o) ==
  /\ owner'[o].authority = owner[o].authority
  /\ owner'[o].session = owner[o].session
  /\ owner'[o].domain = owner[o].domain
  /\ owner'[o].principal = owner[o].principal
  /\ owner'[o].roots = owner[o].roots
  /\ Unreleased(o)' => Unreleased(o) /\ (owner[o].held => owner'[o].held)
  /\ owner'[o].phase = "live" => owner[o].phase = "live"

\* The owners' invariant survives when owners only move on, and the live ones keep what
\* they belong to.
LEMMA OwnersAdvance ==
  ASSUME TypeInv, OwnerInv, \A o \in Owners : Advances(o),
         \A o \in Owners : owner'[o].phase = "live" => OwnedBy(o)'
  PROVE  OwnerInv'
<1>1. StillHeld'
  BY DEF OwnerInv, StillHeld, Advances
<1>2. \A o \in Owners : KeyOf(owner'[o]) = KeyOf(owner[o])
  BY DEF Advances, KeyOf
<1>3. OneUnreleasedOwnerPerKey'
  <2> SUFFICES ASSUME NEW o \in Owners, NEW q \in Owners, o # q,
                      Unreleased(o)', Unreleased(q)'
               PROVE  KeyOf(owner'[o]) # KeyOf(owner'[q])
    BY DEF OneUnreleasedOwnerPerKey, Unreleased, KeyOf
  <2>1. Unreleased(o) /\ Unreleased(q)
    BY DEF Advances
  <2> QED
    BY <1>2, <2>1 DEF OwnerInv, OneUnreleasedOwnerPerKey, Unreleased
<1>4. \A o \in Owners : OwnedBy(o)'
  BY DEF OwnedBy
<1> QED
  BY <1>1, <1>3, <1>4 DEF OwnerInv

\* It survives when, besides, nothing active ends.
LEMMA OwnersLive ==
  ASSUME TypeInv, OwnerInv, \A o \in Owners : Advances(o),
         \A c \in Contexts : Active(c) => Active(c)',
         \A a \in Authorities : AuthorityActive(a) => AuthorityActive(a)'
  PROVE  OwnerInv'
<1>1. ASSUME NEW o \in Owners, owner'[o].phase = "live"
      PROVE  OwnedBy(o)'
  <2>1. /\ owner[o].phase = "live" /\ owner[o].held
        /\ owner'[o].authority = owner[o].authority
        /\ owner'[o].domain = owner[o].domain
        /\ owner'[o].principal = owner[o].principal
    BY <1>1 DEF Advances, OwnerInv, StillHeld, Unreleased
  <2>2. owner[o].authority \in Authorities
    BY <2>1 DEF TypeInv, Formed, FormedOwner
  <2> QED
    BY <2>1, <2>2 DEF OwnerInv, OwnedBy
<1> QED
  BY <1>1, OwnersAdvance

\* A step that leaves the owners is one that moves none of them.
LEMMA OwnersSame == UNCHANGED owner => \A o \in Owners : Advances(o)
  BY DEF Advances, Unreleased

\* Retiring owners moves them on.
LEMMA OwnersRetiring ==
  ASSUME TypeOK, NEW O, owner' = OwnersRetired(O)
  PROVE  \A o \in Owners : Advances(o) /\ (owner'[o].phase = "live" => o \notin O)
<1> SUFFICES ASSUME NEW o \in Owners
             PROVE  Advances(o) /\ (owner'[o].phase = "live" => o \notin O)
  OBVIOUS
<1>1. owner[o].phase \in {"unused", "released"} => owner'[o].phase = owner[o].phase
  BY RetiredFields
<1> QED
  BY <1>1, RetiredFields DEF Advances, Unreleased

\* A new owner has a key of its own, in the run of its context.
LEMMA OwnerIssued ==
  ASSUME TypeInv, TreeInv, ScopeInv, RunIsActiveRoot, OwnerInv,
         NEW c \in Contexts, NEW o \in Owners, GetResourceOwner(c, o)
  PROVE  OwnerInv'
<1>1. PICK r : r = [phase |-> "live", authority |-> context[c].authority,
        session |-> context[c].session, domain |-> context[c].domain,
        principal |-> context[c].principal, roots |-> context[c].roots, held |-> TRUE]
  OBVIOUS
<1>2. /\ r.phase = "live" /\ r.held = TRUE /\ r.authority = context[c].authority
      /\ r.domain = context[c].domain /\ r.principal = context[c].principal
      /\ KeyOf(r) = KeyOf(context[c])
  BY <1>1 DEF KeyOf
<1>3. owner' = [owner EXCEPT ![o] = r] /\ UNCHANGED runVars
  BY <1>1 DEF GetResourceOwner
<1>4. owner'[o] = r /\ \A q \in Owners \ {o} : owner'[q] = owner[q]
  BY <1>3 DEF TypeInv, TypeOK
<1>5. Active(c) /\ AuthorityActive(context[c].authority)
  BY DEF GetResourceOwner, Usable, Current
<1>6. \A q \in HeldOwners(context[c].authority) : KeyOf(owner[q]) # KeyOf(context[c])
  BY DEF GetResourceOwner
<1>7. StillHeld'
  BY <1>2, <1>4 DEF OwnerInv, StillHeld, Unreleased
<1>8. ASSUME NEW q \in Owners \ {o}, Unreleased(q)
      PROVE  KeyOf(owner[q]) # KeyOf(r)
  <2>1. owner[q].held
    BY <1>8 DEF OwnerInv, StillHeld
  <2>2. CASE owner[q].authority = context[c].authority
    BY <1>2, <1>6, <2>1, <2>2 DEF HeldOwners
  <2>3. CASE owner[q].authority # context[c].authority
    BY <1>2, <2>3 DEF KeyOf
  <2> QED
    BY <2>2, <2>3
<1>9. OneUnreleasedOwnerPerKey'
  <2> SUFFICES ASSUME NEW p \in Owners, NEW q \in Owners, p # q,
                      Unreleased(p)', Unreleased(q)'
               PROVE  KeyOf(owner'[p]) # KeyOf(owner'[q])
    BY DEF OneUnreleasedOwnerPerKey, Unreleased, KeyOf
  <2>1. CASE p = o
    BY <1>4, <1>8, <2>1 DEF Unreleased
  <2>2. CASE q = o
    BY <1>4, <1>8, <2>2 DEF Unreleased
  <2>3. CASE p # o /\ q # o
    BY <1>4, <2>3 DEF OwnerInv, OneUnreleasedOwnerPerKey, Unreleased
  <2> QED
    BY <2>1, <2>2, <2>3
<1>10. ASSUME NEW q \in Owners PROVE OwnedBy(q)'
  <2>1. CASE q = o
    BY <1>2, <1>3, <1>4, <1>5, <2>1, InCurrentRun
    DEF OwnedBy, AuthorityActive, Active, runVars
  <2>2. CASE q # o
    <3>1. OwnedBy(q) /\ owner'[q] = owner[q] /\ UNCHANGED <<authority, context>>
      BY <1>3, <1>4, <2>2 DEF OwnerInv, runVars
    <3> QED
      BY <3>1 DEF OwnedBy, AuthorityActive, Active
  <2> QED
    BY <2>1, <2>2
<1> QED
  BY <1>7, <1>9, <1>10 DEF OwnerInv

\* When contexts are revoked, and with them the owners of their runs, and authorities with
\* theirs, no live owner is left behind.
LEMMA OwnersRevoked ==
  ASSUME TypeInv, OwnerInv, NEW S \in SUBSET Contexts, NEW O,
         context' = ContextsRevoked(S), owner' = OwnersRetired(O), RunOwners(S) \subseteq O,
         \A o \in Owners : owner[o].held /\ o \notin O /\ AuthorityActive(owner[o].authority)
           => AuthorityActive(owner[o].authority)'
  PROVE  OwnerInv'
<1>1. TypeOK
  BY DEF TypeInv
<1>2. \A o \in Owners : Advances(o) /\ (owner'[o].phase = "live" => o \notin O)
  BY <1>1, OwnersRetiring
<1>3. ASSUME NEW o \in Owners, owner'[o].phase = "live"
      PROVE  OwnedBy(o)'
  <2>1. /\ owner[o].phase = "live" /\ owner[o].held /\ o \notin O
        /\ owner'[o].authority = owner[o].authority
        /\ owner'[o].domain = owner[o].domain
        /\ owner'[o].principal = owner[o].principal
    BY <1>2, <1>3 DEF Advances, OwnerInv, StillHeld, Unreleased
  <2>2. owner[o].domain \notin S
    BY <2>1 DEF RunOwners
  <2>3. ASSUME NEW d \in Contexts, d \notin S, Active(d)
        PROVE  context'[d].status = "active"
    BY <1>1, <2>3, RevokedFields DEF Active
  <2>4. AuthorityActive(owner[o].authority)'
    BY <2>1 DEF OwnerInv, OwnedBy
  <2>5. owner[o].principal # "local-user-api" =>
          owner[o].domain \in Contexts /\ context'[owner[o].domain].status = "active"
    BY <2>1, <2>2, <2>3 DEF OwnerInv, OwnedBy
  <2> QED
    BY <2>1, <2>4, <2>5 DEF OwnedBy, AuthorityActive, Active
<1> QED
  BY <1>2, <1>3, OwnersAdvance

\* Every step of the broker keeps the owners' invariant.
LEMMA OwnerInvNext ==
  TypeInv /\ TreeInv /\ ScopeInv /\ RunIsActiveRoot /\ OwnerInv /\ [Next]_vars => OwnerInv'
<1> SUFFICES ASSUME TypeInv, TreeInv, ScopeInv, RunIsActiveRoot, OwnerInv, [Next]_vars
             PROVE  OwnerInv'
  OBVIOUS
<1>0. TypeOK
  BY DEF TypeInv
<1>a. UNCHANGED context => \A c \in Contexts : Active(c) => Active(c)'
  BY DEF Active
<1>b. UNCHANGED authority => \A a \in Authorities : AuthorityActive(a) => AuthorityActive(a)'
  BY DEF AuthorityActive
<1>c. ASSUME NEW d \in Contexts, context[d].status = "unused",
             NEW r, context' = [context EXCEPT ![d] = r]
      PROVE  \A c \in Contexts : Active(c) => Active(c)'
  BY <1>0, <1>c DEF Active, TypeOK
<1>d. ASSUME \A c \in Contexts : Kept(c) PROVE \A c \in Contexts : Active(c) => Active(c)'
  BY <1>d DEF Active, Kept
<1>1. CASE \/ \E c \in Contexts, t \in Tools, x \in Arguments, k \in Calls :
                InspectToolCall(c, t, x, k)
           \/ \E c \in Contexts, k \in Calls, h \in Challenges :
                CreateApprovalChallenge(c, k, h)
           \/ \E h \in Challenges : DenyChallenge(h)
           \/ EnvironmentNext
           \/ \E w \in waits : WaitRejects(w)
           \/ UNCHANGED vars
  <2>1. UNCHANGED <<context, authority, owner>>
    BY <1>1 DEF InspectToolCall, CreateApprovalChallenge, DenyChallenge, EnvironmentNext,
       SetSessionPersona, Expire, WaitRejects, runVars, ownerVars, vars
  <2> QED
    BY <1>a, <1>b, <2>1, OwnersSame, OwnersLive
<1>2. ASSUME NEW a \in Authorities, CreateRuntimeAuthority(a) PROVE OwnerInv'
  <2>1. \A b \in Authorities : AuthorityActive(b) => AuthorityActive(b)'
    BY <1>0, <1>2 DEF CreateRuntimeAuthority, AuthorityActive, TypeOK
  <2> QED
    BY <1>2, <1>a, <2>1, OwnersSame, OwnersLive DEF CreateRuntimeAuthority
<1>3. ASSUME NEW a \in Authorities, NEW s \in Sessions, NEW c \in Contexts,
             BeginAgentRun(a, s, c) \/ IssueLocalApiContext(a, s, c)
      PROVE  OwnerInv'
  <2>1. \A b \in Authorities : AuthorityActive(b) => AuthorityActive(b)'
    BY <1>0, <1>3 DEF BeginAgentRun, IssueLocalApiContext, AuthorityActive, TypeOK
  <2>2. \A d \in Contexts : Active(d) => Active(d)'
    BY <1>c, <1>3 DEF BeginAgentRun, IssueLocalApiContext
  <2> QED
    BY <1>3, <2>1, <2>2, OwnersSame, OwnersLive
    DEF BeginAgentRun, IssueLocalApiContext, ownerVars
<1>4. ASSUME NEW p, NEW principal, NEW T, NEW R, NEW d \in Contexts,
             DeriveChild(p, principal, T, R, d)
      PROVE  OwnerInv'
  <2>1. /\ context[d].status = "unused" /\ UNCHANGED <<authority, owner>>
        /\ context' = [context EXCEPT ![d] = ChildContext(p, principal, T, R, None)]
    BY <1>4 DEF DeriveChild, ownerVars
  <2>2. \A c \in Contexts : Active(c) => Active(c)'
    BY <1>c, <2>1
  <2> QED
    BY <1>b, <2>1, <2>2, OwnersSame, OwnersLive
<1>5. ASSUME NEW c, NEW principal, NEW T, NEW R, NEW d \in Contexts,
             DeriveInvocationChild(c, principal, T, R, d)
      PROVE  OwnerInv'
  BY <1>4, <1>5 DEF DeriveInvocationChild
<1>6. ASSUME NEW h \in Challenges, NEW d \in Contexts, ApproveChallenge(h, d)
      PROVE  OwnerInv'
  <2>1. context[d].status = "unused" /\ UNCHANGED <<authority, owner>>
    BY <1>6 DEF ApproveChallenge, ownerVars
  <2>2. \A c \in Contexts : Active(c) => Active(c)'
    BY <1>c, <1>6, <2>1 DEF ApproveChallenge
  <2> QED
    BY <1>b, <2>1, <2>2, OwnersSame, OwnersLive
<1>7. ASSUME NEW c \in Contexts, AuthorizeDirectOperation(c) PROVE OwnerInv'
  BY <1>0, <1>7, <1>b, <1>d, SpendingKeeps, OwnersSame, OwnersLive
  DEF AuthorizeDirectOperation, ownerVars
<1>8. ASSUME NEW c \in Contexts, NEW k \in Calls, InvokeTool(c, k) PROVE OwnerInv'
  <2>1. \A d \in Contexts : Kept(d)
    BY <1>0, <1>8, SpendingKeeps DEF InvokeTool, Kept
  <2> QED
    BY <1>8, <1>b, <1>d, <2>1, OwnersSame, OwnersLive DEF InvokeTool, ownerVars
<1>9. ASSUME NEW a \in Authorities, NEW s \in Sessions, RetireSessionResources(a, s)
      PROVE  OwnerInv'
  <2>1. UNCHANGED <<context, authority>>
    BY <1>9 DEF RetireSessionResources, runVars
  <2>2. UNCHANGED owner \/ \E O : owner' = OwnersRetired(O)
    BY <1>9 DEF RetireSessionResources
  <2>3. \A o \in Owners : Advances(o)
    BY <1>0, <2>2, OwnersSame, OwnersRetiring
  <2> QED
    BY <1>a, <1>b, <2>1, <2>3, OwnersLive
<1>10. ASSUME NEW o \in Owners, OwnerDrained(o) \/ OwnerDeadline(o) PROVE OwnerInv'
  <2>1. UNCHANGED <<context, authority>> /\ owner[o].phase \in {"draining", "overdue"}
    BY <1>10 DEF OwnerDrained, OwnerDeadline, runVars
  <2>2. PICK f \in {"released", "failed", "overdue"} :
          owner' = [owner EXCEPT ![o] = [owner[o] EXCEPT !.phase = f]]
    BY <1>10 DEF OwnerDrained, OwnerDeadline
  <2>3. ASSUME NEW q \in OwnerRecord
        PROVE  LET r == [q EXCEPT !.phase = f] IN
               /\ r.phase = f /\ r.held = q.held /\ r.authority = q.authority
               /\ r.session = q.session /\ r.domain = q.domain
               /\ r.principal = q.principal /\ r.roots = q.roots
    BY DEF OwnerRecord
  <2>4. owner \in [Owners -> OwnerRecord]
    BY <1>0 DEF TypeOK
  <2>5. \A q \in Owners : Advances(q)
    BY <2>1, <2>2, <2>3, <2>4 DEF Advances, Unreleased
  <2> QED
    BY <1>a, <1>b, <2>1, <2>5, OwnersLive
<1>11. ASSUME NEW w \in waits, WaitResolves(w) PROVE OwnerInv'
  <2>1. UNCHANGED <<context, authority>> /\ owner' = Dropped(w.owners)
        /\ \A o \in w.owners : owner[o].phase = "released"
    BY <1>11 DEF WaitResolves, runVars
  <2>2. ASSUME NEW q \in OwnerRecord
        PROVE  LET r == [q EXCEPT !.held = FALSE] IN
               /\ r.phase = q.phase /\ r.authority = q.authority
               /\ r.session = q.session /\ r.domain = q.domain
               /\ r.principal = q.principal /\ r.roots = q.roots
    BY DEF OwnerRecord
  <2>3. owner \in [Owners -> OwnerRecord]
    BY <1>0 DEF TypeOK
  <2>4. ASSUME NEW q \in Owners PROVE Advances(q)
    <3>1. CASE q \in w.owners
      BY <2>1, <2>2, <2>3, <3>1 DEF Advances, Unreleased, Dropped
    <3>2. CASE q \notin w.owners
      BY <2>1, <3>2 DEF Advances, Unreleased, Dropped
    <3> QED
      BY <3>1, <3>2
  <2> QED
    BY <1>a, <1>b, <2>1, <2>4, OwnersLive
<1>12. ASSUME NEW c \in Contexts, FinishContext(c) \/ SessionMismatch(c) PROVE OwnerInv'
  <2> DEFINE S == Subtree(c)
  <2>1. /\ context' = ContextsRevoked(S) /\ authority' = RootsCleared(S)
        /\ owner' = OwnersRetired(RunOwners(S)) /\ S \in SUBSET Contexts
    BY <1>12 DEF FinishContext, SessionMismatch, Revoke, Subtree
  <2> HIDE DEF S
  <2>2. ASSUME NEW o \in Owners, owner[o].held, AuthorityActive(owner[o].authority)
        PROVE  AuthorityActive(owner[o].authority)'
    <3>1. PICK a \in Authorities : a = owner[o].authority
      BY <2>2 DEF TypeInv, Formed, FormedOwner
    <3>2. authority'[a].status = authority[a].status
      BY <1>0, <2>1, RootsClearedFields
    <3>3. authority'[owner[o].authority].status = "active"
      BY <2>2, <3>1, <3>2 DEF AuthorityActive
    <3>4. owner'[o].authority = owner[o].authority
      BY <1>0, <2>1, OwnersRetiring DEF Advances
    <3> QED
      BY <3>3, <3>4 DEF AuthorityActive
  <2> QED
    BY <2>1, <2>2, OwnersRevoked
<1>13. ASSUME NEW a \in Authorities, RetireAuthority(a) PROVE OwnerInv'
  <2> DEFINE S == {c \in Contexts : Active(c) /\ context[c].authority = a}
             O == RunOwners(S) \cup HeldOwners(a)
  <2>1. /\ context' = ContextsRevoked(S) /\ owner' = OwnersRetired(O)
        /\ authority' = [authority EXCEPT ![a] = [status |-> "retired", activeRoot |-> None]]
        /\ S \in SUBSET Contexts
    BY <1>13 DEF RetireAuthority
  <2>2. ASSUME NEW o \in Owners, owner[o].held, o \notin O, AuthorityActive(owner[o].authority)
        PROVE  AuthorityActive(owner[o].authority)'
    <3>1. PICK b \in Authorities : b = owner[o].authority
      BY <2>2 DEF TypeInv, Formed, FormedOwner
    <3>2. b # a
      BY <2>2, <3>1 DEF HeldOwners
    <3>3. authority'[owner[o].authority].status = "active"
      BY <1>0, <2>1, <2>2, <3>1, <3>2 DEF AuthorityActive, TypeOK
    <3>4. owner'[o].authority = owner[o].authority
      BY <1>0, <2>1, OwnersRetiring DEF Advances
    <3> QED
      BY <3>3, <3>4 DEF AuthorityActive
  <2>3. RunOwners(S) \subseteq O
    OBVIOUS
  <2> HIDE DEF S, O
  <2> QED
    BY <2>1, <2>2, <2>3, OwnersRevoked
<1>14. ASSUME NEW c \in Contexts, NEW o \in Owners, GetResourceOwner(c, o) PROVE OwnerInv'
  BY <1>14, OwnerIssued
<1> QED
  BY <1>1, <1>2, <1>3, <1>4, <1>5, <1>6, <1>7, <1>8, <1>9, <1>10, <1>11, <1>12, <1>13,
     <1>14
  DEF Next, CallerNext, DrainNext

LEMMA OwnerInvariance == Spec => []OwnerInv
<1>1. Init => OwnerInv
  BY DEF Init, OwnerInv, StillHeld, Unreleased, OneUnreleasedOwnerPerKey, OwnedBy, UnusedOwner
<1> QED
  BY <1>1, OwnerInvNext, TypeInvariance, TreeInvariance, ScopeInvariance,
     RunIsActiveRootHolds, PTL DEF Spec

\* However runs and authorities end, none leaves a live owner that nobody retires
\* (getResourceOwner, revokeContext, beginAuthorityRetirement).
THEOREM NoOrphanOwnerHolds == Spec => []NoOrphanOwner
<1>1. OwnerInv => NoOrphanOwner
  BY DEF OwnerInv, OwnedBy, NoOrphanOwner
<1> QED
  BY <1>1, OwnerInvariance, PTL

\* Two owners of one key are never both unreleased, whatever drains hang, fail or overrun.
THEOREM OneUnreleasedOwnerPerKeyHolds == Spec => []OneUnreleasedOwnerPerKey
<1>1. OwnerInv => OneUnreleasedOwnerPerKey
  BY DEF OwnerInv
<1> QED
  BY <1>1, OwnerInvariance, PTL

-----------------------------------------------------------------------------
(* Approval.                                                                *)

Approved(h) == challenge[h].status = "approved"

NeedsApproval(k) == call[k].by # None /\ call[k].tool \in ApprovalTools

\* A grant stands for one approved challenge of its parent, and no challenge
\* has two grants.
Grants ==
  \A c \in Contexts : context[c].grant # None =>
    /\ Approved(context[c].grant)
    /\ challenge[context[c].grant].parent = context[c].parent
    /\ \A d \in Contexts : d # c => context[d].grant # context[c].grant

\* A call that needed approval has spent the grant it ran on, which no other
\* such call ran on: this is what single use rests on.
SpentGrants ==
  \A k \in Calls : NeedsApproval(k) =>
    LET c == call[k].by
        h == context[c].grant
    IN /\ h # None /\ context[c].spent
       /\ challenge[h].tool = call[k].tool
       /\ challenge[h].args = call[k].args
       /\ call[k].source \in {c, context[c].parent}
       /\ \A l \in Calls : l # k /\ NeedsApproval(l) => call[l].by # c

ApprovalInv == Grants /\ SpentGrants

\* The invariant survives a step that gives no grant and runs no call.
LEMMA ApprovalKept ==
  ASSUME TypeInv, ApprovalInv,
         \A c \in Contexts :
           /\ context'[c].grant \in {None, context[c].grant}
           /\ context[c].grant # None =>
                /\ context'[c].grant = context[c].grant
                /\ context'[c].parent = context[c].parent
                /\ context[c].spent => context'[c].spent,
         \A h \in Challenges : Approved(h) => challenge'[h] = challenge[h],
         \A k \in Calls : call'[k].by # None => call'[k] = call[k]
  PROVE  ApprovalInv'
<1>1. \A c \in Contexts : context[c].grant \in Challenges \cup {None}
  BY DEF TypeInv, TypeOK, ContextRecord
<1>2. \A k \in Calls : call[k].by \in Contexts \cup {None}
  BY DEF TypeInv, TypeOK, CallRecord
<1>3. Grants'
  BY <1>1 DEF ApprovalInv, Grants, Approved
<1>4. \A k \in Calls : NeedsApproval(k)' => NeedsApproval(k) /\ call'[k] = call[k]
  BY DEF NeedsApproval
<1>5. SpentGrants'
  <2> SUFFICES ASSUME NEW k \in Calls, NeedsApproval(k)'
               PROVE  /\ context'[call'[k].by].grant # None
                      /\ context'[call'[k].by].spent
                      /\ challenge'[context'[call'[k].by].grant].tool = call'[k].tool
                      /\ challenge'[context'[call'[k].by].grant].args = call'[k].args
                      /\ call'[k].source \in {call'[k].by, context'[call'[k].by].parent}
                      /\ \A l \in Calls : l # k /\ NeedsApproval(l)' =>
                           call'[l].by # call'[k].by
    BY DEF SpentGrants
  <2>1. NeedsApproval(k) /\ call'[k] = call[k]
    BY <1>4
  <2>2. PICK c \in Contexts : c = call[k].by
    BY <1>2, <2>1 DEF NeedsApproval
  <2>3. /\ context[c].grant # None /\ context[c].spent
        /\ challenge[context[c].grant].tool = call[k].tool
        /\ challenge[context[c].grant].args = call[k].args
        /\ call[k].source \in {c, context[c].parent}
        /\ \A l \in Calls : l # k /\ NeedsApproval(l) => call[l].by # c
    BY <2>1, <2>2 DEF ApprovalInv, SpentGrants
  <2>4. challenge'[context[c].grant] = challenge[context[c].grant]
    BY <1>1, <2>3 DEF ApprovalInv, Grants
  <2> QED
    BY <1>4, <2>1, <2>2, <2>3, <2>4
<1> QED
  BY <1>3, <1>5 DEF ApprovalInv

\* Approving an open challenge makes the only grant there is for it.
LEMMA ApprovePreserves ==
  ASSUME TypeInv, ApprovalInv, NEW h \in Challenges, NEW d \in Contexts,
         ApproveChallenge(h, d)
  PROVE  ApprovalInv'
<1>1. /\ challenge[h].status = "open" /\ context[d].status = "unused"
      /\ UNCHANGED call
      /\ challenge' = [challenge EXCEPT ![h].status = "approved"]
  BY DEF ApproveChallenge, Answerable
<1>2. PICK r : /\ context' = [context EXCEPT ![d] = r]
               /\ r = ChildContext(challenge[h].parent,
                        context[challenge[h].parent].principal,
                        {challenge[h].tool},
                        context[challenge[h].parent].roots, h)
  BY DEF ApproveChallenge
<1>3. r.grant = h /\ r.parent = challenge[h].parent
  BY <1>2 DEF ChildContext
<1>4. /\ context'[d] = r
      /\ \A c \in Contexts : c # d => context'[c] = context[c]
  BY <1>2 DEF TypeInv, TypeOK
<1>5. /\ challenge'[h].status = "approved"
      /\ challenge'[h].parent = challenge[h].parent
      /\ challenge'[h].tool = challenge[h].tool
      /\ challenge'[h].args = challenge[h].args
      /\ \A e \in Challenges : e # h => challenge'[e] = challenge[e]
  BY <1>1 DEF TypeInv, TypeOK, ChallengeRecord
<1>6. context[d].grant = None
  BY <1>1 DEF TypeInv, Formed, FormedContext, UnusedContext
<1>7. \A c \in Contexts : context[c].grant # None =>
        /\ context[c].grant \in Challenges /\ context[c].grant # h
  BY <1>1 DEF ApprovalInv, Grants, Approved, TypeInv, TypeOK, ContextRecord
<1>8. h # None
  BY NoneAssumption
<1>9. Grants'
  BY <1>3, <1>4, <1>5, <1>6, <1>7, <1>8 DEF ApprovalInv, Grants, Approved
<1>10. SpentGrants'
  <2>1. \A k \in Calls : NeedsApproval(k)' <=> NeedsApproval(k)
    BY <1>1 DEF NeedsApproval
  <2>2. \A k \in Calls : NeedsApproval(k) =>
          /\ call[k].by \in Contexts /\ call[k].by # d
          /\ context[call[k].by].grant # None
    BY <1>6 DEF ApprovalInv, SpentGrants, NeedsApproval, TypeInv, TypeOK, CallRecord
  <2>3. \A k \in Calls : NeedsApproval(k) =>
          /\ context'[call[k].by] = context[call[k].by]
          /\ challenge'[context[call[k].by].grant] = challenge[context[call[k].by].grant]
    BY <1>4, <1>5, <1>7, <2>2
  <2> QED
    BY <1>1, <2>1, <2>2, <2>3 DEF ApprovalInv, SpentGrants
<1> QED
  BY <1>9, <1>10 DEF ApprovalInv

\* An invocation that needs approval finds its grant unspent and spends it.
LEMMA InvokePreserves ==
  ASSUME TypeInv, ApprovalInv, NEW c \in Contexts, NEW k \in Calls,
         InvokeTool(c, k)
  PROVE  ApprovalInv'
<1>1. /\ UNCHANGED challenge /\ call[k].by = None
      /\ call' = [call EXCEPT ![k].by = c]
      /\ SourceMatches(c, k)
  BY DEF InvokeTool
<1>2. /\ call'[k].by = c /\ call'[k].tool = call[k].tool
      /\ call'[k].args = call[k].args /\ call'[k].source = call[k].source
      /\ \A l \in Calls : l # k => call'[l] = call[l]
  BY <1>1 DEF TypeInv, TypeOK, CallRecord
<1>3. \A d \in Contexts : Kept(d) /\ (context[d].spent => context'[d].spent)
  <2>1. CASE UNCHANGED context
    BY <2>1 DEF Kept
  <2>2. CASE context' = [context EXCEPT ![c].spent = TRUE]
    <3>1. \A d \in Contexts : context[d].spent => context'[d].spent
      BY <2>2 DEF TypeInv, TypeOK, ContextRecord
    <3> QED
      BY <2>2, <3>1, SpendingKeeps DEF TypeInv
  <2> QED
    BY <2>1, <2>2 DEF InvokeTool
<1>4. Grants'
  BY <1>1, <1>3 DEF ApprovalInv, Grants, Approved, Kept
<1>5. \A l \in Calls : l # k => (NeedsApproval(l)' <=> NeedsApproval(l))
  BY <1>2 DEF NeedsApproval
<1>6. ASSUME NEW l \in Calls, l # k, NeedsApproval(l)
      PROVE  /\ call[l].by \in Contexts
             /\ call[k].tool \in ApprovalTools => call[l].by # c
  <2>1. call[l].by \in Contexts /\ context[call[l].by].spent
    BY <1>6 DEF ApprovalInv, SpentGrants, NeedsApproval, TypeInv, TypeOK, CallRecord
  <2> QED
    BY <2>1 DEF InvokeTool, GrantCovers
<1>7. call[k].tool \in ApprovalTools =>
        /\ context'[c].grant # None /\ context'[c].spent
        /\ challenge[context[c].grant].tool = call[k].tool
        /\ challenge[context[c].grant].args = call[k].args
        /\ call[k].source \in {c, context[c].parent}
  <2> SUFFICES ASSUME call[k].tool \in ApprovalTools
               PROVE  /\ context'[c].grant # None /\ context'[c].spent
                      /\ challenge[context[c].grant].tool = call[k].tool
                      /\ challenge[context[c].grant].args = call[k].args
                      /\ call[k].source \in {c, context[c].parent}
    OBVIOUS
  <2>1. GrantCovers(c, k) /\ context' = [context EXCEPT ![c].spent = TRUE]
    BY DEF InvokeTool
  <2>2. context'[c].spent
    BY <2>1 DEF TypeInv, TypeOK, ContextRecord
  <2> QED
    BY <1>1, <1>3, <2>1, <2>2 DEF GrantCovers, SourceMatches, Kept
<1>8. SpentGrants'
  BY <1>1, <1>2, <1>3, <1>5, <1>6, <1>7
  DEF ApprovalInv, SpentGrants, NeedsApproval, Kept
<1> QED
  BY <1>4, <1>8 DEF ApprovalInv

\* Every step of the broker preserves the approval invariant.
LEMMA ApprovalInvNext == TypeInv /\ ApprovalInv /\ [Next]_vars => ApprovalInv'
<1> SUFFICES ASSUME TypeInv, ApprovalInv, [Next]_vars PROVE ApprovalInv'
  OBVIOUS
<1>0. TypeOK
  BY DEF TypeInv
<1>1. ASSUME UNCHANGED <<context, call>>,
             \A h \in Challenges : Approved(h) => challenge'[h] = challenge[h]
      PROVE  ApprovalInv'
  BY <1>1, ApprovalKept
<1>2. ASSUME NEW c \in Contexts, NEW t \in Tools, NEW x \in Arguments,
             NEW k \in Calls, InspectToolCall(c, t, x, k)
      PROVE  ApprovalInv'
  <2>1. \A l \in Calls : call'[l].by # None => call'[l] = call[l]
    BY <1>0, <1>2 DEF InspectToolCall, TypeOK
  <2> QED
    BY <1>2, <2>1, ApprovalKept DEF InspectToolCall, runVars
<1>3. ASSUME NEW c \in Contexts, NEW k \in Calls, NEW h \in Challenges,
             CreateApprovalChallenge(c, k, h)
      PROVE  ApprovalInv'
  BY <1>0, <1>1, <1>3 DEF CreateApprovalChallenge, Approved, TypeOK
<1>4. ASSUME NEW h \in Challenges, DenyChallenge(h) PROVE ApprovalInv'
  BY <1>0, <1>1, <1>4 DEF DenyChallenge, Answerable, Approved, TypeOK
<1>5. CASE \/ \E a \in Authorities : CreateRuntimeAuthority(a)
           \/ \E c \in Contexts, o \in Owners : GetResourceOwner(c, o)
           \/ \E a \in Authorities, s \in Sessions : RetireSessionResources(a, s)
           \/ EnvironmentNext \/ DrainNext \/ UNCHANGED vars
  <2>1. UNCHANGED <<context, call, challenge>>
    BY <1>5 DEF CreateRuntimeAuthority, GetResourceOwner, RetireSessionResources,
       EnvironmentNext, DrainNext, SetSessionPersona, Expire, OwnerDrained,
       OwnerDeadline, WaitResolves, WaitRejects, runVars, vars
  <2> QED
    BY <1>1, <2>1
<1>6. ASSUME NEW d \in Contexts, NEW r, context[d].status = "unused",
             context' = [context EXCEPT ![d] = r], r.grant = None,
             UNCHANGED <<call, challenge>>
      PROVE  ApprovalInv'
  <2>1. context[d].grant = None
    BY <1>6 DEF TypeInv, Formed, FormedContext, UnusedContext
  <2> QED
    BY <1>0, <1>6, <2>1, ApprovalKept DEF TypeOK
<1>7. ASSUME NEW a \in Authorities, NEW s \in Sessions, NEW c \in Contexts,
             BeginAgentRun(a, s, c) \/ IssueLocalApiContext(a, s, c)
      PROVE  ApprovalInv'
  <2>1. PICK r : /\ r.grant = None
                 /\ context' = [context EXCEPT ![c] = r]
                 /\ context[c].status = "unused"
                 /\ UNCHANGED <<call, challenge>>
    BY <1>7 DEF BeginAgentRun, IssueLocalApiContext
  <2> QED
    BY <1>6, <2>1
<1>8. ASSUME NEW p \in Contexts, NEW principal \in {"subagent", "playbook"},
             NEW T \in SUBSET Tools, NEW R \in SUBSET Roots, NEW d \in Contexts,
             DeriveChild(p, principal, T, R, d)
      PROVE  ApprovalInv'
  <2>1. PICK r : /\ r = ChildContext(p, principal, T, R, None)
                 /\ context' = [context EXCEPT ![d] = r]
                 /\ context[d].status = "unused"
                 /\ UNCHANGED <<call, challenge>>
    BY <1>8 DEF DeriveChild
  <2>2. r.grant = None
    BY <2>1 DEF ChildContext
  <2> QED
    BY <1>6, <2>1, <2>2
<1>9. ASSUME NEW c \in Contexts, NEW principal \in {"subagent", "playbook"},
             NEW T \in SUBSET Tools, NEW R \in SUBSET Roots, NEW d \in Contexts,
             DeriveInvocationChild(c, principal, T, R, d)
      PROVE  ApprovalInv'
  <2>1. context[c].parent \in Contexts
    BY <1>9 DEF TypeInv, Formed, FormedContext, DeriveInvocationChild, Usable,
       Current, Active
  <2> QED
    BY <1>8, <1>9, <2>1 DEF DeriveInvocationChild
<1>10. ASSUME NEW S, context' = ContextsRevoked(S),
              challenge' = ChallengesVoided(S), UNCHANGED call
       PROVE  ApprovalInv'
  <2>1. \A c \in Contexts :
          /\ context'[c].grant = context[c].grant
          /\ context'[c].parent = context[c].parent
          /\ context[c].spent => context'[c].spent
    BY <1>0, <1>10, RevokedFields
  <2>2. \A h \in Challenges : Approved(h) => challenge'[h] = challenge[h]
    BY <1>0, <1>10, VoidedFields DEF Approved
  <2> QED
    BY <1>10, <2>1, <2>2, ApprovalKept
<1>11. ASSUME NEW c \in Contexts, FinishContext(c) \/ SessionMismatch(c)
       PROVE  ApprovalInv'
  BY <1>10, <1>11 DEF FinishContext, SessionMismatch, Revoke
<1>12. ASSUME NEW a \in Authorities, RetireAuthority(a) PROVE ApprovalInv'
  BY <1>10, <1>12 DEF RetireAuthority
<1>13. ASSUME NEW c \in Contexts, context' = [context EXCEPT ![c].spent = TRUE]
       PROVE  \A d \in Contexts : context[d].spent => context'[d].spent
  BY <1>0, <1>13 DEF TypeOK, ContextRecord
<1>14. ASSUME NEW c \in Contexts, AuthorizeDirectOperation(c) PROVE ApprovalInv'
  <2>1. \A d \in Contexts : Kept(d) /\ (context[d].spent => context'[d].spent)
    BY <1>0, <1>13, <1>14, SpendingKeeps DEF AuthorizeDirectOperation
  <2> QED
    BY <1>14, <2>1, ApprovalKept DEF AuthorizeDirectOperation, Kept
<1>15. ASSUME NEW h \in Challenges, NEW d \in Contexts, ApproveChallenge(h, d)
       PROVE  ApprovalInv'
  BY <1>15, ApprovePreserves
<1>16. ASSUME NEW c \in Contexts, NEW k \in Calls, InvokeTool(c, k)
       PROVE  ApprovalInv'
  BY <1>16, InvokePreserves
<1> QED
  BY <1>2, <1>3, <1>4, <1>5, <1>7, <1>8, <1>9, <1>11, <1>12, <1>14, <1>15, <1>16
  DEF Next, CallerNext

LEMMA ApprovalInvariance == Spec => []ApprovalInv
<1>1. Init => ApprovalInv
  BY DEF Init, ApprovalInv, Grants, SpentGrants, NeedsApproval, UnusedContext,
     UnusedCall
<1> QED
  BY <1>1, ApprovalInvNext, TypeInvariance, PTL DEF Spec

\* Whatever the user had approved before, a tool that needs approval runs only
\* on a challenge approved for its context, tool and arguments.
THEOREM ApprovalCoversExecutionHolds == Spec => []ApprovalCoversExecution
<1>1. TypeInv /\ ApprovalInv => ApprovalCoversExecution
  <2> SUFFICES ASSUME TypeInv, ApprovalInv, NEW k \in Calls, NeedsApproval(k)
               PROVE  LET c == call[k].by
                          h == context[c].grant
                      IN /\ h # None
                         /\ challenge[h] = [status |-> "approved",
                              parent |-> context[c].parent,
                              tool |-> call[k].tool, args |-> call[k].args]
                         /\ call[k].source \in {c, context[c].parent}
    BY DEF ApprovalCoversExecution, NeedsApproval
  <2>1. PICK c \in Contexts : c = call[k].by
    BY DEF NeedsApproval, TypeInv, TypeOK, CallRecord
  <2>2. PICK h \in Challenges : h = context[c].grant /\ h # None
    BY <2>1 DEF ApprovalInv, SpentGrants, TypeInv, TypeOK, ContextRecord
  <2>3. /\ challenge[h].status = "approved"
        /\ challenge[h].parent = context[c].parent
        /\ challenge[h].tool = call[k].tool
        /\ challenge[h].args = call[k].args
        /\ call[k].source \in {c, context[c].parent}
    BY <2>1, <2>2 DEF ApprovalInv, Grants, SpentGrants, Approved
  <2>4. challenge[h] \in ChallengeRecord
    BY DEF TypeInv, TypeOK
  <2>5. challenge[h] = [status |-> "approved", parent |-> context[c].parent,
                        tool |-> call[k].tool, args |-> call[k].args]
    BY <2>3, <2>4 DEF ChallengeRecord
  <2> QED
    BY <2>1, <2>2, <2>3, <2>5
<1> QED
  BY <1>1, TypeInvariance, ApprovalInvariance, PTL

\* One approval runs at most one call.
THEOREM OneExecutionPerApprovalHolds == Spec => []OneExecutionPerApproval
<1>1. TypeInv /\ ApprovalInv => OneExecutionPerApproval
  <2> SUFFICES ASSUME TypeInv, ApprovalInv, NEW k \in Calls, NEW l \in Calls,
                      k # l, NeedsApproval(k), NeedsApproval(l)
               PROVE  context[call[k].by].grant # context[call[l].by].grant
    BY DEF OneExecutionPerApproval, NeedsApproval
  <2>1. /\ call[k].by \in Contexts /\ call[l].by \in Contexts
        /\ call[k].by # call[l].by
        /\ context[call[k].by].grant # None
    BY DEF ApprovalInv, SpentGrants, NeedsApproval, TypeInv, TypeOK, CallRecord
  <2> QED
    BY <2>1 DEF ApprovalInv, Grants
<1> QED
  BY <1>1, TypeInvariance, ApprovalInvariance, PTL


-----------------------------------------------------------------------------
(* Each owner follows the lifecycle that resource-owner.ts implements.      *)

\* An owner that is not issued yet is about to live.
PhaseOf(o) == IF owner[o].phase = "unused" THEN "live" ELSE owner[o].phase

Life(o) == INSTANCE OwnerLifecycle WITH phase <- PhaseOf(o)

\* The moves of the lifecycle, and being issued.
Moves ==
  {<<"unused", "live">>, <<"live", "draining">>, <<"draining", "released">>,
   <<"draining", "failed">>, <<"draining", "overdue">>, <<"overdue", "failed">>}

Moved(o) == owner'[o].phase = owner[o].phase \/ <<owner[o].phase, owner'[o].phase>> \in Moves

\* Retiring drains the live owners among those it reaches, and no other.
LEMMA RetiringMoves ==
  ASSUME TypeOK, NEW O, owner' = OwnersRetired(O), NEW o \in Owners
  PROVE  Moved(o)
<1>1. \A r \in OwnerRecord : [r EXCEPT !.phase = "draining"].phase = "draining"
  BY DEF OwnerRecord
<1> QED
  BY <1>1 DEF TypeOK, OwnersRetired, Moved, Moves

\* Letting an owner go does not move it.
LEMMA DroppingMoves ==
  ASSUME TypeOK, NEW O, owner' = Dropped(O), NEW o \in Owners
  PROVE  Moved(o)
<1>1. \A r \in OwnerRecord : [r EXCEPT !.held = FALSE].phase = r.phase
  BY DEF OwnerRecord
<1> QED
  BY <1>1 DEF TypeOK, Dropped, Moved

LEMMA OwnerMoves ==
  ASSUME TypeOK, [Next]_vars, NEW o \in Owners
  PROVE  Moved(o)
<1>1. CASE UNCHANGED owner
  BY <1>1 DEF Moved
<1>2. CASE \E O : owner' = OwnersRetired(O)
  BY <1>2, RetiringMoves
<1>3. CASE \E O : owner' = Dropped(O)
  BY <1>3, DroppingMoves
<1>4. ASSUME NEW c \in Contexts, NEW q \in Owners, GetResourceOwner(c, q) PROVE Moved(o)
  <2>1. PICK r : r.phase = "live" /\ owner' = [owner EXCEPT ![q] = r]
    BY <1>4 DEF GetResourceOwner
  <2>2. owner[q].phase = "unused"
    BY <1>4 DEF GetResourceOwner
  <2> QED
    BY <2>1, <2>2 DEF TypeOK, Moved, Moves
<1>5. ASSUME NEW q \in Owners, OwnerDrained(q) \/ OwnerDeadline(q) PROVE Moved(o)
  <2>1. \A r \in OwnerRecord, p \in {"released", "failed", "overdue"} :
          [r EXCEPT !.phase = p].phase = p
    BY DEF OwnerRecord
  <2>2. PICK p \in {"released", "failed", "overdue"} :
          /\ owner' = [owner EXCEPT ![q] = [owner[q] EXCEPT !.phase = p]]
          /\ <<owner[q].phase, p>> \in Moves
    BY <1>5 DEF OwnerDrained, OwnerDeadline, Moves
  <2>3. owner[q] \in OwnerRecord
    BY DEF TypeOK
  <2> QED
    BY <2>1, <2>2, <2>3 DEF TypeOK, Moved
<1>6. CASE \E w \in waits : WaitResolves(w) \/ WaitRejects(w)
  BY <1>1, <1>3, <1>6 DEF WaitResolves, WaitRejects
<1>7. CASE EnvironmentNext \/ UNCHANGED vars
  BY <1>1, <1>7 DEF EnvironmentNext, SetSessionPersona, Expire, ownerVars, runVars, vars
<1>8. ASSUME NEW a \in Authorities,
             \/ CreateRuntimeAuthority(a) \/ RetireAuthority(a)
             \/ \E s \in Sessions : \/ RetireSessionResources(a, s)
                                    \/ \E c \in Contexts : BeginAgentRun(a, s, c)
                                                             \/ IssueLocalApiContext(a, s, c)
      PROVE  Moved(o)
  BY <1>1, <1>2, <1>8 DEF CreateRuntimeAuthority, RetireAuthority, RetireSessionResources,
     BeginAgentRun, IssueLocalApiContext, ownerVars
<1>9. ASSUME NEW c \in Contexts, FinishContext(c) \/ SessionMismatch(c) PROVE Moved(o)
  BY <1>2, <1>9 DEF FinishContext, SessionMismatch, Revoke
<1>10. CASE CallerNext
  BY <1>1, <1>4, <1>8, <1>9, <1>10 DEF CallerNext, DeriveChild, DeriveInvocationChild,
     InspectToolCall, CreateApprovalChallenge, ApproveChallenge, DenyChallenge,
     AuthorizeDirectOperation, InvokeTool, ownerVars
<1> QED
  BY <1>5, <1>6, <1>7, <1>10 DEF Next, DrainNext

\* Whatever runs, sessions and authorities do to an owner, it is retired once and its
\* retirement settles once (capability-broker.ts:583-650, resource-owner.ts).
THEOREM OwnersFollowLifecycle ==
  ASSUME NEW o \in Owners
  PROVE  Spec => Life(o)!Spec
<1>1. Init => Life(o)!Init
  BY DEF Init, UnusedOwner, Life!Init, PhaseOf
<1>2. TypeOK /\ [Next]_vars => [Life(o)!Next]_(PhaseOf(o))
  <2>1. TypeOK /\ [Next]_vars => Moved(o)
    BY OwnerMoves
  <2>2. Moved(o) => [Life(o)!Next]_(PhaseOf(o))
    BY DEF Moved, Moves, PhaseOf, Life!Next, Life!Retire, Life!Release, Life!Fail,
       Life!Overrun, Life!LateEnd
  <2> QED
    BY <2>1, <2>2
<1> QED
  BY <1>1, <1>2, TypeCorrect, PTL DEF Spec, Life!Spec

=============================================================================
