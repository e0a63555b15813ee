------------------------------ MODULE PathProofs ------------------------------
(* For any number of operations, objects, watchers and changes by others:  *)
(* a program runs in the directory that was validated, nothing begins      *)
(* behind a revoked authority, a watcher ends with its owner, and a        *)
(* rollback removes only what its operation made.                          *)
EXTENDS PathReads, PathWrites, Watches, SequenceTheorems, TLAPS

-----------------------------------------------------------------------------
(* Reading.                                                                *)

\* From the opening of the handles that stay to the end of the program, they are open and
\* the path leads where it led when it was validated.
HeldInPlace ==
  \A r \in Readers :
    reading[r].step \in {"held", "running"}
      => rootHere /\ object = reading[r].seen /\ reading[r].handle # 0

\* An active authority has an active parent: the tree is revoked from above.
Rooted ==
  \A a \in Auths : auth[a].active /\ ParentOf[a] \in Auths => auth[ParentOf[a]].active

ReadInv == ReadTypeOK /\ HeldInPlace /\ Rooted

\* The tree of authorities, spelt out.
LEMMA Tree ==
  /\ Auths = {"runtime", "context", "viewer", "call"}
  /\ ParentOf["runtime"] = "none" /\ ParentOf["context"] = "runtime"
  /\ ParentOf["viewer"] = "runtime" /\ ParentOf["call"] = "context"
  BY DEF Auths, ParentOf

\* Revoking an authority keeps the types and leaves no active one below it.
LEMMA WithoutKeeps ==
  ASSUME ReadTypeOK, Rooted, NEW a \in Auths
  PROVE  /\ Without(a) \in [Auths -> [active : BOOLEAN, made : BOOLEAN,
                                      gate : {"none", "issued", "started", "closed"}]]
         /\ \A b \in Auths : Without(a)[b].active /\ ParentOf[b] \in Auths
                               => Without(a)[ParentOf[b]].active
<1>1. ASSUME NEW b \in Auths
      PROVE  [auth[b] EXCEPT !.active = FALSE]
               \in [active : BOOLEAN, made : BOOLEAN,
                    gate : {"none", "issued", "started", "closed"}]
  BY ZenonT(60) DEF ReadTypeOK
<1>2. Without(a) \in [Auths -> [active : BOOLEAN, made : BOOLEAN,
                                gate : {"none", "issued", "started", "closed"}]]
  BY <1>1 DEF Without, ReadTypeOK
<1>3. CASE ~auth[a].active
  BY <1>2, <1>3 DEF Without, Rooted
<1>4. CASE auth[a].active
  <2>1. ASSUME NEW b \in Auths
        PROVE  Without(a)[b].active <=> auth[b].active /\ b \notin Descendants(a)
    BY <1>4, <2>1 DEF Without, ReadTypeOK
  <2>2. ASSUME NEW b \in Auths, auth[b].active, ParentOf[b] \in Auths,
               ParentOf[b] \in Descendants(a)
        PROVE  b \in Descendants(a)
    BY <2>2, Tree DEF Descendants, ChildrenOf
  <2> QED
    BY <1>2, <2>1, <2>2 DEF Rooted
<1> QED
  BY <1>3, <1>4

\* An operation that is asserted runs under authorities that are all active.
LEMMA AncestryActive ==
  ASSUME ReadTypeOK, Rooted, NEW a \in Auths, auth[a].active
  PROVE  \A b \in Ancestry(a) : auth[b].active
  BY Tree DEF Rooted, Ancestry

\* Whatever happens to authorities and disk, operations and their types stay.
LEMMA AuthoritiesKeep ==
  ASSUME ReadInv,
         CreateAuthority \/ ObjectChanges \/ RootChanges
           \/ \E a \in Auths : \/ DeriveAuthority(a) \/ InvocationStarts(a)
                               \/ InvocationCloses(a) \/ RevokeAuthority(a)
  PROVE  ReadInv' /\ reading' = reading
<1> DEFINE Record == [active : BOOLEAN, made : BOOLEAN,
                      gate : {"none", "issued", "started", "closed"}]
<1>1. CASE CreateAuthority
  <2>1. auth' \in [Auths -> Record]
    <3> DEFINE made == [auth EXCEPT !["runtime"].made = TRUE]
    <3>1. made \in [Auths -> Record]
      BY DEF ReadInv, ReadTypeOK
    <3>2. auth' = [made EXCEPT !["runtime"].active = TRUE]
      BY <1>1 DEF CreateAuthority
    <3> QED
      BY <3>1, <3>2, ZenonT(60)
  <2>2. \A b \in Auths \ {"runtime"} : auth'[b] = auth[b]
    BY <1>1, Tree DEF CreateAuthority, ReadInv, ReadTypeOK
  <2>3. auth'["runtime"].active = TRUE
    BY <1>1, Tree DEF CreateAuthority, ReadInv, ReadTypeOK
  <2> QED
    BY <1>1, <2>1, <2>2, <2>3, Tree DEF CreateAuthority, ReadInv, ReadTypeOK, HeldInPlace, Rooted
<1>2. CASE ObjectChanges \/ RootChanges
  <2>1. UNCHANGED <<auth, reading>> /\ object' \in Versions /\ rootHere' \in BOOLEAN
    BY <1>2 DEF ObjectChanges, RootChanges, ReadInv, ReadTypeOK
  <2>2. \A r \in Readers : reading[r].step \notin {"held", "running"}
    BY <1>2 DEF ObjectChanges, RootChanges, NamesHeld, ReadInv, HeldInPlace
  <2> QED
    BY <2>1, <2>2 DEF ReadInv, ReadTypeOK, HeldInPlace, Rooted
<1>3. ASSUME NEW a \in Auths, DeriveAuthority(a)
      PROVE  ReadInv' /\ reading' = reading
  <2>1. auth' \in [Auths -> Record]
    BY <1>3 DEF DeriveAuthority, ReadInv, ReadTypeOK
  <2>2. \A b \in Auths : auth'[b].active <=> (b = a \/ auth[b].active)
    BY <1>3 DEF DeriveAuthority, ReadInv, ReadTypeOK
  <2> QED
    BY <1>3, <2>1, <2>2 DEF DeriveAuthority, ReadInv, ReadTypeOK, HeldInPlace, Rooted
<1>4. ASSUME NEW a \in Auths, InvocationStarts(a)
      PROVE  ReadInv' /\ reading' = reading
  <2>1. auth' \in [Auths -> Record]
    BY <1>4 DEF InvocationStarts, ReadInv, ReadTypeOK
  <2>2. \A b \in Auths : auth'[b].active = auth[b].active
    BY <1>4 DEF InvocationStarts, ReadInv, ReadTypeOK
  <2> QED
    BY <1>4, <2>1, <2>2 DEF InvocationStarts, ReadInv, ReadTypeOK, HeldInPlace, Rooted
<1>5. ASSUME NEW a \in Auths, InvocationCloses(a)
      PROVE  ReadInv' /\ reading' = reading
  <2>1. auth' \in [Auths -> Record]
    BY <1>5, WithoutKeeps, SMTT(30) DEF InvocationCloses, ReadInv
  <2>2. \A b \in Auths : auth'[b].active = Without(a)[b].active
    BY <1>5, WithoutKeeps DEF InvocationCloses, ReadInv
  <2>3. \A b \in Auths : Without(a)[b].active /\ ParentOf[b] \in Auths
                           => Without(a)[ParentOf[b]].active
    BY WithoutKeeps DEF ReadInv
  <2> QED
    BY <1>5, <2>1, <2>2, <2>3 DEF InvocationCloses, ReadInv, ReadTypeOK, HeldInPlace, Rooted
<1>6. ASSUME NEW a \in Auths, RevokeAuthority(a)
      PROVE  ReadInv' /\ reading' = reading
  BY <1>6, WithoutKeeps DEF RevokeAuthority, ReadInv, ReadTypeOK, HeldInPlace, Rooted
<1> QED
  BY <1>1, <1>2, <1>3, <1>4, <1>5, <1>6 DEF CreateAuthority, ObjectChanges, RootChanges

\* A step of one operation leaves the others, and the types, as they are.
LEMMA OperationKeeps ==
  ASSUME ReadInv, NEW r \in Readers,
         \/ \E a \in Auths : Issue(r, a)
         \/ Locates(r) \/ Validates(r) \/ Authorizes(r) \/ Opens(r) \/ Opened(r)
         \/ Identifies(r) \/ Reads(r) \/ Denies(r) \/ RangeBegins(r) \/ RangeRead(r)
         \/ LeaseNotices(r) \/ LeaseCloses(r) \/ Rechecks(r) \/ Uses(r) \/ CallbackEnds(r)
         \/ Consumes(r) \/ Probes(r) \/ Holds(r) \/ Resumes(r) \/ ProgramEnds(r) \/ UseFails(r)
  PROVE  /\ ReadInv'
         /\ \A s \in Readers : s # r => reading'[s] = reading[s]
<1> DEFINE Record == [kind : ByPath \cup ByHandle, auth : Auths, step : ReadSteps,
                      seen : Versions, handle : Versions]
<1> USE DEF ReadInv, ReadTypeOK
<1>1. reading[r] \in Record /\ reading \in [Readers -> Record]
  OBVIOUS
\* What is left to show of a step: the record it writes.
<1>2. ASSUME reading' \in [Readers -> Record], \A s \in Readers : s # r => reading'[s] = reading[s],
             auth' = auth \/ auth' = Without(Topmost), UNCHANGED object, UNCHANGED rootHere,
             reading'[r].step \in {"held", "running"}
               => rootHere /\ object = reading'[r].seen /\ reading'[r].handle # 0
      PROVE  ReadInv' /\ \A s \in Readers : s # r => reading'[s] = reading[s]
  <2>1. Rooted' /\ auth' \in [Auths -> [active : BOOLEAN, made : BOOLEAN,
                                       gate : {"none", "issued", "started", "closed"}]]
    BY <1>2, WithoutKeeps, Tree DEF Rooted, Topmost
  <2> QED
    BY <1>2, <2>1 DEF HeldInPlace
<1>3. 0 \in Versions
  BY ReadAssumption DEF Versions
<1> USE DEF ReadSteps, HeldInPlace, ReadAt, ReadGoes
<1>4. ASSUME NEW a \in Auths, Issue(r, a)
      PROVE  ReadInv' /\ \A s \in Readers : s # r => reading'[s] = reading[s]
  <2> PICK kind \in ByPath \cup ByHandle :
        reading' = [reading EXCEPT ![r].kind = kind, ![r].auth = a, ![r].step = "issued"]
    BY <1>4 DEF Issue
  <2>1. reading' \in [Readers -> Record]
    <3>1. [reading[r] EXCEPT !.kind = kind, !.auth = a, !.step = "issued"] \in Record
      BY <1>1
    <3>2. reading' = [s \in Readers |->
            IF s = r THEN [reading[r] EXCEPT !.kind = kind, !.auth = a, !.step = "issued"]
                     ELSE reading[s]]
      BY <1>1
    <3> HIDE DEF Record
    <3> QED
      BY <1>1, <3>1, <3>2
  <2>2. reading'[r].step = "issued"
    BY <1>1
  <2>3. \A s \in Readers : s # r => reading'[s] = reading[s]
    BY <1>1, <1>4 DEF Issue
  <2> QED
    BY <1>2, <1>4, <2>1, <2>2, <2>3 DEF Issue
<1>5. ASSUME Validates(r)
      PROVE  ReadInv' /\ \A s \in Readers : s # r => reading'[s] = reading[s]
  BY <1>1, <1>2, <1>5 DEF Validates
<1>6. ASSUME Locates(r) \/ Authorizes(r) \/ Opens(r)
      PROVE  ReadInv' /\ \A s \in Readers : s # r => reading'[s] = reading[s]
  BY <1>1, <1>2, <1>6 DEF Locates, Authorizes, Opens
<1>7. ASSUME Opened(r)
      PROVE  ReadInv' /\ \A s \in Readers : s # r => reading'[s] = reading[s]
  BY <1>1, <1>2, <1>7 DEF Opened
<1>8. ASSUME Identifies(r)
      PROVE  ReadInv' /\ \A s \in Readers : s # r => reading'[s] = reading[s]
  BY <1>1, <1>2, <1>8 DEF Identifies
<1>9. ASSUME Reads(r) \/ Denies(r) \/ LeaseCloses(r) \/ ProgramEnds(r) \/ UseFails(r)
      PROVE  ReadInv' /\ \A s \in Readers : s # r => reading'[s] = reading[s]
  <2>1. ASSUME NEW step \in {"served", "denied", "closed"},
               reading' = [reading EXCEPT ![r].step = step, ![r].handle = 0]
        PROVE  /\ reading' \in [Readers -> Record]
               /\ \A s \in Readers : s # r => reading'[s] = reading[s]
               /\ reading'[r].step = step
    BY <1>1, <1>3, <2>1
  <2> QED
    BY <1>2, <1>9, <2>1 DEF Reads, Denies, LeaseCloses, ProgramEnds, UseFails
<1>10. ASSUME RangeBegins(r) \/ RangeRead(r) \/ LeaseNotices(r)
       PROVE  ReadInv' /\ \A s \in Readers : s # r => reading'[s] = reading[s]
  BY <1>1, <1>2, <1>10 DEF RangeBegins, RangeRead, LeaseNotices
<1>11. ASSUME Rechecks(r) \/ Uses(r) \/ CallbackEnds(r) \/ Consumes(r) \/ Probes(r)
       PROVE  ReadInv' /\ \A s \in Readers : s # r => reading'[s] = reading[s]
  BY <1>1, <1>2, <1>11 DEF Rechecks, Uses, CallbackEnds, Consumes, Probes
<1>12. ASSUME Holds(r)
       PROVE  ReadInv' /\ \A s \in Readers : s # r => reading'[s] = reading[s]
  BY <1>1, <1>2, <1>12 DEF Holds
<1>13. ASSUME Resumes(r)
       PROVE  ReadInv' /\ \A s \in Readers : s # r => reading'[s] = reading[s]
  BY <1>1, <1>2, <1>13 DEF Resumes
<1> QED
  BY <1>4, <1>5, <1>6, <1>7, <1>8, <1>9, <1>10, <1>11, <1>12, <1>13

\* The invariant holds initially and is kept by every step.
LEMMA ReadInvariance == ReadSpec => []ReadInv
<1>1. ReadInit => ReadInv
  <2> SUFFICES ASSUME ReadInit PROVE ReadInv
    OBVIOUS
  <2>1. 0 \in Versions /\ 1 \in Versions
    BY ReadAssumption DEF Versions
  <2>2. ReadTypeOK
    BY <2>1, Tree DEF ReadInit, ReadTypeOK, ByPath, ByHandle, ReadSteps
  <2> QED
    BY <2>2 DEF ReadInit, ReadInv, HeldInPlace, Rooted
<1>2. ReadInv /\ [ReadNext]_readVars => ReadInv'
  <2> SUFFICES ASSUME ReadInv, [ReadNext]_readVars PROVE ReadInv'
    OBVIOUS
  <2>1. CASE UNCHANGED readVars
    BY <2>1 DEF readVars, ReadInv, ReadTypeOK, HeldInPlace, Rooted
  <2> QED
    BY <2>1, AuthoritiesKeep, OperationKeeps DEF ReadNext
<1> QED
  BY <1>1, <1>2, PTL DEF ReadSpec

\* Authorities, the disk and operations are what they are said to be (src/path-policy.ts).
THEOREM ReadTypeCorrect == ReadSpec => []ReadTypeOK
<1>1. ReadInv => ReadTypeOK
  BY DEF ReadInv
<1> QED
  BY <1>1, ReadInvariance, PTL

\* A program runs in the directory that was validated, for as long as it runs and whatever
\* happened on the way to its launch (sandbox-launcher.cpp:2006-2016).
THEOREM RunsWhereValidatedHolds == ReadSpec => []RunsWhereValidated
<1>1. ReadInv => RunsWhereValidated
  BY DEF ReadInv, HeldInPlace, RunsWhereValidated, ReadAt
<1> QED
  BY <1>1, ReadInvariance, PTL

\* A step that begins something has looked at its authority and the one above it.
LEMMA BeginsAsserted ==
  ASSUME ReadInv, NEW r \in Readers,
         \/ \E a \in Auths : Issue(r, a)
         \/ Locates(r) \/ Validates(r) \/ Authorizes(r) \/ Opens(r) \/ Opened(r)
         \/ Identifies(r) \/ Reads(r) \/ Denies(r) \/ RangeBegins(r) \/ RangeRead(r)
         \/ LeaseNotices(r) \/ LeaseCloses(r) \/ Rechecks(r) \/ Uses(r) \/ CallbackEnds(r)
         \/ Consumes(r) \/ Probes(r) \/ Holds(r) \/ Resumes(r) \/ ProgramEnds(r) \/ UseFails(r),
         Begins(reading'[r].kind, reading[r].step, reading'[r].step)
  PROVE  reading'[r].auth \in Auths /\ auth[reading'[r].auth].active
<1> USE DEF ReadInv, ReadTypeOK, ReadAt, ReadGoes, Begins, Asserted
<1>1. ASSUME NEW a \in Auths, Issue(r, a)
      PROVE  reading'[r].auth \in Auths /\ auth[reading'[r].auth].active
  <2> PICK kind \in ByPath \cup ByHandle :
        reading' = [reading EXCEPT ![r].kind = kind, ![r].auth = a, ![r].step = "issued"]
    BY <1>1 DEF Issue
  <2>1. reading'[r].auth = a
    OBVIOUS
  <2> QED
    BY <1>1, <2>1 DEF Issue
<1>2. CASE Opens(r)
  BY <1>2 DEF Opens
<1>3. CASE Identifies(r)
  BY <1>3 DEF Identifies
<1>4. CASE RangeBegins(r)
  BY <1>4 DEF RangeBegins
<1>5. CASE Consumes(r)
  BY <1>5 DEF Consumes
<1>6. CASE Locates(r) \/ Authorizes(r)
  BY <1>6 DEF Locates, Authorizes
<1>7. CASE Validates(r) \/ Opened(r)
  BY <1>7 DEF Validates, Opened
<1>8. CASE Reads(r) \/ Denies(r) \/ LeaseCloses(r)
  BY <1>8 DEF Reads, Denies, LeaseCloses
<1>9. CASE RangeRead(r) \/ LeaseNotices(r)
  BY <1>9 DEF RangeRead, LeaseNotices
<1>10. CASE Rechecks(r) \/ Uses(r) \/ CallbackEnds(r) \/ UseFails(r)
  BY <1>10 DEF Rechecks, Uses, CallbackEnds, UseFails
<1>11. CASE Probes(r) \/ Holds(r) \/ Resumes(r) \/ ProgramEnds(r)
  BY <1>11 DEF Probes, Holds, Resumes, ProgramEnds
<1> QED
  BY <1>1, <1>2, <1>3, <1>4, <1>5, <1>6, <1>7, <1>8, <1>9, <1>10, <1>11

\* Nothing is begun behind a revoked authority (#assertActive, src/path-policy.ts:2120).
THEOREM NothingBehindRevocationHolds == ReadSpec => NothingBehindRevocation
<1>1. ReadInv /\ [ReadNext]_readVars =>
        [\A r \in Readers :
           Begins(reading'[r].kind, reading[r].step, reading'[r].step)
             => \A a \in Ancestry(reading'[r].auth) : auth[a].active]_readVars
  <2> SUFFICES ASSUME ReadInv, ReadNext, NEW r \in Readers,
                      Begins(reading'[r].kind, reading[r].step, reading'[r].step)
               PROVE  \A a \in Ancestry(reading'[r].auth) : auth[a].active
    OBVIOUS
  <2>1. reading'[r] # reading[r]
    BY DEF Begins
  <2>2. reading'[r].auth \in Auths /\ auth[reading'[r].auth].active
    BY <2>1, AuthoritiesKeep, OperationKeeps, BeginsAsserted DEF ReadNext
  <2> QED
    BY <2>2, AncestryActive DEF ReadInv
<1> QED
  BY <1>1, ReadInvariance, PTL DEF ReadSpec, NothingBehindRevocation

-----------------------------------------------------------------------------
(* Watching.                                                               *)

WatchRecord ==
  [opening : Opening, closed : BOOLEAN, lease : BOOLEAN, authority : BOOLEAN,
   owned : {"no", "registered", "retired"}, requested : BOOLEAN, released : BOOLEAN,
   active : BOOLEAN, native : {"none", "open", "closing", "closed"}, queued : 0..MaxQueued,
   event : {"none", "checking", "checked", "ending"}]

\* One watcher is owned while its watcher may be open, or may still be opened.
Held(r) ==
  r.native \in {"open", "closing"} \/ r.opening \in {"checking", "created", "prepared", "rejected"}
    => r.owned # "no"

\* The inductive invariant: a drained owner has let go of all.
WatchInv ==
  /\ WatchTypeOK
  /\ \A w \in Watchers : Held(watch[w])
  /\ watchOwner = "drained" => \A w \in Watchers : watch[w].owned = "no"

\* Closing the lease ends nothing but the watcher, and not yet.
LEMMA LeaseClosedKeeps ==
  ASSUME NEW r \in WatchRecord
  PROVE  /\ LeaseClosed(r) \in WatchRecord
         /\ LeaseClosed(r).opening = r.opening /\ LeaseClosed(r).owned = r.owned
         /\ LeaseClosed(r).native = IF r.native = "open" THEN "closing" ELSE r.native
<1>1. [r EXCEPT !.active = FALSE] \in WatchRecord
  BY DEF WatchRecord
<1> QED
  BY <1>1 DEF WatchRecord, LeaseClosed

\* So do the gateway's close and the subscription's.
LEMMA GatewayClosedKeeps ==
  ASSUME NEW r \in WatchRecord
  PROVE  /\ GatewayClosed(r) \in WatchRecord
         /\ GatewayClosed(r).opening = r.opening /\ GatewayClosed(r).owned = r.owned
         /\ GatewayClosed(r).native \in {r.native, "closing"}
         /\ GatewayClosed(r).native # r.native => r.native = "open"
<1> DEFINE closing == [r EXCEPT !.requested = TRUE, !.authority = FALSE]
<1>1. closing \in WatchRecord /\ closing.opening = r.opening /\ closing.owned = r.owned
      /\ closing.native = r.native
  BY DEF WatchRecord
<1>2. GatewayClosed(r) = IF Leased(r) THEN LeaseClosed(closing) ELSE closing
  BY DEF GatewayClosed
<1> HIDE DEF closing
<1> QED
  BY <1>1, <1>2, LeaseClosedKeeps

\* Closing the subscription closes the watcher at most.
LEMMA SubscriptionClosedKeeps ==
  ASSUME NEW r \in WatchRecord
  PROVE  /\ SubscriptionClosed(r) \in WatchRecord
         /\ SubscriptionClosed(r).opening = r.opening /\ SubscriptionClosed(r).owned = r.owned
         /\ SubscriptionClosed(r).native \in {r.native, "closing"}
         /\ SubscriptionClosed(r).native # r.native => r.native = "open"
<1> DEFINE closed == [r EXCEPT !.closed = TRUE]
<1>1. closed \in WatchRecord /\ closed.opening = r.opening /\ closed.owned = r.owned
      /\ closed.native = r.native
  BY DEF WatchRecord
<1>2. SubscriptionClosed(r) = IF r.closed THEN r ELSE IF r.lease THEN GatewayClosed(closed)
                              ELSE closed
  BY DEF SubscriptionClosed
<1> HIDE DEF closed
<1> QED
  BY <1>1, <1>2, GatewayClosedKeeps

\* A step of one watcher that leaves it held, and is not taken again once its owner is
\* drained, keeps the invariant.
LEMMA WatcherKeeps ==
  ASSUME WatchInv, NEW w \in Watchers, NEW new \in WatchRecord, Update(w, new),
         UNCHANGED watchOwner, runtimePaths' \in BOOLEAN,
         Held(new), new.owned = "no" \/ new.owned = watch[w].owned \/ watchOwner = "active"
  PROVE  WatchInv'
  BY DEF WatchInv, WatchTypeOK, WatchRecord, Update, Held

\* What the gateway and the subscription do.
LEMMA SubscribeKeeps ==
  ASSUME WatchInv, NEW w \in Watchers,
         \/ GatewayReleases(w) \/ SubscriptionFollows(w) \/ Subscribe(w) \/ CreateWatcher(w)
         \/ WatcherCreated(w) \/ GatewayInitialized(w) \/ Subscribed(w) \/ SubscribeFails(w)
         \/ Unsubscribe(w)
  PROVE  WatchInv'
<1>1. watch[w] \in WatchRecord /\ runtimePaths \in BOOLEAN /\ Held(watch[w])
  BY DEF WatchInv, WatchTypeOK, WatchRecord
<1> USE DEF Opening
<1>2. CASE GatewayReleases(w)
  <2> DEFINE new == [watch[w] EXCEPT !.released = TRUE, !.owned = "no"]
  <2>1. new \in WatchRecord /\ Held(new) /\ new.owned = "no"
    BY <1>1, <1>2 DEF GatewayReleases, Held, Initialized, Leased, WatchRecord
  <2>2. Update(w, new) /\ UNCHANGED <<watchOwner, runtimePaths>>
    BY <1>2 DEF GatewayReleases
  <2> HIDE DEF new
  <2> QED
    BY <1>1, <2>1, <2>2, WatcherKeeps
<1>3. CASE SubscriptionFollows(w) \/ Unsubscribe(w)
  <2>1. Held(SubscriptionClosed(watch[w]))
    BY <1>1, SubscriptionClosedKeeps DEF Held
  <2> QED
    BY <1>1, <1>3, <2>1, SubscriptionClosedKeeps, WatcherKeeps DEF SubscriptionFollows, Unsubscribe
<1>4. CASE Subscribe(w)
  <2> DEFINE new == [watch[w] EXCEPT !.opening = "checking", !.owned = "registered",
                                     !.authority = TRUE]
  <2>1. new \in WatchRecord /\ Held(new)
    BY <1>1 DEF Held, WatchRecord
  <2>2. Update(w, new) /\ UNCHANGED <<watchOwner, runtimePaths>> /\ watchOwner = "active"
    BY <1>4 DEF Subscribe
  <2> HIDE DEF new
  <2> QED
    BY <1>1, <2>1, <2>2, WatcherKeeps
<1>5. CASE CreateWatcher(w)
  <2> DEFINE new == [watch[w] EXCEPT !.opening = "created", !.native = "open"]
  <2>1. new \in WatchRecord /\ Held(new) /\ new.owned = watch[w].owned
    BY <1>1, <1>5 DEF Held, WatchRecord, CreateWatcher
  <2>2. Update(w, new) /\ UNCHANGED <<watchOwner, runtimePaths>>
    BY <1>5 DEF CreateWatcher
  <2> HIDE DEF new
  <2> QED
    BY <1>1, <2>1, <2>2, WatcherKeeps
<1>6. CASE WatcherCreated(w)
  <2>1. ASSUME NEW opening \in {"prepared", "rejected"}, watch[w].opening = "created"
        PROVE  /\ [watch[w] EXCEPT !.opening = opening] \in WatchRecord
               /\ Held([watch[w] EXCEPT !.opening = opening])
               /\ [watch[w] EXCEPT !.opening = opening].owned = watch[w].owned
    BY <1>1, <2>1 DEF Held, WatchRecord
  <2> QED
    BY <1>1, <1>6, <2>1, WatcherKeeps DEF WatcherCreated
<1>7. CASE GatewayInitialized(w)
  <2> DEFINE denied == [watch[w] EXCEPT !.opening = "denied"]
             leased == [watch[w] EXCEPT !.opening = "leased"]
  <2>1. /\ denied \in WatchRecord /\ Held(denied) /\ denied.owned = watch[w].owned
        /\ leased \in WatchRecord /\ Held(leased) /\ leased.owned = watch[w].owned
    BY <1>1 DEF Held, WatchRecord
  <2>2. /\ UNCHANGED <<watchOwner, runtimePaths>>
        /\ Update(w, GatewayClosed(denied)) \/ Update(w, leased)
    BY <1>7 DEF GatewayInitialized
  <2> HIDE DEF denied, leased
  <2>3. Held(GatewayClosed(denied))
    BY <2>1, GatewayClosedKeeps DEF Held
  <2> QED
    BY <1>1, <2>1, <2>2, <2>3, GatewayClosedKeeps, WatcherKeeps
<1>8. CASE Subscribed(w)
  <2> DEFINE stored == [watch[w] EXCEPT !.opening = "done", !.lease = TRUE]
  <2>1. stored \in WatchRecord /\ Held(stored) /\ stored.owned = watch[w].owned
    BY <1>1 DEF Held, WatchRecord
  <2>2. /\ UNCHANGED <<watchOwner, runtimePaths>>
        /\ Update(w, SubscriptionClosed(stored)) \/ Update(w, stored)
    BY <1>8 DEF Subscribed
  <2> HIDE DEF stored
  <2>3. Held(SubscriptionClosed(stored))
    BY <2>1, SubscriptionClosedKeeps DEF Held
  <2> QED
    BY <1>1, <2>1, <2>2, <2>3, SubscriptionClosedKeeps, WatcherKeeps
<1>9. CASE SubscribeFails(w)
  <2> DEFINE failed == [watch[w] EXCEPT !.opening = "done"]
  <2>1. failed \in WatchRecord /\ Held(failed) /\ failed.owned = watch[w].owned
    BY <1>1 DEF Held, WatchRecord
  <2>2. UNCHANGED <<watchOwner, runtimePaths>> /\ Update(w, SubscriptionClosed(failed))
    BY <1>9 DEF SubscribeFails
  <2> HIDE DEF failed
  <2>3. Held(SubscriptionClosed(failed))
    BY <2>1, SubscriptionClosedKeeps DEF Held
  <2> QED
    BY <1>1, <2>1, <2>2, <2>3, SubscriptionClosedKeeps, WatcherKeeps
<1> QED
  BY <1>2, <1>3, <1>4, <1>5, <1>6, <1>7, <1>8, <1>9

\* What the native watcher and its events do.
LEMMA EventsKeep ==
  ASSUME WatchInv, NEW w \in Watchers,
         \/ NativeFails(w) \/ NativeClosed(w) \/ EventArrives(w) \/ EventBegins(w)
         \/ EventPublished(w) \/ EventEnds(w)
  PROVE  WatchInv'
<1>1. watch[w] \in WatchRecord /\ runtimePaths \in BOOLEAN /\ Held(watch[w])
  BY DEF WatchInv, WatchTypeOK, WatchRecord
<1>2. ASSUME NEW r \in WatchRecord, Held(r), r.owned = watch[w].owned,
             UNCHANGED <<watchOwner, runtimePaths>>,
             Update(w, r) \/ Update(w, LeaseClosed(r)) \/ Update(w, GatewayClosed(r))
      PROVE  WatchInv'
  <2>1. Held(LeaseClosed(r)) /\ Held(GatewayClosed(r))
    BY <1>2, LeaseClosedKeeps, GatewayClosedKeeps DEF Held
  <2> QED
    BY <1>1, <1>2, <2>1, LeaseClosedKeeps, GatewayClosedKeeps, WatcherKeeps
<1>3. CASE NativeFails(w)
  BY <1>1, <1>2, <1>3 DEF NativeFails
<1>4. CASE NativeClosed(w)
  <2> DEFINE closed == [watch[w] EXCEPT !.native = "closed", !.active = FALSE]
  <2>1. closed \in WatchRecord /\ Held(closed) /\ closed.owned = watch[w].owned
    BY <1>1 DEF Held, WatchRecord
  <2>2. /\ UNCHANGED <<watchOwner, runtimePaths>>
        /\ Update(w, GatewayClosed(closed)) \/ Update(w, closed)
    BY <1>4 DEF NativeClosed
  <2> HIDE DEF closed
  <2> QED
    BY <1>2, <2>1, <2>2
<1>5. ASSUME NEW queued \in 0..MaxQueued
      PROVE  /\ [watch[w] EXCEPT !.queued = queued] \in WatchRecord
             /\ Held([watch[w] EXCEPT !.queued = queued])
             /\ [watch[w] EXCEPT !.queued = queued].owned = watch[w].owned
  BY <1>1 DEF Held, WatchRecord
<1>6. ASSUME NEW r \in WatchRecord, Held(r),
             NEW event \in {"none", "checking", "checked", "ending"}
      PROVE  /\ [r EXCEPT !.event = event] \in WatchRecord /\ Held([r EXCEPT !.event = event])
             /\ [r EXCEPT !.event = event].owned = r.owned
  BY <1>6 DEF Held, WatchRecord
<1>7. watch[w].queued \in 0..MaxQueued /\ MaxQueued \in Nat
  BY <1>1, WatchAssumption DEF WatchRecord
<1>8. CASE EventArrives(w)
  <2>1. watch[w].queued + 1 \in 0..MaxQueued
    BY <1>7, <1>8 DEF EventArrives
  <2>2. /\ UNCHANGED <<watchOwner, runtimePaths>>
        /\ Update(w, [watch[w] EXCEPT !.queued = watch[w].queued + 1])
    BY <1>8 DEF EventArrives
  <2> QED
    BY <1>2, <1>5, <2>1, <2>2
<1>9. CASE EventBegins(w)
  <2> DEFINE r == [watch[w] EXCEPT !.queued = watch[w].queued - 1]
  <2>1. watch[w].queued - 1 \in 0..MaxQueued
    BY <1>7, <1>9 DEF EventBegins
  <2>2. r \in WatchRecord /\ Held(r) /\ r.owned = watch[w].owned
    BY <1>5, <2>1
  <2>3. /\ UNCHANGED <<watchOwner, runtimePaths>>
        /\ \/ Update(w, r) \/ Update(w, LeaseClosed([r EXCEPT !.event = "ending"]))
           \/ Update(w, [r EXCEPT !.event = "checking"])
    BY <1>9 DEF EventBegins
  <2> HIDE DEF r
  <2> QED
    BY <1>2, <1>6, <2>2, <2>3
<1>10. CASE EventPublished(w)
  <2>1. /\ UNCHANGED <<watchOwner, runtimePaths>>
        /\ \/ Update(w, LeaseClosed([watch[w] EXCEPT !.event = "ending"]))
           \/ Update(w, [watch[w] EXCEPT !.event = "none"])
    BY <1>10 DEF EventPublished
  <2> QED
    BY <1>1, <1>2, <1>6, <2>1
<1>11. CASE EventEnds(w)
  BY <1>1, <1>2, <1>6, <1>11 DEF EventEnds
<1> QED
  BY <1>3, <1>4, <1>8, <1>9, <1>10, <1>11

\* What changes all watchers at once: a revoked authority, a retired owner.
LEMMA AllWatchersKeep ==
  ASSUME WatchInv,
         \/ RevokePaths \/ RetireWatchOwner \/ WatchOwnerDrained
         \/ \E w \in Watchers : WatchDenied(w) \/ EventChecked(w)
  PROVE  WatchInv'
<1>1. /\ watch \in [Watchers -> WatchRecord] /\ runtimePaths \in BOOLEAN
      /\ \A w \in Watchers : Held(watch[w])
      /\ watchOwner \in {"active", "draining", "drained"}
  BY DEF WatchInv, WatchTypeOK, WatchRecord
\* Owners go on, and no watcher is taken by a drained one.
<1>2. ASSUME watch' \in [Watchers -> WatchRecord],
             \A w \in Watchers : Held(watch'[w]) /\ (watch[w].owned = "no" => watch'[w].owned = "no"),
             runtimePaths' \in BOOLEAN,
             watchOwner' = watchOwner \/ watchOwner' = "draining"
      PROVE  WatchInv'
  BY <1>1, <1>2 DEF WatchInv, WatchTypeOK, WatchRecord
<1>3. ASSUME NEW r \in WatchRecord, NEW authority \in BOOLEAN
      PROVE  /\ [r EXCEPT !.authority = authority] \in WatchRecord
             /\ [r EXCEPT !.authority = authority].owned = r.owned
             /\ [r EXCEPT !.authority = authority].opening = r.opening
             /\ [r EXCEPT !.authority = authority].native = r.native
  BY <1>3 DEF WatchRecord
<1>4. CASE RevokePaths
  <2>1. \A w \in Watchers : watch'[w] = [watch[w] EXCEPT !.authority = FALSE]
    BY <1>4 DEF RevokePaths
  <2>2. watch' \in [Watchers -> WatchRecord]
    <3>1. \A w \in Watchers : [watch[w] EXCEPT !.authority = FALSE] \in WatchRecord
      BY <1>1, <1>3
    <3> QED
      BY <1>4, <3>1 DEF RevokePaths
  <2>3. ASSUME NEW w \in Watchers
        PROVE  Held(watch'[w]) /\ watch'[w].owned = watch[w].owned
    <3> DEFINE new == [watch[w] EXCEPT !.authority = FALSE]
    <3>1. /\ new.owned = watch[w].owned /\ new.opening = watch[w].opening
          /\ new.native = watch[w].native
      BY <1>1, <1>3
    <3>2. watch'[w] = new
      BY <2>1
    <3> HIDE DEF new
    <3> QED
      BY <1>1, <3>1, <3>2 DEF Held
  <2> QED
    BY <1>1, <1>2, <1>4, <2>2, <2>3 DEF RevokePaths
<1>5. CASE RetireWatchOwner
  <2>1. ASSUME NEW w \in Watchers, watch[w].owned = "registered"
        PROVE  /\ [watch[w] EXCEPT !.owned = "retired"] \in WatchRecord
               /\ Held([watch[w] EXCEPT !.owned = "retired"])
    BY <1>1 DEF WatchRecord, Held
  <2>2. ASSUME NEW r \in WatchRecord, Held(r)
        PROVE  /\ GatewayClosed(SubscriptionClosed(r)) \in WatchRecord
               /\ Held(GatewayClosed(SubscriptionClosed(r)))
    BY <2>2, SubscriptionClosedKeeps, GatewayClosedKeeps DEF Held
  <2>3. ASSUME NEW w \in Watchers
        PROVE  /\ watch'[w] \in WatchRecord /\ Held(watch'[w])
               /\ watch[w].owned = "no" => watch'[w] = watch[w]
    <3>1. watch'[w] = IF watch[w].owned # "registered" THEN watch[w]
            ELSE GatewayClosed(SubscriptionClosed([watch[w] EXCEPT !.owned = "retired"]))
      BY <1>5 DEF RetireWatchOwner
    <3>2. CASE watch[w].owned # "registered"
      BY <1>1, <3>1, <3>2
    <3>3. CASE watch[w].owned = "registered"
      BY <2>1, <2>2, <3>1, <3>3
    <3> QED
      BY <3>2, <3>3
  <2>4. watch' = [w \in Watchers |-> watch'[w]]
    BY <1>5 DEF RetireWatchOwner
  <2>5. watch' \in [Watchers -> WatchRecord]
    BY <2>3, <2>4
  <2> QED
    BY <1>1, <1>2, <1>5, <2>3, <2>5 DEF RetireWatchOwner
<1>6. CASE WatchOwnerDrained
  BY <1>6 DEF WatchOwnerDrained, WatchInv, WatchTypeOK
<1>7. ASSUME NEW w \in Watchers, WatchDenied(w) PROVE WatchInv'
  <2>1. runtimePaths' \in BOOLEAN /\ watchOwner' = watchOwner /\ watch[w].opening = "checking"
    BY <1>1, <1>7 DEF WatchDenied
  <2>2. ASSUME NEW v \in Watchers
        PROVE  /\ watch'[v] \in WatchRecord /\ Held(watch'[v]) /\ watch'[v].owned = watch[v].owned
    <3> DEFINE opening == IF v = w THEN "rejected" ELSE watch[v].opening
               authority == watch[v].authority /\ runtimePaths'
    <3>1. watch'[v] = [watch[v] EXCEPT !.opening = opening, !.authority = authority]
      BY <1>7 DEF WatchDenied
    <3>2. opening \in Opening /\ authority \in BOOLEAN
          /\ (v = w => opening = "rejected") /\ (v # w => opening = watch[v].opening)
      <4>1. opening \in Opening
        BY <1>1 DEF WatchRecord, Opening
      <4>2. authority \in BOOLEAN
        OBVIOUS
      <4> QED
        BY <4>1, <4>2
    <3> HIDE DEF opening, authority
    <3>3. watch'[v] \in WatchRecord /\ watch'[v].opening = opening
          /\ watch'[v].owned = watch[v].owned /\ watch'[v].native = watch[v].native
      <4> DEFINE new == [watch[v] EXCEPT !.opening = opening]
      <4>1. /\ new \in WatchRecord /\ new.opening = opening
            /\ new.owned = watch[v].owned /\ new.native = watch[v].native
        BY <1>1, <3>2 DEF WatchRecord
      <4>2. watch'[v] = [new EXCEPT !.authority = authority]
        BY <3>1
      <4> HIDE DEF new
      <4> QED
        BY <1>3, <3>2, <4>1, <4>2
    <3> QED
      BY <1>1, <2>1, <3>2, <3>3 DEF Held
  <2>3. watch' = [v \in Watchers |-> watch'[v]]
    BY <1>7 DEF WatchDenied
  <2>4. watch' \in [Watchers -> WatchRecord]
    BY <2>2, <2>3
  <2> QED
    BY <1>2, <2>1, <2>2, <2>4
<1>8. ASSUME NEW w \in Watchers, EventChecked(w) PROVE WatchInv'
  <2> DEFINE Seen(v) == [watch[v] EXCEPT !.authority = watch[v].authority /\ runtimePaths']
  <2>1. CASE Update(w, [watch[w] EXCEPT !.event = "checked"]) /\ UNCHANGED runtimePaths
    <3>1. [watch[w] EXCEPT !.event = "checked"] \in WatchRecord
          /\ Held([watch[w] EXCEPT !.event = "checked"])
          /\ [watch[w] EXCEPT !.event = "checked"].owned = watch[w].owned
      BY <1>1 DEF WatchRecord, Held
    <3> QED
      BY <1>1, <1>8, <2>1, <3>1, WatcherKeeps DEF EventChecked
  <2>2. CASE /\ runtimePaths' \in {runtimePaths, FALSE}
             /\ watch' = [v \in Watchers |->
                  IF v = w THEN LeaseClosed([Seen(v) EXCEPT !.event = "ending"]) ELSE Seen(v)]
    <3>1. runtimePaths' \in BOOLEAN /\ watchOwner' = watchOwner
      BY <1>1, <1>8, <2>2 DEF EventChecked
    <3>2. ASSUME NEW v \in Watchers
          PROVE  /\ Seen(v) \in WatchRecord /\ Held(Seen(v)) /\ Seen(v).owned = watch[v].owned
      <4>1. (watch[v].authority /\ runtimePaths') \in BOOLEAN
        OBVIOUS
      <4> QED
        BY <1>1, <1>3, <4>1, ZenonT(60) DEF Held
    <3> HIDE DEF Seen
    <3>3. ASSUME NEW v \in Watchers
          PROVE  /\ LeaseClosed([Seen(v) EXCEPT !.event = "ending"]) \in WatchRecord
                 /\ Held(LeaseClosed([Seen(v) EXCEPT !.event = "ending"]))
                 /\ LeaseClosed([Seen(v) EXCEPT !.event = "ending"]).owned = watch[v].owned
      <4>1. [Seen(v) EXCEPT !.event = "ending"] \in WatchRecord
            /\ Held([Seen(v) EXCEPT !.event = "ending"])
            /\ [Seen(v) EXCEPT !.event = "ending"].owned = watch[v].owned
        BY <3>2 DEF WatchRecord, Held
      <4> QED
        BY <4>1, LeaseClosedKeeps DEF Held
    <3>4. /\ watch' \in [Watchers -> WatchRecord]
          /\ \A v \in Watchers : Held(watch'[v]) /\ watch'[v].owned = watch[v].owned
      BY <2>2, <3>2, <3>3
    <3> QED
      BY <1>2, <3>1, <3>4
  <2> QED
    BY <1>8, <2>1, <2>2 DEF EventChecked
<1> QED
  BY <1>4, <1>5, <1>6, <1>7, <1>8

\* The invariant holds initially and is kept by every step.
LEMMA WatchInvariance == WatchSpec => []WatchInv
<1>1. WatchInit => WatchInv
  <2> SUFFICES ASSUME WatchInit PROVE WatchInv
    OBVIOUS
  <2>1. WatchTypeOK
    BY WatchAssumption DEF WatchInit, WatchTypeOK, Opening
  <2> QED
    BY <2>1 DEF WatchInit, WatchInv, Held
<1>2. WatchInv /\ [WatchNext]_watchVars => WatchInv'
  <2> SUFFICES ASSUME WatchInv, [WatchNext]_watchVars PROVE WatchInv'
    OBVIOUS
  <2>1. CASE UNCHANGED watchVars
    BY <2>1 DEF watchVars, WatchInv, WatchTypeOK, Held
  <2> QED
    BY <2>1, SubscribeKeeps, EventsKeep, AllWatchersKeep DEF WatchNext
<1> QED
  BY <1>1, <1>2, PTL DEF WatchSpec

\* The layers of a watcher are what they are said to be (src/path-policy.ts,
\* src/capability-broker.ts, src/wire.ts).
THEOREM WatchTypeCorrect == WatchSpec => []WatchTypeOK
<1>1. WatchInv => WatchTypeOK
  BY DEF WatchInv
<1> QED
  BY <1>1, WatchInvariance, PTL

\* A watcher that is open is owned, and none is open once its owner is drained
\* (src/capability-broker.ts:583-650, src/wire.ts:33-90).
THEOREM WatchersEndHolds == WatchSpec => []WatchersEnd
<1>1. WatchInv => WatchersEnd
  BY DEF WatchInv, WatchTypeOK, Held, WatchersEnd
<1> QED
  BY <1>1, WatchInvariance, PTL

-----------------------------------------------------------------------------
(* Writing.                                                                *)

WriteRecord ==
  [kind : WriteKinds, step : Steps, seen : Objects, reserved : Objects, target : Objects,
   exists : BOOLEAN, made : Seq([name : Names, id : Objects])]

\* What a list of made objects can be: each is identified by its maker, or not yet.
Entries(w, name) == {[name |-> name, id |-> id] : id \in {Nothing, Own(w, name)}}

Chains(w) ==
  {<<>>} \cup {<<d>> : d \in Entries(w, "dir")} \cup {<<f>> : f \in Entries(w, "file")}
    \cup {<<d, f>> : d \in Entries(w, "dir"), f \in Entries(w, "file")}
    \cup {<<t>> : t \in Entries(w, w)}

HasDir(made) == made # <<>> /\ made[1].name = "dir"
HasFile(made) == made # <<>> /\ made[Len(made)].name = "file"
HasTemporary(w, made) == made # <<>> /\ made[1].name = w

\* Objects stand under the name they were made for, or were renamed to the file that is
\* replaced.
PlacedOn(d) ==
  \A n \in Names, w \in Writers, m \in Names :
    d[n] = Own(w, m) => (n \in {"dir", "file"} /\ m = n) \/ (n \in {w, "config"} /\ m = w)

\* What an operation has on the disk is in its list, but for a temporary file that is
\* being written.
Listed(w, r, d) ==
  /\ r.made \in Chains(w)
  /\ d["dir"] = Own(w, "dir") => HasDir(r.made)
  /\ d["file"] = Own(w, "file") => HasFile(r.made)
  /\ d["config"] = Own(w, w) => HasTemporary(w, r.made)
  /\ d[w] = Own(w, w) => HasTemporary(w, r.made) \/ r.step \in {"saving", "unsaved"}
  /\ d[w] = Own(w, w) => d["config"] # Own(w, w)

Unmade ==
  {"none", "reserved", "looking", "mkdir", "mkdir!", "temporary", "saving", "unsaved", "failed"}

Undoing == {"undoing", "removing", "removed"}

\* What a step relies on: of the list, and of the disk.
Prepared(w, r, d) ==
  /\ r.step \in Unmade => r.made = <<>>
  /\ r.step \in Undoing => r.made # <<>>
  /\ r.step \in {"create", "open!"} => r.made = <<>> \/ (HasDir(r.made) /\ ~HasFile(r.made))
  /\ r.step = "made" => r.made = <<[name |-> "dir", id |-> Nothing]>>
                        /\ d["dir"] = Own(w, "dir")
  /\ r.step = "opened" => HasFile(r.made) /\ r.target = Own(w, "file")
  /\ r.step = "removing" => d[r.made[Len(r.made)].name] = Own(w, r.made[Len(r.made)].name)
  /\ r.step \in {"removing", "removed"} /\ HasTemporary(w, r.made) => d["config"] # Own(w, w)

WriteInv ==
  /\ WriteTypeOK
  /\ PlacedOn(disk)
  /\ \A w \in Writers : Listed(w, write[w], disk) /\ Prepared(w, write[w], disk)

-----------------------------------------------------------------------------
\* Names and objects.
LEMMA NamesDiffer ==
  /\ Writers \cap {"dir", "file", "config"} = {}
  /\ Names = Writers \cup {"dir", "file", "config"}
  /\ Nothing \in Objects /\ RootObject \in Objects
  /\ \A k \in 1..MaxForeign : <<"user", k>> \in Objects
  /\ \A w \in Writers, n \in Names :
       /\ Own(w, n) \in Objects /\ Own(w, n) # Nothing /\ Own(w, n) # RootObject
       /\ \A k \in 1..MaxForeign : Own(w, n) # <<"user", k>>
       /\ \A v \in Writers, m \in Names : Own(w, n) = Own(v, m) => w = v /\ n = m
<1>1. Writers \cap {"dir", "file", "config"} = {} /\ Names = Writers \cup {"dir", "file", "config"}
  BY WriteAssumption DEF Names
<1>2. /\ Nothing \in Objects /\ RootObject \in Objects
      /\ \A k \in 1..MaxForeign : <<"user", k>> \in Objects
      /\ \A w \in Writers, n \in Names : Own(w, n) \in Objects
  BY DEF Objects
<1>3. \A w \in Writers, n \in Names :
       /\ Own(w, n) # Nothing /\ Own(w, n) # RootObject
       /\ \A k \in 1..MaxForeign : Own(w, n) # <<"user", k>>
       /\ \A v \in Writers, m \in Names : Own(w, n) = Own(v, m) => w = v /\ n = m
  BY WriteAssumption DEF Own, Nothing, RootObject
<1> QED
  BY <1>1, <1>2, <1>3

\* Lists of one and of two.
LEMMA ShortLists ==
  /\ \A x : /\ Append(<<>>, x) = <<x>> /\ Len(<<x>>) = 1 /\ <<x>>[1] = x /\ <<x>> # <<>>
             /\ SubSeq(<<x>>, 1, 0) = <<>>
  /\ \A x, y : /\ Append(<<x>>, y) = <<x, y>> /\ Len(<<x, y>>) = 2 /\ <<x, y>>[1] = x
                /\ <<x, y>>[2] = y /\ <<x, y>> # <<>> /\ SubSeq(<<x, y>>, 1, 1) = <<x>>
<1>1. \A x : /\ Append(<<>>, x) = <<x>> /\ Len(<<x>>) = 1 /\ <<x>>[1] = x /\ <<x>> # <<>>
             /\ SubSeq(<<x>>, 1, 0) = <<>>
  OBVIOUS
<1>2. ASSUME NEW x, NEW y
      PROVE  /\ Append(<<x>>, y) = <<x, y>> /\ Len(<<x, y>>) = 2 /\ <<x, y>>[1] = x
             /\ <<x, y>>[2] = y /\ <<x, y>> # <<>>
  <2>1. Len(<<x, y>>) = 2 /\ <<x, y>>[1] = x /\ <<x, y>>[2] = y
    OBVIOUS
  <2>2. <<x, y>> # <<>>
    OBVIOUS
  <2>3. Append(<<x>>, y) = <<x, y>>
    <3>1. <<x>> \in Seq({x, y}) /\ <<x, y>> \in Seq({x, y}) /\ Len(<<x>>) = 1 /\ <<x>>[1] = x
      OBVIOUS
    <3>2. /\ Append(<<x>>, y) \in Seq({x, y}) /\ Len(Append(<<x>>, y)) = 2
          /\ Append(<<x>>, y)[1] = x /\ Append(<<x>>, y)[2] = y
      BY <3>1, AppendProperties
    <3>3. \A s, t \in Seq({x, y}) :
            Len(s) = 2 /\ Len(t) = 2 /\ s[1] = t[1] /\ s[2] = t[2] => s = t
      <4> SUFFICES ASSUME NEW s \in Seq({x, y}), NEW t \in Seq({x, y}), Len(s) = 2, Len(t) = 2,
                          s[1] = t[1], s[2] = t[2]
                   PROVE  s = t
        OBVIOUS
      <4>1. \A i \in 1..Len(s) : s[i] = t[i]
        OBVIOUS
      <4> QED
        BY <4>1, SeqEqual
    <3> QED
      BY <2>1, <3>1, <3>2, <3>3
  <2> QED
    BY <2>1, <2>2, <2>3
<1>3. ASSUME NEW x, NEW y PROVE SubSeq(<<x, y>>, 1, 1) = <<x>>
  <2>1. <<x>> \in Seq({x, y}) /\ Len(<<x>>) = 1 /\ <<x>>[1] = x
    OBVIOUS
  <2>2. SubSeq(<<x, y>>, 1, 1) \in Seq({x, y}) /\ Len(SubSeq(<<x, y>>, 1, 1)) = 1
        /\ SubSeq(<<x, y>>, 1, 1)[1] = x
    OBVIOUS
  <2>3. \A s, t \in Seq({x, y}) : Len(s) = 1 /\ Len(t) = 1 /\ s[1] = t[1] => s = t
    BY SeqEqual
  <2> QED
    BY <2>1, <2>2, <2>3
<1> QED
  BY <1>1, <1>2, <1>3

\* The parts of an entry, and that it stays one when it gets its identity.
LEMMA EntryParts ==
  ASSUME NEW w \in Writers, NEW n \in Names
  PROVE  /\ \A e \in Entries(w, n) :
              /\ e \in [name : Names, id : Objects] /\ e.name = n
              /\ e.id \in {Nothing, Own(w, n)} /\ [e EXCEPT !.id = Own(w, n)] \in Entries(w, n)
         /\ [name |-> n, id |-> Nothing] \in Entries(w, n)
         /\ [name |-> n, id |-> Own(w, n)] \in Entries(w, n)
<1>1. Own(w, n) \in Objects /\ Nothing \in Objects
  BY DEF Objects
<1>2. ASSUME NEW e \in Entries(w, n)
      PROVE  /\ e \in [name : Names, id : Objects] /\ e.name = n
             /\ e.id \in {Nothing, Own(w, n)} /\ [e EXCEPT !.id = Own(w, n)] \in Entries(w, n)
  BY <1>1 DEF Entries
<1>3. /\ [name |-> n, id |-> Nothing] \in Entries(w, n)
      /\ [name |-> n, id |-> Own(w, n)] \in Entries(w, n)
  BY DEF Entries
<1> QED
  BY <1>2, <1>3

\* The names of the entries of an operation.
LEMMA EntryNames ==
  ASSUME NEW w \in Writers
  PROVE  /\ "dir" \in Names /\ "file" \in Names /\ w \in Names /\ "config" \in Names
         /\ w # "dir" /\ w # "file" /\ w # "config"
         /\ \A d \in Entries(w, "dir") : d.name = "dir" /\ d.id \in {Nothing, Own(w, "dir")}
         /\ \A f \in Entries(w, "file") : f.name = "file" /\ f.id \in {Nothing, Own(w, "file")}
         /\ \A t \in Entries(w, w) : t.name = w /\ t.id \in {Nothing, Own(w, w)}
<1>1. /\ "dir" \in Names /\ "file" \in Names /\ w \in Names /\ "config" \in Names
      /\ w # "dir" /\ w # "file" /\ w # "config"
  BY NamesDiffer
<1> QED
  BY <1>1, EntryParts

\* A list has one or two entries, the second of which is a file's.
LEMMA ChainParts ==
  ASSUME NEW w \in Writers, NEW made \in Chains(w), made # <<>>
  PROVE  \/ Len(made) = 1 /\ made = <<made[1]>> /\ made[1] \in Entries(w, "dir")
         \/ Len(made) = 1 /\ made = <<made[1]>> /\ made[1] \in Entries(w, "file")
         \/ Len(made) = 1 /\ made = <<made[1]>> /\ made[1] \in Entries(w, w)
         \/ /\ Len(made) = 2 /\ made = <<made[1], made[2]>>
            /\ made[1] \in Entries(w, "dir") /\ made[2] \in Entries(w, "file")
<1>1. ASSUME NEW d \in Entries(w, "dir"), made = <<d>>
      PROVE  Len(made) = 1 /\ made = <<made[1]>> /\ made[1] \in Entries(w, "dir")
  BY <1>1
<1>2. ASSUME NEW f \in Entries(w, "file"), made = <<f>>
      PROVE  Len(made) = 1 /\ made = <<made[1]>> /\ made[1] \in Entries(w, "file")
  BY <1>2
<1>3. ASSUME NEW t \in Entries(w, w), made = <<t>>
      PROVE  Len(made) = 1 /\ made = <<made[1]>> /\ made[1] \in Entries(w, w)
  BY <1>3
<1>4. ASSUME NEW d \in Entries(w, "dir"), NEW f \in Entries(w, "file"), made = <<d, f>>
      PROVE  /\ Len(made) = 2 /\ made = <<made[1], made[2]>>
             /\ made[1] \in Entries(w, "dir") /\ made[2] \in Entries(w, "file")
  BY <1>4
<1>5. \/ \E d \in Entries(w, "dir") : made = <<d>>
      \/ \E f \in Entries(w, "file") : made = <<f>>
      \/ \E t \in Entries(w, w) : made = <<t>>
      \/ \E d \in Entries(w, "dir"), f \in Entries(w, "file") : made = <<d, f>>
  BY DEF Chains
<1> QED
  BY <1>1, <1>2, <1>3, <1>4, <1>5

\* The lists there are, and that they are sequences of entries.
LEMMA ChainsAre ==
  ASSUME NEW w \in Writers
  PROVE  /\ <<>> \in Chains(w)
         /\ \A d \in Entries(w, "dir") : <<d>> \in Chains(w)
         /\ \A f \in Entries(w, "file") : <<f>> \in Chains(w)
         /\ \A t \in Entries(w, w) : <<t>> \in Chains(w)
         /\ \A d \in Entries(w, "dir"), f \in Entries(w, "file") : <<d, f>> \in Chains(w)
         /\ Chains(w) \subseteq Seq([name : Names, id : Objects])
<1> DEFINE Entry == [name : Names, id : Objects]
<1>1. /\ Entries(w, "dir") \subseteq Entry /\ Entries(w, "file") \subseteq Entry
      /\ Entries(w, w) \subseteq Entry
  BY EntryParts, EntryNames
<1>2. ASSUME NEW made \in Chains(w) PROVE made \in Seq(Entry)
  <2> HIDE DEF Entry
  <2>1. CASE made = <<>>
    BY <2>1
  <2>2. \A e \in Entry : <<e>> \in Seq(Entry)
    OBVIOUS
  <2>3. \A e, f \in Entry : <<e, f>> \in Seq(Entry)
    OBVIOUS
  <2>4. \/ made = <<>> \/ \E e \in Entry : made = <<e>>
        \/ \E e, f \in Entry : made = <<e, f>>
    BY <1>1 DEF Chains
  <2> QED
    BY <2>1, <2>2, <2>3, <2>4
<1>3. /\ <<>> \in Chains(w)
      /\ \A d \in Entries(w, "dir") : <<d>> \in Chains(w)
      /\ \A f \in Entries(w, "file") : <<f>> \in Chains(w)
      /\ \A t \in Entries(w, w) : <<t>> \in Chains(w)
      /\ \A d \in Entries(w, "dir"), f \in Entries(w, "file") : <<d, f>> \in Chains(w)
  BY DEF Chains
<1> QED
  BY <1>2, <1>3

\* The last entry of a list, and the list without it.
LEMMA ChainEnds ==
  ASSUME NEW w \in Writers, NEW made \in Chains(w), made # <<>>
  PROVE  LET last == made[Len(made)]
             rest == SubSeq(made, 1, Len(made) - 1)
         IN  /\ last.name \in {"dir", "file", w} /\ last.id \in {Nothing, Own(w, last.name)}
             /\ rest \in Chains(w) /\ ~HasFile(rest) /\ ~HasTemporary(w, rest)
             /\ last.name = "file" => (HasDir(rest) <=> HasDir(made)) /\ ~HasTemporary(w, made)
             /\ last.name = "file" <=> HasFile(made)
             /\ last.name = "dir" <=> HasDir(made) /\ ~HasFile(made)
             /\ last.name = w <=> HasTemporary(w, made)
<1> DEFINE last == made[Len(made)]
           rest == SubSeq(made, 1, Len(made) - 1)
           Ends == /\ last.name \in {"dir", "file", w} /\ last.id \in {Nothing, Own(w, last.name)}
                   /\ rest \in Chains(w) /\ ~HasFile(rest) /\ ~HasTemporary(w, rest)
                   /\ last.name = "file" => (HasDir(rest) <=> HasDir(made)) /\ ~HasTemporary(w, made)
                   /\ last.name = "file" <=> HasFile(made)
                   /\ last.name = "dir" <=> HasDir(made) /\ ~HasFile(made)
                   /\ last.name = w <=> HasTemporary(w, made)
<1>1. ASSUME Len(made) = 1, NEW name \in {"dir", "file", w}, made[1] \in Entries(w, name),
             made = <<made[1]>>
      PROVE  Ends
  <2>1. last = made[1] /\ last.name = name /\ last.id \in {Nothing, Own(w, name)}
    BY <1>1, EntryNames
  <2>2. rest = <<>>
    <3>1. SubSeq(<<made[1]>>, 1, 0) = <<>>
      BY ShortLists
    <3> QED
      BY <1>1, <3>1
  <2> HIDE DEF last, rest
  <2>3. rest \in Chains(w) /\ ~HasFile(rest) /\ ~HasTemporary(w, rest) /\ ~HasDir(rest)
    BY <2>2, ChainsAre DEF HasFile, HasTemporary, HasDir
  <2>4. /\ HasFile(made) <=> name = "file"
        /\ HasDir(made) <=> name = "dir"
        /\ HasTemporary(w, made) <=> name = w
    BY <1>1, <2>1, EntryNames DEF HasFile, HasTemporary, HasDir
  <2> QED
    BY <2>1, <2>3, <2>4, EntryNames
<1>2. ASSUME Len(made) = 2, made = <<made[1], made[2]>>,
             made[1] \in Entries(w, "dir"), made[2] \in Entries(w, "file")
      PROVE  Ends
  <2>1. last = made[2] /\ last.name = "file" /\ last.id \in {Nothing, Own(w, "file")}
    BY <1>2, EntryNames
  <2>2. rest = <<made[1]>>
    <3>1. SubSeq(<<made[1], made[2]>>, 1, 1) = <<made[1]>>
      BY ShortLists
    <3> QED
      BY <1>2, <3>1
  <2> HIDE DEF last, rest
  <2>3. rest # <<>> /\ Len(rest) = 1 /\ rest[1] = made[1] /\ made[1].name = "dir"
        /\ rest \in Chains(w)
    BY <1>2, <2>2, ShortLists, EntryNames, ChainsAre
  <2>4. ~HasFile(rest) /\ ~HasTemporary(w, rest) /\ HasDir(rest)
    BY <2>3, EntryNames DEF HasFile, HasTemporary, HasDir
  <2>5. HasFile(made) /\ HasDir(made) /\ ~HasTemporary(w, made)
    BY <1>2, <2>1, <2>3, EntryNames DEF HasFile, HasTemporary, HasDir, last
  <2> QED
    BY <2>1, <2>3, <2>4, <2>5, EntryNames
<1> HIDE DEF Ends
<1>3. Ends
  BY <1>1, <1>2, ChainParts
<1> QED
  BY <1>3 DEF Ends

\* A list before and after a file is added to it.
LEMMA ChainGrows ==
  ASSUME NEW w \in Writers, NEW made \in Chains(w),
         made = <<>> \/ (HasDir(made) /\ ~HasFile(made))
  PROVE  LET more == Append(made, [name |-> "file", id |-> Nothing])
         IN  /\ more \in Chains(w) /\ more # <<>> /\ HasFile(more) /\ ~HasTemporary(w, more)
             /\ HasDir(made) => HasDir(more)
<1> DEFINE f == [name |-> "file", id |-> Nothing]
           more == Append(made, f)
           Grown == /\ more \in Chains(w) /\ more # <<>> /\ HasFile(more)
                    /\ ~HasTemporary(w, more)
                    /\ HasDir(made) => HasDir(more)
<1>1. f \in Entries(w, "file") /\ f.name = "file"
  BY EntryParts, EntryNames
<1> HIDE DEF f
<1>2. ASSUME made = <<>> PROVE Grown
  <2>1. more = <<f>> /\ more # <<>> /\ Len(more) = 1 /\ more[1] = f
    BY <1>2, ShortLists
  <2> HIDE DEF more
  <2>2. more \in Chains(w) /\ ~HasDir(made)
    BY <1>1, <1>2, <2>1, ChainsAre DEF HasDir
  <2> QED
    BY <1>1, <2>1, <2>2, EntryNames DEF HasFile, HasTemporary
<1>3. ASSUME HasDir(made) /\ ~HasFile(made) PROVE Grown
  <2>1. made = <<made[1]>> /\ made[1] \in Entries(w, "dir") /\ made[1].name = "dir"
    BY <1>3, ChainParts, EntryNames DEF HasDir, HasFile
  <2>2. more = <<made[1], f>>
    <3>1. Append(<<made[1]>>, f) = <<made[1], f>>
      BY ShortLists
    <3> QED
      BY <2>1, <3>1
  <2> HIDE DEF more
  <2>3. more # <<>> /\ Len(more) = 2 /\ more[1] = made[1] /\ more[2] = f /\ more \in Chains(w)
    BY <1>1, <2>1, <2>2, ShortLists, ChainsAre
  <2> QED
    BY <1>1, <2>1, <2>3, EntryNames DEF HasDir, HasFile, HasTemporary
<1> HIDE DEF Grown
<1>4. Grown
  BY <1>2, <1>3
<1> QED
  BY <1>4 DEF Grown, f

\* A file's entry gets its identity.
LEMMA ChainIdentified ==
  ASSUME NEW w \in Writers, NEW made \in Chains(w), HasFile(made)
  PROVE  LET more == [made EXCEPT ![Len(made)].id = Own(w, "file")]
         IN  /\ more \in Chains(w) /\ more # <<>> /\ HasFile(more) /\ ~HasTemporary(w, more)
             /\ HasDir(made) => HasDir(more)
<1> DEFINE more == [made EXCEPT ![Len(made)].id = Own(w, "file")]
           New(e) == [e EXCEPT !.id = Own(w, "file")]
           Named == /\ more \in Chains(w) /\ more # <<>> /\ HasFile(more)
                    /\ ~HasTemporary(w, more)
                    /\ HasDir(made) => HasDir(more)
<1>1. ASSUME NEW e \in Entries(w, "file")
      PROVE  New(e) \in Entries(w, "file") /\ New(e).name = "file"
  <2>1. New(e) \in Entries(w, "file")
    BY EntryParts, EntryNames
  <2> HIDE DEF New
  <2> QED
    BY <2>1, EntryNames
<1>2. ASSUME Len(made) = 1, made = <<made[1]>>, made[1] \in Entries(w, "file")
      PROVE  Named
  <2>1. more = <<New(made[1])>>
    <3>1. ASSUME NEW e PROVE [<<e>> EXCEPT ![1].id = Own(w, "file")] = <<New(e)>>
      OBVIOUS
    <3> QED
      BY <1>2, <3>1
  <2> HIDE DEF more, New
  <2>2. more # <<>> /\ Len(more) = 1 /\ more[1] = New(made[1]) /\ more \in Chains(w)
    BY <1>1, <1>2, <2>1, ShortLists, ChainsAre
  <2>3. ~HasDir(made)
    BY <1>2, EntryNames DEF HasDir
  <2> QED
    BY <1>1, <1>2, <2>2, <2>3, EntryNames DEF HasFile, HasTemporary
<1>3. ASSUME Len(made) = 2, made = <<made[1], made[2]>>,
             made[1] \in Entries(w, "dir"), made[2] \in Entries(w, "file")
      PROVE  Named
  <2>1. more = <<made[1], New(made[2])>>
    <3>1. ASSUME NEW d, NEW e PROVE [<<d, e>> EXCEPT ![2].id = Own(w, "file")] = <<d, New(e)>>
      OBVIOUS
    <3> QED
      BY <1>3, <3>1
  <2> HIDE DEF more, New
  <2>2. /\ more # <<>> /\ Len(more) = 2 /\ more[1] = made[1] /\ more[2] = New(made[2])
        /\ more \in Chains(w)
    BY <1>1, <1>3, <2>1, ShortLists, ChainsAre
  <2> QED
    BY <1>1, <1>3, <2>2, EntryNames DEF HasDir, HasFile, HasTemporary
<1> HIDE DEF Named
<1>4. Named
  BY <1>2, <1>3, ChainParts, EntryNames DEF HasFile
<1> QED
  BY <1>4 DEF Named

-----------------------------------------------------------------------------
\* A step of one operation that leaves the disk alone.
LEMMA WriterKeeps ==
  ASSUME WriteInv, NEW w \in Writers, NEW r \in WriteRecord, write' = [write EXCEPT ![w] = r],
         UNCHANGED <<disk, foreign, rootSame>>, allowed' \in SUBSET Writers,
         Listed(w, r, disk), Prepared(w, r, disk)
  PROVE  WriteInv'
<1>1. WriteTypeOK'
  BY DEF WriteInv, WriteTypeOK, WriteRecord
<1>2. PlacedOn(disk')
  BY DEF WriteInv
<1>3. \A v \in Writers : write'[v] = IF v = w THEN r ELSE write[v]
  BY DEF WriteInv, WriteTypeOK
<1>4. \A v \in Writers : Listed(v, write'[v], disk') /\ Prepared(v, write'[v], disk')
  BY <1>3 DEF WriteInv
<1> QED
  BY <1>1, <1>2, <1>4 DEF WriteInv

\* Steps that no condition is tied to.
Plain == Steps \ (Unmade \cup Undoing \cup {"create", "open!", "made", "opened"})

\* A step from one place to another, with what else it remembers, where the list stays.
LEMMA GoKeeps ==
  ASSUME WriteInv, NEW w \in Writers, NEW r \in WriteRecord, write' = [write EXCEPT ![w] = r],
         UNCHANGED <<disk, foreign, rootSame>>, allowed' \in SUBSET Writers,
         r.made = write[w].made, write[w].step \notin {"saving", "unsaved"},
         \/ r.step \in Plain
         \/ r.step \in Unmade /\ write[w].made = <<>>
         \/ r.step \in {"create", "open!"} /\ write[w].made = <<>>
         \/ r.step = "open!" /\ write[w].step = "create"
         \/ r.step = "undoing" /\ write[w].made # <<>>
  PROVE  WriteInv'
<1>1. Listed(w, write[w], disk) /\ Prepared(w, write[w], disk)
  BY DEF WriteInv
<1>2. Listed(w, r, disk)
  BY <1>1 DEF Listed
<1>3. Prepared(w, r, disk)
  <2>1. CASE r.step \in Plain
    BY <2>1 DEF Prepared, Plain, Unmade, Undoing
  <2>2. CASE r.step \in Unmade /\ write[w].made = <<>>
    BY <2>2 DEF Prepared, Unmade, Undoing
  <2>3. CASE r.step \in {"create", "open!"} /\ write[w].made = <<>>
    BY <2>3 DEF Prepared, Unmade, Undoing, HasFile
  <2>4. CASE r.step = "open!" /\ write[w].step = "create"
    BY <1>1, <2>4 DEF Prepared, Unmade, Undoing
  <2>5. CASE r.step = "undoing" /\ write[w].made # <<>>
    BY <2>5 DEF Prepared, Unmade, Undoing
  <2> QED
    BY <2>1, <2>2, <2>3, <2>4, <2>5
<1> QED
  BY <1>2, <1>3, WriterKeeps

\* What a step changes on the disk leaves the others' objects where they are, but for the
\* file that is replaced.
Quiet(v, d, new) ==
  \A n \in Names :
    \/ new[n] = d[n]
    \/ \A m \in Names : new[n] # Own(v, m) /\ (d[n] # Own(v, m) \/ n = "config")

\* What is listed and prepared for an operation survives what is quiet for it.
LEMMA OthersKeep ==
  ASSUME WriteInv, NEW v \in Writers, NEW new, Quiet(v, disk, new)
  PROVE  Listed(v, write[v], new) /\ Prepared(v, write[v], new)
<1> DEFINE r == write[v]
<1>1. Listed(v, r, disk) /\ Prepared(v, r, disk)
  BY DEF WriteInv
<1>2. /\ "dir" \in Names /\ "file" \in Names /\ "config" \in Names /\ v \in Names
      /\ v # "dir" /\ v # "file" /\ v # "config"
  BY EntryNames
<1>3. \A n \in {"dir", "file", v} : (new[n] = Own(v, n)) <=> (disk[n] = Own(v, n))
  BY <1>2 DEF Quiet
<1>4. new["config"] = Own(v, v) => disk["config"] = Own(v, v)
  BY <1>2 DEF Quiet
<1> HIDE DEF r
<1>5. Listed(v, r, new)
  BY <1>1, <1>3, <1>4 DEF Listed
<1>6. r.step = "removing" => r.made # <<>> /\ r.made \in Chains(v)
  BY <1>1 DEF Listed, Prepared, Undoing
<1>7. r.step = "removing" =>
        new[r.made[Len(r.made)].name] = Own(v, r.made[Len(r.made)].name)
  <2>1. r.step = "removing" =>
          /\ r.made[Len(r.made)].name \in {"dir", "file", v}
          /\ disk[r.made[Len(r.made)].name] = Own(v, r.made[Len(r.made)].name)
    BY <1>1, <1>6, ChainEnds DEF Prepared
  <2> QED
    BY <2>1, <1>3
<1>8. Prepared(v, r, new)
  BY <1>1, <1>3, <1>4, <1>7 DEF Prepared
<1> QED
  BY <1>5, <1>8 DEF r

\* A step of one operation that changes something on the disk.
LEMMA MakerKeeps ==
  ASSUME WriteInv, NEW w \in Writers, NEW r \in WriteRecord, write' = [write EXCEPT ![w] = r],
         disk' \in [Names -> Objects], UNCHANGED <<foreign, rootSame, allowed>>,
         PlacedOn(disk'), Listed(w, r, disk'), Prepared(w, r, disk'),
         \A v \in Writers : v # w => Quiet(v, disk, disk')
  PROVE  WriteInv'
<1>1. WriteTypeOK'
  BY DEF WriteInv, WriteTypeOK, WriteRecord
<1>2. ASSUME NEW v \in Writers
      PROVE  Listed(v, write'[v], disk') /\ Prepared(v, write'[v], disk')
  <2>1. CASE v = w
    <3>1. write'[w] = r
      BY DEF WriteInv, WriteTypeOK
    <3> QED
      BY <2>1, <3>1
  <2>2. CASE v # w
    <3>1. write'[v] = write[v]
      BY <2>2 DEF WriteInv, WriteTypeOK
    <3>2. Quiet(v, disk, disk')
      BY <2>2
    <3>3. \A new : Quiet(v, disk, new) =>
                     Listed(v, write[v], new) /\ Prepared(v, write[v], new)
      BY OthersKeep
    <3> QED
      BY <3>1, <3>2, <3>3
  <2> QED
    BY <2>1, <2>2
<1> QED
  BY <1>1, <1>2 DEF WriteInv

\* A record with another step, and what holds of it.
LEMMA StepOnly ==
  ASSUME WriteTypeOK, NEW w \in Writers, NEW s \in Steps
  PROVE  LET r == [write[w] EXCEPT !.step = s]
         IN  /\ r \in WriteRecord /\ r.step = s /\ r.made = write[w].made
             /\ r.target = write[w].target
             /\ [write EXCEPT ![w].step = s] = [write EXCEPT ![w] = r]
<1>1. write[w] \in WriteRecord /\ write \in [Writers -> WriteRecord]
  BY DEF WriteTypeOK, WriteRecord
<1> QED
  BY <1>1 DEF WriteRecord

\* A step from one place to another, where nothing else changes.
LEMMA PlainGo ==
  ASSUME WriteInv, NEW w \in Writers, NEW s \in Steps, Go(w, s),
         UNCHANGED <<disk, foreign, rootSame>>, allowed' \in SUBSET Writers,
         write[w].step \notin {"saving", "unsaved"},
         \/ s \in Plain
         \/ s \in Unmade /\ write[w].made = <<>>
         \/ s \in {"create", "open!"} /\ write[w].made = <<>>
         \/ s = "open!" /\ write[w].step = "create"
         \/ s = "undoing" /\ write[w].made # <<>>
  PROVE  WriteInv'
<1> DEFINE r == [write[w] EXCEPT !.step = s]
<1>1. /\ r \in WriteRecord /\ r.step = s /\ r.made = write[w].made
      /\ [write EXCEPT ![w].step = s] = [write EXCEPT ![w] = r]
  BY StepOnly DEF WriteInv
<1>2. write' = [write EXCEPT ![w] = r]
  BY <1>1 DEF Go
<1> HIDE DEF r
<1> QED
  BY <1>1, <1>2, GoKeeps

\* A failure leads to the rollback of what has been made.
LEMMA RejectedKeeps ==
  ASSUME WriteInv, NEW w \in Writers, Rejected(w), UNCHANGED <<disk, foreign, rootSame>>,
         allowed' \in SUBSET Writers, write[w].step \notin {"saving", "unsaved"}
  PROVE  WriteInv'
<1>1. StepAfterFailure(w) \in Steps /\ Go(w, StepAfterFailure(w))
  BY DEF StepAfterFailure, Rejected, Steps
<1>2. \/ StepAfterFailure(w) \in Unmade /\ write[w].made = <<>>
      \/ StepAfterFailure(w) = "undoing" /\ write[w].made # <<>>
  BY DEF StepAfterFailure, Unmade
<1> HIDE DEF StepAfterFailure
<1> QED
  BY <1>1, <1>2, PlainGo

\* Steps between which nothing but the step changes.
LEMMA StepsKeep ==
  ASSUME WriteInv, NEW w \in Writers,
         \/ Fails(w) \/ Begin(w) \/ CommitReserved(w) \/ MkdirChecked(w) \/ CreateChecked(w)
         \/ WriteFile(w) \/ WriteEnds(w) \/ EnrollChecked(w) \/ EnrollEnds(w) \/ Rewrite(w)
         \/ RenameChecked(w) \/ Published(w)
  PROVE  WriteInv'
<1>1. /\ write[w].step \in Unmade => write[w].made = <<>>
      /\ allowed \in SUBSET Writers
  BY DEF WriteInv, Prepared, WriteTypeOK
<1>2. CASE Fails(w)
  <2>1. CASE At(w, "saving")
    <3> DEFINE r == [write[w] EXCEPT !.step = "unsaved"]
    <3>1. "unsaved" \in Steps
      BY DEF Steps
    <3>2. /\ r \in WriteRecord /\ r.step = "unsaved" /\ r.made = write[w].made
          /\ [write EXCEPT ![w].step = "unsaved"] = [write EXCEPT ![w] = r]
      BY <3>1, StepOnly DEF WriteInv
    <3>3. /\ write' = [write EXCEPT ![w] = r] /\ UNCHANGED <<disk, foreign, rootSame>>
          /\ allowed' \in SUBSET Writers
      BY <1>1, <1>2, <2>1, <3>2 DEF Fails, Go
    <3>4. Listed(w, write[w], disk)
      BY DEF WriteInv
    <3> HIDE DEF r
    <3>5. Listed(w, r, disk)
      BY <3>2, <3>4 DEF Listed
    <3>6. Prepared(w, r, disk)
      <4>1. write[w].made = <<>>
        BY <1>1, <2>1 DEF At, Unmade
      <4> QED
        BY <3>2, <4>1 DEF Prepared, Unmade, Undoing
    <3> QED
      BY <3>2, <3>3, <3>5, <3>6, WriterKeeps
  <2>2. CASE ~At(w, "saving")
    BY <1>1, <1>2, <2>2, RejectedKeeps DEF Fails, At, Ended
  <2> QED
    BY <2>1, <2>2
<1>3. CASE Begin(w)
  <2>1. Go(w, "looking") /\ "looking" \in Steps /\ "looking" \in Unmade /\ At(w, "none")
    BY <1>3 DEF Begin, Steps, Unmade
  <2> QED
    BY <1>1, <1>3, <2>1, PlainGo DEF Begin, At, Unmade
<1>4. CASE CommitReserved(w)
  <2>1. PICK s \in {"looking", "replace", "failed"} : Go(w, s)
    BY <1>4 DEF CommitReserved
  <2>2. s \in Steps /\ (s \in Plain \/ s \in Unmade)
    BY DEF Steps, Plain, Unmade, Undoing
  <2> QED
    BY <1>1, <1>4, <2>1, <2>2, PlainGo DEF CommitReserved, At, Unmade
<1>5. CASE MkdirChecked(w)
  <2>1. "mkdir!" \in Steps /\ "mkdir!" \in Unmade
    BY DEF Steps, Unobserved, Unmade
  <2> QED
    BY <1>1, <1>5, <2>1, PlainGo DEF MkdirChecked, At, Unmade
<1>6. CASE CreateChecked(w)
  <2>1. "open!" \in Steps
    BY DEF Steps, Unobserved
  <2> QED
    BY <1>1, <1>6, <2>1, PlainGo DEF CreateChecked, At
<1>7. CASE WriteFile(w) \/ Rewrite(w)
  <2>1. "written" \in Steps /\ "written" \in Plain
    BY DEF Steps, Plain, Unmade, Undoing
  <2> QED
    BY <1>1, <1>7, <2>1, PlainGo DEF WriteFile, Rewrite, At
<1>8. CASE WriteEnds(w)
  <2>1. "done" \in Steps /\ "done" \in Plain
    BY DEF Steps, Plain, Unmade, Undoing
  <2> QED
    BY <1>1, <1>8, <2>1, PlainGo DEF WriteEnds, At
<1>9. CASE EnrollChecked(w)
  <2>1. "prepared" \in Steps /\ "prepared" \in Plain
    BY DEF Steps, Plain, Unmade, Undoing
  <2> QED
    BY <1>1, <1>9, <2>1, PlainGo DEF EnrollChecked, At
<1>10. CASE EnrollEnds(w) \/ Published(w)
  <2>1. "done" \in Steps /\ "done" \in Plain
    BY DEF Steps, Plain, Unmade, Undoing
  <2>2. CASE Go(w, "done")
    BY <1>1, <1>10, <2>1, <2>2, PlainGo DEF EnrollEnds, Published, At
  <2>3. CASE Rejected(w)
    BY <1>1, <1>10, <2>3, RejectedKeeps DEF EnrollEnds, Published, At
  <2> QED
    BY <1>10, <2>2, <2>3 DEF EnrollEnds, Published
<1>11. CASE RenameChecked(w)
  <2>1. "rename!" \in Steps /\ "rename!" \in Plain
    BY DEF Steps, Plain, Unmade, Undoing, Unobserved
  <2> QED
    BY <1>1, <1>11, <2>1, PlainGo DEF RenameChecked, At
<1> QED
  BY <1>2, <1>3, <1>4, <1>5, <1>6, <1>7, <1>8, <1>9, <1>10, <1>11

\* Steps that remember what they found.
LEMMA RemembersKeeps ==
  ASSUME WriteInv, NEW w \in Writers,
         Reserve(w) \/ Locate(w) \/ Replace(w) \/ LocateAtomic(w)
  PROVE  WriteInv'
<1>1. /\ write[w].step \in Unmade => write[w].made = <<>>
      /\ allowed \in SUBSET Writers /\ write[w] \in WriteRecord
      /\ write \in [Writers -> WriteRecord]
      /\ disk["file"] \in Objects /\ disk["config"] \in Objects /\ disk["dir"] \in Objects
  BY EntryNames DEF WriteInv, Prepared, WriteTypeOK, WriteRecord
<1>2. NearestParent \in Objects
  BY <1>1, NamesDiffer DEF NearestParent
<1>3. CASE Reserve(w)
  <2> DEFINE r == [write[w] EXCEPT !.step = "reserved", !.target = disk["file"],
                                   !.reserved = NearestParent]
  <2>1. "reserved" \in Steps /\ "reserved" \in Unmade
    BY DEF Steps, Unmade
  <2>2. r \in WriteRecord /\ r.step = "reserved" /\ r.made = write[w].made
    BY <1>1, <1>2, <2>1 DEF WriteRecord
  <2>3. write' = [write EXCEPT ![w] = r]
    BY <1>1, <1>3 DEF Reserve, WriteRecord
  <2> HIDE DEF r
  <2> QED
    BY <1>1, <1>3, <2>1, <2>2, <2>3, GoKeeps DEF Reserve, At, Unmade
<1>4. CASE Locate(w)
  <2> DEFINE s == IF NearestParent = RootObject THEN "mkdir"
                  ELSE IF write[w].kind = "enroll" THEN "prepared" ELSE "create"
             r == [write[w] EXCEPT !.seen = NearestParent, !.step = s]
  <2>1. s \in Steps /\ (s \in Unmade \/ s \in Plain \/ s = "create")
    BY DEF Steps, Unmade, Plain, Undoing
  <2> HIDE DEF s
  <2>2. r \in WriteRecord /\ r.step = s /\ r.made = write[w].made
    BY <1>1, <1>2, <2>1 DEF WriteRecord
  <2>3. write' = [write EXCEPT ![w] = r]
    BY <1>1, <1>4 DEF Locate, WriteRecord, s
  <2> HIDE DEF r
  <2> QED
    BY <1>1, <1>4, <2>1, <2>2, <2>3, GoKeeps DEF Locate, At, Unmade
<1>5. CASE Replace(w)
  <2> DEFINE r == [write[w] EXCEPT !.step = "replacing", !.target = disk["file"]]
  <2>1. "replacing" \in Steps /\ "replacing" \in Plain
    BY DEF Steps, Unmade, Plain, Undoing
  <2>2. r \in WriteRecord /\ r.step = "replacing" /\ r.made = write[w].made
    BY <1>1, <2>1 DEF WriteRecord
  <2>3. write' = [write EXCEPT ![w] = r]
    BY <1>1, <1>5 DEF Replace, WriteRecord
  <2> HIDE DEF r
  <2>4. UNCHANGED <<disk, foreign, rootSame, allowed>> /\ write[w].step = "replace"
    BY <1>5 DEF Replace, At
  <2> QED
    BY <1>1, <2>1, <2>2, <2>3, <2>4, GoKeeps
<1>6. CASE LocateAtomic(w)
  <2> DEFINE r == [write[w] EXCEPT !.seen = disk["config"], !.step = "temporary"]
  <2>1. "temporary" \in Steps /\ "temporary" \in Unmade
    BY DEF Steps, Unmade
  <2>2. r \in WriteRecord /\ r.step = "temporary" /\ r.made = write[w].made
    BY <1>1, <2>1 DEF WriteRecord
  <2>3. write' = [write EXCEPT ![w] = r]
    BY <1>1, <1>6 DEF LocateAtomic, WriteRecord
  <2> HIDE DEF r
  <2> QED
    BY <1>1, <1>6, <2>1, <2>2, <2>3, GoKeeps DEF LocateAtomic, At, Unmade
<1> QED
  BY <1>3, <1>4, <1>5, <1>6

\* The rollback looks before it removes, removes what it saw, and takes that from its list.
LEMMA UndoLooksKeeps ==
  ASSUME WriteInv, NEW w \in Writers, UndoLooks(w)
  PROVE  WriteInv'
<1> DEFINE last == write[w].made[Len(write[w].made)]
           s == IF disk[last.name] = last.id /\ last.id # Nothing
                  THEN "removing" ELSE "undoFailed"
           r == [write[w] EXCEPT !.step = s]
<1>1. /\ Listed(w, write[w], disk) /\ write[w].made # <<>> /\ write[w].made \in Chains(w)
      /\ allowed \in SUBSET Writers
  BY DEF WriteInv, Prepared, Listed, UndoLooks, At, Undoing, WriteTypeOK
<1>2. /\ last.name \in {"dir", "file", w} /\ last.id \in {Nothing, Own(w, last.name)}
      /\ last.name = w <=> HasTemporary(w, write[w].made)
  BY <1>1, ChainEnds
<1>3. /\ s \in Steps /\ s \in {"removing", "undoFailed"}
      /\ s = "removing" => disk[last.name] = last.id /\ last.id # Nothing
  BY DEF Steps, Unobserved
<1>4. Go(w, s) /\ UNCHANGED <<disk, foreign, rootSame, allowed>> /\ write[w].step = "undoing"
  BY DEF UndoLooks, At, LastMade
<1> HIDE DEF s
<1>5. /\ r \in WriteRecord /\ r.step = s /\ r.made = write[w].made
      /\ write' = [write EXCEPT ![w] = r]
  BY <1>3, <1>4, StepOnly DEF WriteInv, Go
<1> HIDE DEF r
<1>6. Listed(w, r, disk)
  BY <1>1, <1>4, <1>5 DEF Listed
<1>7. s = "removing" => disk[last.name] = Own(w, last.name)
  BY <1>2, <1>3
<1>8. s = "removing" /\ HasTemporary(w, r.made) => disk["config"] # Own(w, w)
  BY <1>1, <1>2, <1>5, <1>7 DEF Listed
<1>9. r.made[Len(r.made)] = last
  BY <1>5
<1> HIDE DEF last
<1>10. Prepared(w, r, disk)
  BY <1>1, <1>3, <1>5, <1>7, <1>8, <1>9 DEF Prepared, Unmade, Undoing
<1> QED
  BY <1>1, <1>4, <1>5, <1>6, <1>10, WriterKeeps

\* What is verified to be gone leaves the list.
LEMMA UndoVerifiesKeeps ==
  ASSUME WriteInv, NEW w \in Writers, UndoVerifies(w)
  PROVE  WriteInv'
<1> DEFINE made == write[w].made
           last == made[Len(made)]
           rest == SubSeq(made, 1, Len(made) - 1)
<1>1. /\ Listed(w, write[w], disk) /\ made # <<>> /\ made \in Chains(w)
      /\ HasTemporary(w, made) => disk["config"] # Own(w, w)
      /\ allowed \in SUBSET Writers /\ write[w].step = "removed"
      /\ UNCHANGED <<disk, foreign, rootSame, allowed>>
  BY DEF WriteInv, Prepared, Listed, UndoVerifies, At, Undoing, WriteTypeOK
<1>2. CASE disk[last.name] # Nothing
  <2>1. "undoFailed" \in Steps /\ "undoFailed" \in Plain
    BY DEF Steps, Plain, Unmade, Undoing
  <2>2. Go(w, "undoFailed")
    BY <1>2 DEF UndoVerifies, LastMade, Go
  <2> QED
    BY <1>1, <2>1, <2>2, PlainGo
<1>3. CASE disk[last.name] = Nothing
  <2> DEFINE s == IF rest # <<>> THEN "undoing"
                  ELSE IF write[w].exists THEN "replace" ELSE "failed"
             r == [write[w] EXCEPT !.step = s, !.made = rest]
  <2>1. /\ s \in Steps /\ s \in {"undoing", "replace", "failed"}
        /\ s = "undoing" <=> rest # <<>>
    BY DEF Steps
  <2>2. /\ last.name \in {"dir", "file", w}
        /\ rest \in Chains(w) /\ ~HasFile(rest) /\ ~HasTemporary(w, rest)
        /\ last.name = "file" => (HasDir(rest) <=> HasDir(made)) /\ ~HasTemporary(w, made)
        /\ last.name = "file" <=> HasFile(made)
        /\ last.name = "dir" <=> HasDir(made) /\ ~HasFile(made)
        /\ last.name = w <=> HasTemporary(w, made)
    BY <1>1, ChainEnds
  <2>3. write' = [write EXCEPT ![w] = r]
    BY <1>3 DEF UndoVerifies, LastMade, WriteInv, WriteTypeOK
  <2> HIDE DEF s, rest
  <2>4. r \in WriteRecord /\ r.step = s /\ r.made = rest
    <3>1. rest \in Seq([name : Names, id : Objects]) /\ write[w] \in WriteRecord
      BY <2>2, ChainsAre DEF WriteInv, WriteTypeOK, WriteRecord
    <3> QED
      BY <2>1, <3>1 DEF WriteRecord
  <2> HIDE DEF r, last
  <2>5. Own(w, "dir") # Nothing /\ Own(w, "file") # Nothing /\ Own(w, w) # Nothing
    BY EntryNames, NamesDiffer
  <2>6. Listed(w, r, disk)
    <3>1. disk["dir"] = Own(w, "dir") => HasDir(rest)
      BY <1>1, <1>3, <2>2, <2>5, EntryNames DEF Listed, HasDir, HasTemporary
    <3>2. disk["file"] # Own(w, "file")
      BY <1>1, <1>3, <2>2, <2>5 DEF Listed
    <3>3. disk[w] # Own(w, w) /\ disk["config"] # Own(w, w)
      BY <1>1, <1>3, <2>2, <2>5 DEF Listed
    <3> QED
      BY <2>2, <2>4, <3>1, <3>2, <3>3 DEF Listed
  <2>7. Prepared(w, r, disk)
    BY <2>1, <2>4 DEF Prepared, Unmade, Undoing
  <2> QED
    BY <1>1, <2>3, <2>4, <2>6, <2>7, WriterKeeps
<1> QED
  BY <1>2, <1>3

\* What the rollback removes is what its operation put there.
LEMMA UndoRemovesKeeps ==
  ASSUME WriteInv, NEW w \in Writers, UndoRemoves(w)
  PROVE  WriteInv'
<1> DEFINE made == write[w].made
           name == made[Len(made)].name
           r == [write[w] EXCEPT !.step = "removed"]
<1>1. /\ Listed(w, write[w], disk) /\ made # <<>> /\ made \in Chains(w)
      /\ HasTemporary(w, made) => disk["config"] # Own(w, w)
      /\ disk[name] = Own(w, name)
      /\ allowed \in SUBSET Writers /\ write[w].step = "removing"
      /\ UNCHANGED <<foreign, rootSame, allowed>>
      /\ disk \in [Names -> Objects] /\ PlacedOn(disk)
  BY DEF WriteInv, Prepared, Listed, UndoRemoves, At, Undoing, WriteTypeOK
<1>2. CASE Go(w, "undoFailed") /\ UNCHANGED disk
  <2>1. "undoFailed" \in Steps /\ "undoFailed" \in Plain
    BY DEF Steps, Plain, Unmade, Undoing
  <2> QED
    BY <1>1, <1>2, <2>1, PlainGo
<1>3. CASE disk' = [disk EXCEPT ![name] = Nothing] /\ Go(w, "removed")
  <2>1. "removed" \in Steps
    BY DEF Steps
  <2>2. /\ r \in WriteRecord /\ r.step = "removed" /\ r.made = made
        /\ write' = [write EXCEPT ![w] = r]
    BY <1>3, <2>1, StepOnly DEF WriteInv, Go
  <2>3. name \in Names /\ name \in {"dir", "file", w}
    BY <1>1, ChainEnds, EntryNames
  <2> HIDE DEF r, name
  <2>4. \A n \in Names : disk'[n] = IF n = name THEN Nothing ELSE disk[n]
    BY <1>1, <1>3
  <2>5. disk' \in [Names -> Objects]
    BY <1>1, <1>3, NamesDiffer
  <2>6. ASSUME NEW v \in Writers, NEW n \in Names, NEW m \in Names, disk'[n] = Own(v, m)
        PROVE  disk[n] = Own(v, m)
    BY <2>4, <2>6, NamesDiffer
  <2>7. PlacedOn(disk')
    BY <1>1, <2>6 DEF PlacedOn
  <2>8. Listed(w, r, disk')
    BY <1>1, <2>2, <2>6, EntryNames DEF Listed
  <2>9. Prepared(w, r, disk')
    BY <1>1, <2>2, <2>6, EntryNames DEF Prepared, Unmade, Undoing
  <2>10. ASSUME NEW v \in Writers, v # w PROVE Quiet(v, disk, disk')
    <3>1. \A m \in Names : Own(w, name) # Own(v, m) /\ Nothing # Own(v, m)
      BY <2>3, <2>10, NamesDiffer
    <3> QED
      BY <1>1, <2>4, <3>1 DEF Quiet
  <2> QED
    BY <1>1, <2>2, <2>5, <2>7, <2>8, <2>9, <2>10, MakerKeeps
<1> QED
  BY <1>2, <1>3 DEF UndoRemoves, LastMade

\* What is put where nothing stood, or where its maker's name is, disturbs no other.
LEMMA PutIsQuiet ==
  ASSUME WriteInv, NEW w \in Writers, NEW name \in Names,
         name = w \/ (name \in {"dir", "file"} /\ disk[name] = Nothing),
         disk' = [disk EXCEPT ![name] = Own(w, name)]
  PROVE  /\ disk' \in [Names -> Objects] /\ PlacedOn(disk')
         /\ \A n \in Names : disk'[n] = IF n = name THEN Own(w, name) ELSE disk[n]
         /\ \A v \in Writers : v # w => Quiet(v, disk, disk')
<1>1. disk \in [Names -> Objects] /\ PlacedOn(disk)
  BY DEF WriteInv, WriteTypeOK
<1>2. \A n \in Names : disk'[n] = IF n = name THEN Own(w, name) ELSE disk[n]
  BY <1>1
<1>3. disk' \in [Names -> Objects]
  BY <1>1, NamesDiffer
<1>4. PlacedOn(disk')
  <2> SUFFICES ASSUME NEW n \in Names, NEW v \in Writers, NEW m \in Names, disk'[n] = Own(v, m)
               PROVE  (n \in {"dir", "file"} /\ m = n) \/ (n \in {v, "config"} /\ m = v)
    BY DEF PlacedOn
  <2>1. CASE n = name
    BY <1>2, <2>1, NamesDiffer
  <2>2. CASE n # name
    BY <1>1, <1>2, <2>2 DEF PlacedOn
  <2> QED
    BY <2>1, <2>2
<1>5. ASSUME NEW v \in Writers, v # w PROVE Quiet(v, disk, disk')
  <2>1. \A m \in Names : Own(w, name) # Own(v, m) /\ Nothing # Own(v, m)
    BY <1>5, NamesDiffer
  <2>2. \A m \in Names : disk[name] # Own(v, m)
    <3>1. CASE name = w
      BY <1>1, <1>5, <3>1, EntryNames DEF PlacedOn
    <3>2. CASE name # w
      BY <2>1, <3>2
    <3> QED
      BY <3>1, <3>2
  <2> QED
    BY <1>2, <2>1, <2>2 DEF Quiet
<1> QED
  BY <1>2, <1>3, <1>4, <1>5

\* A directory made is on the list before it is identified.
LEMMA MkdirKeeps ==
  ASSUME WriteInv, NEW w \in Writers, Mkdir(w)
  PROVE  WriteInv'
<1> DEFINE entry == [name |-> "dir", id |-> Nothing]
           r == [write[w] EXCEPT !.step = "made", !.made = Append(@, entry)]
<1>1. /\ Listed(w, write[w], disk) /\ write[w].made = <<>> /\ write[w].step = "mkdir!"
      /\ allowed \in SUBSET Writers /\ UNCHANGED <<foreign, rootSame, allowed>>
      /\ write[w] \in WriteRecord /\ write \in [Writers -> WriteRecord]
  BY DEF WriteInv, Prepared, Listed, Mkdir, At, Unmade, WriteTypeOK, WriteRecord
<1>2. CASE disk["dir"] # Nothing
  BY <1>1, <1>2, RejectedKeeps DEF Mkdir
<1>3. CASE disk["dir"] = Nothing
  <2>1. entry \in Entries(w, "dir") /\ Append(<<>>, entry) = <<entry>> /\ entry.name = "dir"
    BY EntryParts, EntryNames, ShortLists
  <2>2. /\ <<entry>> # <<>> /\ Len(<<entry>>) = 1 /\ <<entry>>[1] = entry
        /\ <<entry>> \in Chains(w) /\ Append(write[w].made, entry) = <<entry>>
        /\ <<entry>> \in Seq([name : Names, id : Objects])
    BY <1>1, <2>1, ShortLists, ChainsAre
  <2>3. r.made = <<entry>> /\ r.step = "made" /\ r \in WriteRecord
    <3>1. "made" \in Steps
      BY DEF Steps, Unobserved
    <3> HIDE DEF entry
    <3> QED
      BY <1>1, <2>2, <3>1 DEF WriteRecord
  <2>4. write' = [write EXCEPT ![w] = r] /\ disk' = [disk EXCEPT !["dir"] = Own(w, "dir")]
    BY <1>1, <1>3 DEF Mkdir, WriteRecord
  <2>5. /\ disk' \in [Names -> Objects] /\ PlacedOn(disk')
        /\ \A n \in Names : disk'[n] = IF n = "dir" THEN Own(w, "dir") ELSE disk[n]
        /\ \A v \in Writers : v # w => Quiet(v, disk, disk')
    BY <1>3, <2>4, EntryNames, PutIsQuiet
  <2> HIDE DEF r
  <2>6. Listed(w, r, disk')
    <3>1. HasDir(r.made)
      BY <2>1, <2>2, <2>3 DEF HasDir
    <3>2. ~HasFile(write[w].made) /\ ~HasTemporary(w, write[w].made)
      BY <1>1 DEF HasFile, HasTemporary
    <3>3. /\ disk'["file"] = disk["file"] /\ disk'["config"] = disk["config"]
          /\ disk'[w] = disk[w]
      BY <2>5, EntryNames
    <3> QED
      BY <1>1, <2>2, <2>3, <3>1, <3>2, <3>3 DEF Listed
  <2>7. Prepared(w, r, disk')
    <3>1. disk'["dir"] = Own(w, "dir")
      BY <2>5, EntryNames
    <3> QED
      BY <2>3, <3>1 DEF Prepared, Unmade, Undoing
  <2> QED
    BY <1>1, <2>3, <2>4, <2>5, <2>6, <2>7, MakerKeeps
<1> QED
  BY <1>2, <1>3

\* So is a file that was opened exclusively.
LEMMA OpenKeeps ==
  ASSUME WriteInv, NEW w \in Writers, Open(w)
  PROVE  WriteInv'
<1> DEFINE more == Append(write[w].made, [name |-> "file", id |-> Nothing])
<1>1. /\ Listed(w, write[w], disk) /\ write[w].step = "open!" /\ write[w].made \in Chains(w)
      /\ write[w].made = <<>> \/ (HasDir(write[w].made) /\ ~HasFile(write[w].made))
      /\ allowed \in SUBSET Writers /\ UNCHANGED <<foreign, rootSame, allowed>>
      /\ write[w] \in WriteRecord /\ write \in [Writers -> WriteRecord]
  BY DEF WriteInv, Prepared, Listed, Open, At, WriteTypeOK, WriteRecord
<1>2. CASE disk["file"] # Nothing
  <2> DEFINE x == write[w].kind = "create-or-replace"
             s == IF write[w].kind = "create-or-replace" /\ write[w].made = <<>>
                               THEN "replace" ELSE StepAfterFailure(w)
             r == [write[w] EXCEPT !.exists = x, !.step = s]
  <2>1. /\ s \in Steps
        /\ \/ s \in Plain
           \/ s \in Unmade /\ write[w].made = <<>>
           \/ s = "undoing" /\ write[w].made # <<>>
    BY DEF Steps, StepAfterFailure, Unmade, Plain, Undoing
  <2>2. x \in BOOLEAN
    OBVIOUS
  <2>3. write' = [write EXCEPT ![w] = r] /\ UNCHANGED disk
    BY <1>1, <1>2 DEF Open, WriteRecord
  <2> HIDE DEF s, x
  <2>4. r \in WriteRecord /\ r.step = s /\ r.made = write[w].made
    BY <1>1, <2>1, <2>2 DEF WriteRecord
  <2> HIDE DEF r
  <2> QED
    BY <1>1, <2>1, <2>3, <2>4, GoKeeps
<1>3. CASE disk["file"] = Nothing
  <2> DEFINE r == [write[w] EXCEPT !.step = "opened", !.target = Own(w, "file"), !.made = more]
  <2>1. /\ more \in Chains(w) /\ more # <<>> /\ HasFile(more) /\ ~HasTemporary(w, more)
        /\ HasDir(write[w].made) => HasDir(more)
    BY <1>1, ChainGrows
  <2>2. write' = [write EXCEPT ![w] = r] /\ disk' = [disk EXCEPT !["file"] = Own(w, "file")]
    BY <1>1, <1>3 DEF Open, WriteRecord
  <2> HIDE DEF more
  <2>3. r \in WriteRecord /\ r.step = "opened" /\ r.made = more /\ r.target = Own(w, "file")
    <3>1. "opened" \in Steps /\ Own(w, "file") \in Objects
      BY NamesDiffer, EntryNames DEF Steps
    <3>2. more \in Seq([name : Names, id : Objects])
      BY <2>1, ChainsAre
    <3> QED
      BY <1>1, <3>1, <3>2 DEF WriteRecord
  <2>4. /\ disk' \in [Names -> Objects] /\ PlacedOn(disk')
        /\ \A n \in Names : disk'[n] = IF n = "file" THEN Own(w, "file") ELSE disk[n]
        /\ \A v \in Writers : v # w => Quiet(v, disk, disk')
    BY <1>3, <2>2, EntryNames, PutIsQuiet
  <2> HIDE DEF r
  <2>5. Listed(w, r, disk')
    <3>1. ~HasTemporary(w, write[w].made)
      BY <1>1, EntryNames DEF HasTemporary, HasDir
    <3>2. /\ disk'["dir"] = disk["dir"] /\ disk'["config"] = disk["config"]
          /\ disk'[w] = disk[w]
      BY <2>4, EntryNames
    <3> QED
      BY <1>1, <2>1, <2>3, <3>1, <3>2 DEF Listed
  <2>6. Prepared(w, r, disk')
    BY <2>1, <2>3 DEF Prepared, Unmade, Undoing
  <2> QED
    BY <1>1, <2>2, <2>3, <2>4, <2>5, <2>6, MakerKeeps
<1> QED
  BY <1>2, <1>3

\* A temporary file is not on the list until it is written.
LEMMA OpenTemporaryKeeps ==
  ASSUME WriteInv, NEW w \in Writers, OpenTemporary(w)
  PROVE  WriteInv'
<1> DEFINE r == [write[w] EXCEPT !.step = "saving"]
<1>1. /\ Listed(w, write[w], disk) /\ write[w].made = <<>> /\ write[w].step = "temporary"
      /\ allowed \in SUBSET Writers /\ UNCHANGED <<foreign, rootSame, allowed>>
  BY DEF WriteInv, Prepared, Listed, OpenTemporary, At, Unmade, WriteTypeOK
<1>2. CASE ~Verified(w)
  <2>1. "failed" \in Steps /\ "failed" \in Unmade
    BY DEF Steps, Unmade
  <2>2. Go(w, "failed") /\ UNCHANGED disk
    BY <1>2 DEF OpenTemporary
  <2> QED
    BY <1>1, <2>1, <2>2, PlainGo
<1>3. CASE Verified(w)
  <2>1. "saving" \in Steps
    BY DEF Steps
  <2>2. disk' = [disk EXCEPT ![w] = Own(w, w)] /\ Go(w, "saving")
    BY <1>3 DEF OpenTemporary
  <2>3. /\ r \in WriteRecord /\ r.step = "saving" /\ r.made = <<>>
        /\ write' = [write EXCEPT ![w] = r]
    BY <1>1, <2>1, <2>2, StepOnly DEF WriteInv, Go
  <2>4. /\ disk' \in [Names -> Objects] /\ PlacedOn(disk')
        /\ \A n \in Names : disk'[n] = IF n = w THEN Own(w, w) ELSE disk[n]
        /\ \A v \in Writers : v # w => Quiet(v, disk, disk')
    BY <2>2, EntryNames, PutIsQuiet
  <2> HIDE DEF r
  <2>5. Listed(w, r, disk')
    <3>1. /\ disk'["dir"] = disk["dir"] /\ disk'["config"] = disk["config"]
          /\ disk'["file"] = disk["file"]
      BY <2>4, EntryNames
    <3>2. ~HasTemporary(w, write[w].made)
      BY <1>1 DEF HasTemporary
    <3>3. disk["config"] # Own(w, w)
      BY <1>1, <3>2 DEF Listed
    <3> QED
      BY <1>1, <2>3, <3>1, <3>3 DEF Listed
  <2>6. Prepared(w, r, disk')
    BY <2>3 DEF Prepared, Unmade, Undoing
  <2> QED
    BY <1>1, <2>3, <2>4, <2>5, <2>6, MakerKeeps
<1> QED
  BY <1>2, <1>3

\* A rename moves the temporary file to the name it replaces.
LEMMA RenameKeeps ==
  ASSUME WriteInv, NEW w \in Writers, Rename(w)
  PROVE  WriteInv'
<1> DEFINE r == [write[w] EXCEPT !.step = "renamed"]
<1>1. /\ Listed(w, write[w], disk) /\ write[w].step = "rename!"
      /\ allowed \in SUBSET Writers /\ UNCHANGED <<foreign, rootSame, allowed>>
      /\ disk \in [Names -> Objects] /\ PlacedOn(disk)
  BY DEF WriteInv, Listed, Rename, At, WriteTypeOK
<1>2. CASE disk[w] = Nothing
  BY <1>1, <1>2, RejectedKeeps DEF Rename
<1>3. CASE disk[w] # Nothing
  <2>1. "renamed" \in Steps /\ "renamed" \in Plain
    BY DEF Steps, Plain, Unmade, Undoing
  <2>2. disk' = [disk EXCEPT !["config"] = disk[w], ![w] = Nothing] /\ Go(w, "renamed")
    BY <1>3 DEF Rename
  <2>3. /\ r \in WriteRecord /\ r.step = "renamed" /\ r.made = write[w].made
        /\ write' = [write EXCEPT ![w] = r]
    BY <2>1, <2>2, StepOnly DEF WriteInv, Go
  <2>4. /\ disk' \in [Names -> Objects]
        /\ \A n \in Names : disk'[n] = IF n = w THEN Nothing
                                       ELSE IF n = "config" THEN disk[w] ELSE disk[n]
    BY <1>1, <2>2, NamesDiffer, EntryNames
  <2>5. ASSUME NEW v \in Writers, NEW m \in Names, disk[w] = Own(v, m) PROVE v = w /\ m = w
    BY <1>1, <2>5, EntryNames DEF PlacedOn
  <2>6. PlacedOn(disk')
    <3> SUFFICES ASSUME NEW n \in Names, NEW v \in Writers, NEW m \in Names, disk'[n] = Own(v, m)
                 PROVE  (n \in {"dir", "file"} /\ m = n) \/ (n \in {v, "config"} /\ m = v)
      BY DEF PlacedOn
    <3>1. n # w
      BY <2>4, NamesDiffer
    <3>2. CASE n = "config"
      BY <2>4, <2>5, <3>1, <3>2
    <3>3. CASE n # "config"
      BY <1>1, <2>4, <3>1, <3>3 DEF PlacedOn
    <3> QED
      BY <3>2, <3>3
  <2> HIDE DEF r
  <2>7. Listed(w, r, disk')
    <3>1. /\ disk'["dir"] = disk["dir"] /\ disk'["file"] = disk["file"]
          /\ disk'["config"] = disk[w] /\ disk'[w] = Nothing /\ Nothing # Own(w, w)
      BY <2>4, EntryNames, NamesDiffer
    <3> QED
      BY <1>1, <2>3, <3>1 DEF Listed
  <2>8. Prepared(w, r, disk')
    BY <2>1, <2>3 DEF Prepared, Unmade, Undoing
  <2>9. ASSUME NEW v \in Writers, v # w PROVE Quiet(v, disk, disk')
    <3>1. \A m \in Names : Nothing # Own(v, m) /\ disk[w] # Own(v, m)
      BY <2>5, <2>9, NamesDiffer
    <3> QED
      BY <2>4, <3>1 DEF Quiet
  <2> QED
    BY <1>1, <2>3, <2>4, <2>6, <2>7, <2>8, <2>9, MakerKeeps
<1> QED
  BY <1>2, <1>3

\* What has been made gets its identity.
LEMMA IdentifyDirectoryKeeps ==
  ASSUME WriteInv, NEW w \in Writers, IdentifyDirectory(w)
  PROVE  WriteInv'
<1> DEFINE entry == [name |-> "dir", id |-> disk["dir"]]
           old == [name |-> "dir", id |-> Nothing]
           s == IF write[w].kind = "enroll" THEN "enrolled" ELSE "create"
           r == [write[w] EXCEPT !.made = <<entry>>, !.seen = disk["dir"], !.step = s]
<1>1. /\ Listed(w, write[w], disk) /\ write[w].made = <<old>>
      /\ disk["dir"] = Own(w, "dir") /\ disk["dir"] \in Objects
      /\ allowed \in SUBSET Writers /\ UNCHANGED <<disk, foreign, rootSame, allowed>>
      /\ write[w] \in WriteRecord /\ write \in [Writers -> WriteRecord]
  BY EntryNames DEF WriteInv, Prepared, Listed, IdentifyDirectory, At, WriteTypeOK, WriteRecord
<1>2. entry \in Entries(w, "dir") /\ entry.name = "dir" /\ old.name = "dir"
  BY <1>1, EntryParts, EntryNames
<1>3. s \in Steps /\ s \in {"enrolled", "create"}
  BY DEF Steps
<1>4. write' = [write EXCEPT ![w] = r]
  BY <1>1 DEF IdentifyDirectory, WriteRecord
<1> HIDE DEF entry, s, old
<1>5. /\ <<entry>> # <<>> /\ Len(<<entry>>) = 1 /\ <<entry>>[1] = entry
      /\ <<entry>> \in Chains(w) /\ <<entry>> \in Seq([name : Names, id : Objects])
      /\ <<old>> # <<>> /\ Len(<<old>>) = 1 /\ <<old>>[1] = old
  BY <1>2, ShortLists, ChainsAre
<1>6. r \in WriteRecord /\ r.step = s /\ r.made = <<entry>>
  BY <1>1, <1>3, <1>5 DEF WriteRecord
<1> HIDE DEF r
<1>7. Listed(w, r, disk)
  <2>1. HasDir(r.made)
    BY <1>2, <1>5, <1>6 DEF HasDir
  <2>2. ~HasFile(write[w].made) /\ ~HasTemporary(w, write[w].made)
    BY <1>1, <1>2, <1>5, EntryNames DEF HasFile, HasTemporary
  <2>3. write[w].step = "made"
    BY DEF IdentifyDirectory, At
  <2> QED
    BY <1>1, <1>5, <1>6, <2>1, <2>2, <2>3 DEF Listed
<1>8. Prepared(w, r, disk)
  <2>1. HasDir(r.made) /\ ~HasFile(r.made)
    BY <1>2, <1>5, <1>6 DEF HasDir, HasFile
  <2> QED
    BY <1>3, <1>6, <2>1 DEF Prepared, Unmade, Undoing
<1> QED
  BY <1>1, <1>4, <1>6, <1>7, <1>8, WriterKeeps

\* A file is identified by its handle.
LEMMA IdentifyFileKeeps ==
  ASSUME WriteInv, NEW w \in Writers, IdentifyFile(w)
  PROVE  WriteInv'
<1> DEFINE made == write[w].made
           more == [made EXCEPT ![Len(made)].id = Own(w, "file")]
           r == [write[w] EXCEPT !.step = "writing", !.made = more]
<1>1. /\ Listed(w, write[w], disk) /\ HasFile(made) /\ write[w].target = Own(w, "file")
      /\ made \in Chains(w) /\ write[w].step = "opened"
      /\ allowed \in SUBSET Writers /\ UNCHANGED <<disk, foreign, rootSame, allowed>>
      /\ write[w] \in WriteRecord /\ write \in [Writers -> WriteRecord]
  BY DEF WriteInv, Prepared, Listed, IdentifyFile, At, WriteTypeOK, WriteRecord
<1>2. /\ more \in Chains(w) /\ more # <<>> /\ HasFile(more) /\ ~HasTemporary(w, more)
      /\ HasDir(made) => HasDir(more)
  BY <1>1, ChainIdentified
<1>3. write' = [write EXCEPT ![w] = r]
  BY <1>1 DEF IdentifyFile, WriteRecord
<1> HIDE DEF more
<1>4. r \in WriteRecord /\ r.step = "writing" /\ r.made = more
  <2>1. "writing" \in Steps
    BY DEF Steps
  <2>2. more \in Seq([name : Names, id : Objects])
    BY <1>2, ChainsAre
  <2> QED
    BY <1>1, <2>1, <2>2 DEF WriteRecord
<1> HIDE DEF r
<1>5. Listed(w, r, disk)
  <2>1. ~HasTemporary(w, made)
    BY <1>1, ChainEnds DEF HasTemporary, HasFile
  <2> QED
    BY <1>1, <1>2, <1>4, <2>1 DEF Listed
<1>6. Prepared(w, r, disk)
  BY <1>4 DEF Prepared, Unmade, Undoing
<1> QED
  BY <1>1, <1>3, <1>4, <1>5, <1>6, WriterKeeps

\* A temporary file that is written is identified with that.
LEMMA SaveTemporaryKeeps ==
  ASSUME WriteInv, NEW w \in Writers, SaveTemporary(w)
  PROVE  WriteInv'
<1> DEFINE entry == [name |-> w, id |-> Own(w, w)]
           r == [write[w] EXCEPT !.step = "rename", !.made = <<entry>>]
<1>1. /\ Listed(w, write[w], disk) /\ write[w].made = <<>>
      /\ allowed \in SUBSET Writers /\ UNCHANGED <<disk, foreign, rootSame, allowed>>
      /\ write[w] \in WriteRecord /\ write \in [Writers -> WriteRecord]
  BY DEF WriteInv, Prepared, Listed, SaveTemporary, At, Unmade, WriteTypeOK, WriteRecord
<1>2. entry \in Entries(w, w) /\ entry.name = w
  BY EntryParts, EntryNames
<1>3. write' = [write EXCEPT ![w] = r]
  BY <1>1 DEF SaveTemporary, WriteRecord
<1> HIDE DEF entry
<1>4. /\ <<entry>> # <<>> /\ Len(<<entry>>) = 1 /\ <<entry>>[1] = entry
      /\ <<entry>> \in Chains(w) /\ <<entry>> \in Seq([name : Names, id : Objects])
  BY <1>2, ShortLists, ChainsAre
<1>5. r \in WriteRecord /\ r.step = "rename" /\ r.made = <<entry>>
  <2>1. "rename" \in Steps
    BY DEF Steps
  <2> QED
    BY <1>1, <1>4, <2>1 DEF WriteRecord
<1> HIDE DEF r
<1>6. Listed(w, r, disk)
  <2>1. HasTemporary(w, r.made)
    BY <1>2, <1>4, <1>5 DEF HasTemporary
  <2>2. ~HasDir(write[w].made) /\ ~HasFile(write[w].made)
    BY <1>1 DEF HasDir, HasFile
  <2> QED
    BY <1>1, <1>4, <1>5, <2>1, <2>2 DEF Listed
<1>7. Prepared(w, r, disk)
  BY <1>5 DEF Prepared, Unmade, Undoing
<1> QED
  BY <1>1, <1>3, <1>5, <1>6, <1>7, WriterKeeps

\* What others change takes objects away, and not between a last look and the call that
\* relies on it.
LEMMA ForeignKeeps ==
  ASSUME WriteInv, ForeignChange \/ ForeignRoot
  PROVE  WriteInv'
<1>1. /\ \A w \in Writers : write[w].step \notin Unobserved
      /\ write' = write /\ allowed' = allowed /\ rootSame' \in BOOLEAN
      /\ foreign' = foreign + 1 /\ foreign < MaxForeign /\ foreign \in 0..MaxForeign
      /\ disk \in [Names -> Objects]
  BY DEF WriteInv, WriteTypeOK, ForeignChange, ForeignRoot
<1>2. foreign' \in 1..MaxForeign
  BY <1>1, WriteAssumption
<1>3. disk' \in [Names -> Objects]
      /\ \A n \in Names : disk'[n] \in {disk[n], Nothing, <<"user", foreign + 1>>}
  <2>1. CASE ForeignChange
    <3>1. PICK name \in Names, thing \in {Nothing, <<"user", foreign + 1>>} :
            disk' = [n \in Names |-> IF n = name THEN thing
                                     ELSE IF n = "file" /\ name = "dir" THEN Nothing ELSE disk[n]]
      BY <2>1 DEF ForeignChange
    <3>2. thing \in Objects /\ Nothing \in Objects
      BY <1>1, <1>2, NamesDiffer
    <3> QED
      BY <1>1, <3>1, <3>2
  <2>2. CASE ForeignRoot
    BY <2>2, NamesDiffer DEF ForeignRoot
  <2> QED
    BY <2>1, <2>2
<1>4. ASSUME NEW n \in Names, NEW v \in Writers, NEW m \in Names, disk'[n] = Own(v, m)
      PROVE  disk[n] = Own(v, m)
  <2>1. Own(v, m) # Nothing /\ Own(v, m) # <<"user", foreign + 1>>
    BY <1>1, <1>2, NamesDiffer
  <2> QED
    BY <1>3, <1>4, <2>1
<1>5. PlacedOn(disk')
  BY <1>4 DEF WriteInv, PlacedOn
<1>6. ASSUME NEW w \in Writers PROVE Listed(w, write'[w], disk') /\ Prepared(w, write'[w], disk')
  <2>1. Listed(w, write[w], disk) /\ Prepared(w, write[w], disk)
    BY DEF WriteInv
  <2>2. write[w].step \notin {"made", "removing"}
    BY <1>1 DEF Unobserved
  <2>3. Listed(w, write[w], disk')
    BY <1>4, <2>1, EntryNames DEF Listed
  <2>4. Prepared(w, write[w], disk')
    BY <1>4, <2>1, <2>2, EntryNames DEF Prepared
  <2> QED
    BY <1>1, <2>3, <2>4
<1>7. WriteTypeOK'
  <2>1. foreign' \in 0..MaxForeign
    BY <1>2, WriteAssumption
  <2>2. write' \in [Writers -> WriteRecord] /\ allowed' \in SUBSET Writers
    BY <1>1 DEF WriteInv, WriteTypeOK, WriteRecord
  <2> QED
    BY <1>1, <1>3, <2>1, <2>2 DEF WriteTypeOK, WriteRecord
<1> QED
  BY <1>5, <1>6, <1>7 DEF WriteInv

\* Nothing is made and nothing on the disk at first.
LEMMA WriteInitially == WriteInit => WriteInv
<1> SUFFICES ASSUME WriteInit PROVE WriteInv
  OBVIOUS
<1>1. /\ "none" \in Steps /\ Nothing \in Objects /\ <<>> \in Seq([name : Names, id : Objects])
      /\ disk = [n \in Names |-> Nothing] /\ foreign = 0 /\ rootSame = TRUE /\ allowed = Writers
  BY NamesDiffer DEF Steps, WriteInit
<1>2. /\ write \in [Writers -> WriteRecord]
      /\ \A w \in Writers : write[w].step = "none" /\ write[w].made = <<>>
  <2> DEFINE First == [kind : WriteKinds, step : {"none"}, seen : {Nothing}, reserved : {Nothing},
                       target : {Nothing}, exists : {FALSE}, made : {<<>>}]
  <2>1. \A r \in First : r \in WriteRecord /\ r.step = "none" /\ r.made = <<>>
    BY <1>1 DEF WriteRecord
  <2>2. write \in [Writers -> First]
    BY DEF WriteInit
  <2> HIDE DEF First
  <2> QED
    BY <2>1, <2>2
<1>3. WriteTypeOK
  BY <1>1, <1>2, WriteAssumption DEF WriteTypeOK, WriteRecord
<1>4. PlacedOn(disk)
  BY <1>1, NamesDiffer DEF PlacedOn
<1>5. ASSUME NEW w \in Writers PROVE Listed(w, write[w], disk) /\ Prepared(w, write[w], disk)
  <2>1. \A n, m \in Names : disk[n] # Own(w, m)
    BY <1>1, NamesDiffer
  <2>2. Listed(w, write[w], disk)
    BY <1>2, <2>1, EntryNames, ChainsAre DEF Listed
  <2>3. Prepared(w, write[w], disk)
    BY <1>2 DEF Prepared, Unmade, Undoing
  <2> QED
    BY <2>2, <2>3
<1> QED
  BY <1>3, <1>4, <1>5 DEF WriteInv

\* The invariant is kept by every step.
LEMMA WriteInvariance == WriteSpec => []WriteInv
<1>1. WriteInv /\ [WriteNext]_writeVars => WriteInv'
  <2> SUFFICES ASSUME WriteInv, [WriteNext]_writeVars PROVE WriteInv'
    OBVIOUS
  <2>1. CASE UNCHANGED writeVars
    BY <2>1 DEF writeVars, WriteInv, WriteTypeOK
  <2>2. CASE Revoke
    BY <2>2 DEF Revoke, WriteInv, WriteTypeOK
  <2>3. CASE ForeignChange \/ ForeignRoot
    BY <2>3, ForeignKeeps
  <2>4. ASSUME NEW w \in Writers,
               \/ Fails(w) \/ Begin(w) \/ CommitReserved(w) \/ MkdirChecked(w) \/ CreateChecked(w)
               \/ WriteFile(w) \/ WriteEnds(w) \/ EnrollChecked(w) \/ EnrollEnds(w) \/ Rewrite(w)
               \/ RenameChecked(w) \/ Published(w)
        PROVE  WriteInv'
    BY <2>4, StepsKeep
  <2>5. ASSUME NEW w \in Writers, Reserve(w) \/ Locate(w) \/ Replace(w) \/ LocateAtomic(w)
        PROVE  WriteInv'
    BY <2>5, RemembersKeeps
  <2>6. ASSUME NEW w \in Writers, UndoLooks(w) \/ UndoRemoves(w) \/ UndoVerifies(w)
        PROVE  WriteInv'
    BY <2>6, UndoLooksKeeps, UndoRemovesKeeps, UndoVerifiesKeeps
  <2>7. ASSUME NEW w \in Writers, Mkdir(w) \/ Open(w) \/ OpenTemporary(w) \/ Rename(w)
        PROVE  WriteInv'
    BY <2>7, MkdirKeeps, OpenKeeps, OpenTemporaryKeeps, RenameKeeps
  <2>8. ASSUME NEW w \in Writers, IdentifyDirectory(w) \/ IdentifyFile(w) \/ SaveTemporary(w)
        PROVE  WriteInv'
    BY <2>8, IdentifyDirectoryKeeps, IdentifyFileKeeps, SaveTemporaryKeeps
  <2> QED
    BY <2>1, <2>2, <2>3, <2>4, <2>5, <2>6, <2>7, <2>8 DEF WriteNext
<1> QED
  BY <1>1, WriteInitially, PTL DEF WriteSpec

\* The state of every write keeps its type.
THEOREM WriteTypeCorrect == WriteSpec => []WriteTypeOK
<1>1. WriteInv => WriteTypeOK
  BY DEF WriteInv
<1> QED
  BY <1>1, WriteInvariance, PTL

\* What a failed write made is gone, but for a temporary file that could not be written or
\* synced (src/path-policy.ts:1672-1681), and what a rollback is about to remove is its own,
\* for any number of concurrent writes and of changes by others (#rollbackCreated,
\* src/path-policy.ts:2236).
THEOREM ConservativeRollbackHolds == WriteSpec => []ConservativeRollback
<1>1. WriteInv => ConservativeRollback
  <2> SUFFICES ASSUME WriteInv, NEW w \in Writers
               PROVE  /\ write[w].step \in {"failed", "unsaved"}
                           => \A n \in Names, m \in Names :
                                disk[n] = Own(w, m) => At(w, "unsaved") /\ n = w
                      /\ At(w, "removing") => disk[LastMade(w).name] \in {Nothing, Own(w, LastMade(w).name)}
    BY DEF ConservativeRollback
  <2>1. Listed(w, write[w], disk) /\ Prepared(w, write[w], disk) /\ PlacedOn(disk)
    BY DEF WriteInv
  <2>2. ASSUME write[w].step \in {"failed", "unsaved"}, NEW n \in Names, NEW m \in Names,
               disk[n] = Own(w, m)
        PROVE  At(w, "unsaved") /\ n = w
    <3>1. write[w].made = <<>> /\ write[w].step \in {"failed", "unsaved"}
      BY <2>1, <2>2 DEF Prepared, Unmade, At
    <3>2. ~HasDir(write[w].made) /\ ~HasFile(write[w].made) /\ ~HasTemporary(w, write[w].made)
      BY <3>1 DEF HasDir, HasFile, HasTemporary
    <3>3. \/ n \in {"dir", "file"} /\ m = n
          \/ n \in {w, "config"} /\ m = w
      BY <2>1, <2>2 DEF PlacedOn
    <3> QED
      BY <2>1, <2>2, <3>1, <3>2, <3>3 DEF Listed, At
  <2>3. At(w, "removing") => disk[LastMade(w).name] = Own(w, LastMade(w).name)
    BY <2>1 DEF Prepared, At, LastMade
  <2> QED
    BY <2>2, <2>3
<1> QED
  BY <1>1, WriteInvariance, PTL
=============================================================================
