---------------------------- MODULE ResourceOwner ----------------------------
(***************************************************************************)
(* One resource owner of src/resource-owner.ts: the closers registered     *)
(* with it, its retirement, which runs a snapshot of them concurrently,    *)
(* and the race between that drain and a deadline.  A closer may settle    *)
(* either way, at any time or never; the caller that registered a resource *)
(* may withdraw it at any time, from the moment of registration on.        *)
(***************************************************************************)
CONSTANT Resources     \* one id per registerOwnedResource

VARIABLES
  resource,     \* where the closer of each resource stands
  active,       \* ResourceOwnerRecord.active
  retiring,     \* ResourceOwnerRecord.retiring: the cleanup window is open
  retirement    \* the promise retireResourceOwner returned

vars == <<resource, active, retiring, retirement>>

\* The type invariant.
TypeOK ==
  /\ resource \in [Resources ->
       {"none", "registered", "withdrawn", "closing", "closed", "failed"}]
  /\ active \in BOOLEAN
  /\ retiring \in BOOLEAN
  /\ retirement \in {"none", "pending", "resolved", "rejected"}

\* issueResourceOwner
Init ==
  /\ resource = [r \in Resources |-> "none"]
  /\ active = TRUE
  /\ retiring = FALSE
  /\ retirement = "none"

\* registerOwnedResource
Register(r) ==
  /\ active
  /\ resource[r] = "none"
  /\ resource' = [resource EXCEPT ![r] = "registered"]
  /\ UNCHANGED <<active, retiring, retirement>>

\* The function registerOwnedResource returned; once the owner is retired the
\* closer is in its snapshot and withdrawing it has no effect.
Withdraw(r) ==
  /\ resource[r] = "registered"
  /\ resource' = [resource EXCEPT ![r] = "withdrawn"]
  /\ UNCHANGED <<active, retiring, retirement>>

\* retireResourceOwner; a second call returns the same retirement.
Retire ==
  /\ retirement = "none"
  /\ active' = FALSE
  /\ retiring' = TRUE
  /\ retirement' = "pending"
  /\ resource' = [r \in Resources |->
       IF resource[r] = "registered" THEN "closing" ELSE resource[r]]

CloserSettles(r) ==
  /\ resource[r] = "closing"
  /\ \E result \in {"closed", "failed"} :
       resource' = [resource EXCEPT ![r] = result]
  /\ UNCHANGED <<active, retiring, retirement>>

\* Fault: failures of closers are collected and dropped.
OutcomeIgnored == "resolved"

\* What the settled drain makes of its closers' results.
Outcome ==
  IF \E r \in Resources : resource[r] = "failed" THEN "rejected" ELSE "resolved"

\* Fault: a drain that ends late still settles the retirement.
DrainSettlesLate ==
  /\ retiring
  /\ \A r \in Resources : resource[r] # "closing"
  /\ retiring' = FALSE
  /\ retirement' = Outcome
  /\ UNCHANGED <<resource, active>>

\* allSettled, then the finally that closes the cleanup window; the retirement
\* follows unless the deadline settled it first.
DrainSettles ==
  /\ retiring
  /\ \A r \in Resources : resource[r] # "closing"
  /\ retiring' = FALSE
  /\ retirement' = IF retirement = "pending" THEN Outcome ELSE retirement
  /\ UNCHANGED <<resource, active>>

\* Fault: the deadline closes the cleanup window.
DeadlineEndsCleanup ==
  /\ retirement = "pending"
  /\ retirement' = "rejected"
  /\ retiring' = FALSE
  /\ UNCHANGED <<resource, active>>

\* Fault: the deadline is only looked at once the closers have settled.
DeadlineAfterClosers ==
  /\ retirement = "pending"
  /\ \A r \in Resources : resource[r] # "closing"
  /\ retirement' = "rejected"
  /\ UNCHANGED <<resource, active, retiring>>

\* The deadline timer.
Deadline ==
  /\ retirement = "pending"
  /\ retirement' = "rejected"
  /\ UNCHANGED <<resource, active, retiring>>

Next ==
  \/ Retire
  \/ DrainSettles
  \/ Deadline
  \/ \E r \in Resources : Register(r) \/ Withdraw(r) \/ CloserSettles(r)

\* The timer fires; nothing makes a closer settle.
Fairness == WF_vars(Deadline)

Spec == Init /\ [][Next]_vars

FairSpec == Spec /\ Fairness

-----------------------------------------------------------------------------
\* A retirement that resolves means that every resource ever registered was
\* withdrawn by its holder or closed without error; and once the owner is
\* retired no resource is left registered with nobody to close it
\* (retireResourceOwner's snapshot and clear, registerOwnedResource's check).
NothingLeftOpen ==
  /\ ~active => \A r \in Resources : resource[r] # "registered"
  /\ retirement = "resolved" =>
       \A r \in Resources : resource[r] \in {"none", "withdrawn", "closed"}

\* While a closer is running the cleanup window is open, deadline or not:
\* assertResourceOwnerForCleanup accepts the owner for as long as its closers
\* need it.
CleanupWindowOpen ==
  (\E r \in Resources : resource[r] = "closing") => retiring

\* A retirement settles even if every closer hangs.
RetirementSettles == ~active ~> retirement \in {"resolved", "rejected"}

\* The phase an onlooker of the retirement sees.
PhaseNow ==
  IF active THEN "live"
  ELSE IF retirement = "resolved" THEN "released"
  ELSE IF retirement = "rejected" THEN (IF retiring THEN "overdue" ELSE "failed")
  ELSE "draining"

Lifecycle == INSTANCE OwnerLifecycle WITH phase <- PhaseNow

\* The owner implements the lifecycle the broker relies on.
ImplementsLifecycle == Lifecycle!Spec
=============================================================================
