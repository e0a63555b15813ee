------------------------- MODULE ManualConsentProofs -------------------------
(* The safety of ManualConsent for any number of requests, decisions,       *)
(* sessions and authorities.                                                *)
EXTENDS ManualConsent, FiniteSetTheorems, TLAPS

RuntimeRecord ==
  [authority : Authorities \cup {None}, session : Sessions \cup {None},
   retired : SUBSET Authorities, incarnation : Incarnations,
   stage : {"idle", "preparing", "retiring", "published"},
   target : Sessions \cup {None}, next : Authorities \cup {None},
   accepting : BOOLEAN]

\* A replacement under way has the authority it will publish.
RuntimeFormed ==
  runtime.stage = "retiring" => runtime.next \in Authorities

TypeInv == TypeOK /\ RuntimeFormed

\* What can be issued is a binding.
LEMMA CurrentBindingType ==
  ASSUME TypeOK, CanIssue
  PROVE  CurrentBinding \in Bindings
  BY DEF TypeOK, CanIssue, CurrentBinding, Bindings

\* Consuming challenges leaves entries.
LEMMA ConsumedType ==
  ASSUME entry \in [Requests -> Entries], NEW R,
         NEW state \in {"expired", "replayed"}
  PROVE  Consumed(R, state) \in [Requests -> Entries]
<1>1. Closed(state) \in Entries
  BY DEF Entries
<1> QED
  BY <1>1 DEF Consumed

\* So does marking a pending challenge late, or as being consumed.
LEMMA PendingUpdates ==
  ASSUME NEW q \in Entries, q.state = "pending"
  PROVE  /\ [q EXCEPT !.late = TRUE] \in Entries
         /\ [q EXCEPT !.state = "consuming"] \in Entries
<1>1. q \in [state : {"pending", "consuming"}, args : Arguments,
             binding : Bindings, late : BOOLEAN]
  BY DEF Entries, Closed
<1> QED
  BY <1>1 DEF Entries

\* A decision that is over is one.
LEMMA OverType ==
  ASSUME TypeOK, NEW d \in Decisions, decision[d].stage \in {"bound", "running"},
         Over(d)
  PROVE  decision' \in [Decisions -> Deciding]
<1>1. decision[d] \in Deciding
  BY DEF TypeOK
<1>2. decision[d].request \in Requests /\ decision[d].ranIn \in Bindings \cup {None}
  BY <1>1 DEF Deciding
<1>3. [stage |-> "over", request |-> decision[d].request, args |-> None,
       approve |-> FALSE, binding |-> None, ranIn |-> decision[d].ranIn] \in Deciding
  BY <1>2 DEF Deciding
<1> QED
  BY <1>3 DEF Over, TypeOK

\* What a withdrawal of all consent makes of the runtime is a runtime.
LEMMA SwitchBeginType ==
  ASSUME TypeInv, NEW s \in Sessions \cup {None}, SwitchBegin(s)
  PROVE  runtime' \in RuntimeRecord /\ RuntimeFormed'
<1>1. runtime \in RuntimeRecord
  BY DEF TypeInv, TypeOK, RuntimeRecord
<1>2. runtime.incarnation + 1 \in Incarnations
  BY <1>1, MaxIncarnationAssumption DEF RuntimeRecord, SwitchBegin, Incarnations
<1>3. ASSUME NEW q \in RuntimeRecord, NEW i \in Incarnations
      PROVE  LET n == [q EXCEPT !.stage = "preparing", !.target = s, !.incarnation = i]
             IN n \in RuntimeRecord /\ n.stage = "preparing"
  BY DEF RuntimeRecord
<1> QED
  BY <1>1, <1>2, <1>3 DEF SwitchBegin, RuntimeFormed

LEMMA ShutdownType ==
  ASSUME TypeInv, Shutdown
  PROVE  runtime' \in RuntimeRecord /\ RuntimeFormed'
<1>1. runtime \in RuntimeRecord /\ RuntimeFormed
  BY DEF TypeInv, TypeOK, RuntimeRecord
<1>2. PICK i \in Incarnations, R \in SUBSET Authorities :
        runtime' = [runtime EXCEPT !.accepting = FALSE, !.incarnation = i,
                                   !.retired = R, !.authority = None]
  <2>1. /\ runtime.incarnation + 1 \in Incarnations
        /\ runtime.retired \cup ({runtime.authority} \ {None}) \in SUBSET Authorities
    BY <1>1, MaxIncarnationAssumption DEF RuntimeRecord, Shutdown, Incarnations
  <2> QED
    BY <2>1 DEF Shutdown
<1>3. /\ runtime' \in RuntimeRecord
      /\ runtime'.stage = runtime.stage /\ runtime'.next = runtime.next
  BY <1>1, <1>2 DEF RuntimeRecord
<1> QED
  BY <1>1, <1>3 DEF RuntimeFormed

\* So is what a replacement makes of it.
LEMMA SwitchPreparedType ==
  ASSUME TypeInv, NEW a \in Authorities, SwitchPrepared(a)
  PROVE  runtime' \in RuntimeRecord /\ RuntimeFormed'
<1>1. runtime \in RuntimeRecord
  BY DEF TypeInv, TypeOK, RuntimeRecord
<1>2. runtime.retired \cup ({runtime.authority} \ {None}) \in SUBSET Authorities
  BY <1>1 DEF RuntimeRecord
<1>3. ASSUME NEW q \in RuntimeRecord, NEW R \in SUBSET Authorities
      PROVE  /\ LET n == [q EXCEPT !.stage = "retiring", !.next = a, !.retired = R]
                IN n \in RuntimeRecord /\ n.next = a
             /\ LET n == [q EXCEPT !.stage = "idle", !.target = None]
                IN n \in RuntimeRecord /\ n.stage = "idle"
  BY DEF RuntimeRecord
<1> QED
  BY <1>1, <1>2, <1>3, ZenonT(60) DEF SwitchPrepared, RuntimeFormed

LEMMA SwitchPublishType ==
  ASSUME TypeInv, SwitchPublish
  PROVE  runtime' \in RuntimeRecord /\ RuntimeFormed'
<1>1. runtime \in RuntimeRecord /\ runtime.next \in Authorities
  BY DEF TypeInv, TypeOK, RuntimeRecord, RuntimeFormed, SwitchPublish
<1>2. PICK a \in Authorities, R \in SUBSET Authorities :
        \/ runtime' = [runtime EXCEPT !.stage = "published", !.authority = a,
                                      !.next = None]
        \/ runtime' = [runtime EXCEPT !.stage = "idle", !.authority = None,
                                      !.retired = R, !.next = None, !.target = None]
  <2>1. runtime.retired \cup {runtime.next} \in SUBSET Authorities
    BY <1>1 DEF RuntimeRecord
  <2> QED
    BY <1>1, <2>1 DEF SwitchPublish
<1>3. CASE runtime' = [runtime EXCEPT !.stage = "published", !.authority = a,
                                      !.next = None]
  BY <1>1, <1>3 DEF RuntimeRecord, RuntimeFormed
<1>4. CASE runtime' = [runtime EXCEPT !.stage = "idle", !.authority = None,
                                      !.retired = R, !.next = None, !.target = None]
  BY <1>1, <1>4 DEF RuntimeRecord, RuntimeFormed
<1> QED
  BY <1>2, <1>3, <1>4

\* Every step preserves the types.
LEMMA TypeInvNext == TypeInv /\ [Next]_vars => TypeInv'
<1> SUFFICES ASSUME TypeInv, [Next]_vars PROVE TypeInv'
  OBVIOUS
<1>0. TypeOK /\ RuntimeFormed
  BY DEF TypeInv
<1>a. runtime \in RuntimeRecord
  BY <1>0 DEF TypeOK, RuntimeRecord
<1>b. ASSUME runtime' \in RuntimeRecord, RuntimeFormed', present' \in BOOLEAN,
             prepare' \in [Requests -> Preparing], entry' \in [Requests -> Entries],
             decision' \in [Decisions -> Deciding], gone' \in SUBSET Requests,
             withdrawn' \in SUBSET Requests, moved' \in SUBSET Requests
      PROVE  TypeInv'
  BY <1>b DEF TypeInv, TypeOK, RuntimeRecord
<1>c. ASSUME Invalidate, Withdrawal
      PROVE  /\ entry' \in [Requests -> Entries]
             /\ withdrawn' \in SUBSET Requests /\ moved' \in SUBSET Requests
  BY <1>0, <1>c, ConsumedType DEF Invalidate, Withdrawal, TypeOK, Pending
<1>d. ASSUME UNCHANGED runtime PROVE runtime' \in RuntimeRecord /\ RuntimeFormed'
  BY <1>0, <1>a, <1>d DEF RuntimeFormed
<1>1. CASE UNCHANGED vars
  BY <1>0, <1>1, <1>b, <1>d DEF vars, TypeOK
<1>2. CASE WindowLost
  BY <1>0, <1>2, <1>b, <1>c, <1>d DEF WindowLost, TypeOK
<1>3. CASE WindowShown
  BY <1>0, <1>3, <1>b, <1>d DEF WindowShown, ghosts, TypeOK
<1>4. CASE Navigation
  BY <1>0, <1>4, <1>b, <1>c, <1>d DEF Navigation, TypeOK
<1>5. ASSUME NEW r \in Requests, NEW x \in Arguments, RequestStart(r, x)
      PROVE  TypeInv'
  <2>1. [stage |-> "qualifying", args |-> x, binding |-> None] \in Preparing
    BY DEF Preparing
  <2> QED
    BY <1>0, <1>5, <1>b, <1>d, <2>1 DEF RequestStart, ghosts, TypeOK
<1>6. ASSUME NEW r \in Requests, NEW x \in Arguments, RequestInput(r, x)
      PROVE  TypeInv'
  <2>1. [stage |-> "bound", args |-> x, binding |-> CurrentBinding] \in Preparing
    BY <1>0, <1>6, CurrentBindingType DEF Preparing, RequestInput
  <2> QED
    BY <1>0, <1>6, <1>b, <1>d, <2>1 DEF RequestInput, ghosts, TypeOK
<1>7. ASSUME NEW r \in Requests, QualificationEnds(r) PROVE TypeInv'
  <2>1. prepare[r].args \in Arguments
    BY <1>0, <1>7 DEF QualificationEnds, TypeOK, Preparing
  <2>2. CanIssue => [stage |-> "bound", args |-> prepare[r].args,
                     binding |-> CurrentBinding] \in Preparing
    BY <1>0, <2>1, CurrentBindingType DEF Preparing
  <2>3. [stage |-> "over", args |-> None, binding |-> None] \in Preparing
    BY DEF Preparing
  <2> QED
    BY <1>0, <1>7, <1>b, <1>d, <2>2, <2>3 DEF QualificationEnds, ghosts, TypeOK
<1>8. ASSUME NEW r \in Requests, Store(r) PROVE TypeInv'
  <2>1. Opened(prepare[r]) \in Entries
    BY <1>0, <1>8 DEF Store, TypeOK, Preparing, Opened, Entries
  <2>2. [stage |-> "over", args |-> None, binding |-> None] \in Preparing
    BY DEF Preparing
  <2>3. Consumed({q \in Pending : entry[q].late}, "expired") \in [Requests -> Entries]
    BY <1>0, ConsumedType DEF TypeOK
  <2>4. entry' \in [Requests -> Entries]
    BY <1>0, <1>8, <2>1, <2>3 DEF Store, TypeOK
  <2> QED
    BY <1>0, <1>8, <1>b, <1>d, <2>2, <2>4 DEF Store, ghosts, TypeOK
<1>9. ASSUME NEW r \in Requests, Expire(r) PROVE TypeInv'
  <2>1. entry[r] \in Entries /\ entry[r].state = "pending"
    BY <1>0, <1>9 DEF Expire, TypeOK
  <2>2. [entry[r] EXCEPT !.late = TRUE] \in Entries
    BY <2>1, PendingUpdates
  <2>3. entry' \in [Requests -> Entries]
    BY <1>0, <1>9, <2>2 DEF Expire, TypeOK
  <2> QED
    BY <1>0, <1>9, <1>b, <1>d, <2>3 DEF Expire, ghosts, TypeOK
<1>10. ASSUME NEW d \in Decisions, NEW r \in Requests, NEW x \in Arguments,
              NEW yes \in BOOLEAN, Answer(d, r, x, yes)
       PROVE  TypeInv'
  <2>1. [stage |-> "bound", request |-> r, args |-> x, approve |-> yes,
         binding |-> CurrentBinding, ranIn |-> None] \in Deciding
    BY <1>0, <1>10, CurrentBindingType DEF Deciding, Answer
  <2> QED
    BY <1>0, <1>10, <1>b, <1>d, <2>1 DEF Answer, ghosts, TypeOK
<1>11. ASSUME NEW d \in Decisions,
              DecideUnavailable(d) \/ DecideDenied(d) \/ ExecutionEnds(d)
       PROVE  TypeInv'
  <2>1. decision' \in [Decisions -> Deciding]
    BY <1>0, <1>11, OverType DEF DecideUnavailable, DecideDenied, ExecutionEnds
  <2>2. entry' \in [Requests -> Entries]
    BY <1>0, <1>11, ConsumedType
    DEF DecideUnavailable, DecideDenied, ExecutionEnds, TypeOK
  <2> QED
    BY <1>0, <1>11, <1>b, <1>d, <2>1, <2>2
    DEF DecideUnavailable, DecideDenied, ExecutionEnds, ghosts, TypeOK
<1>12. ASSUME NEW d \in Decisions, DecideRuns(d) PROVE TypeInv'
  <2> DEFINE r == decision[d].request
  <2>1. /\ r \in Requests /\ decision[d].args \in Arguments
        /\ decision[d].binding \in Bindings
    BY <1>0, <1>12 DEF DecideRuns, TypeOK, Deciding
  <2>2. CASE CanIssue
    <3>1. entry[r] \in Entries /\ entry[r].state = "pending"
      BY <1>0, <1>12, <2>1 DEF DecideRuns, TypeOK
    <3>2. [entry[r] EXCEPT !.state = "consuming"] \in Entries
      BY <3>1, PendingUpdates
    <3>3. entry' \in [Requests -> Entries]
      BY <1>0, <1>12, <2>2, <3>2 DEF DecideRuns, TypeOK
    <3>4. [stage |-> "running", request |-> r, args |-> decision[d].args,
           approve |-> TRUE, binding |-> decision[d].binding,
           ranIn |-> CurrentBinding] \in Deciding
      BY <1>0, <2>1, <2>2, CurrentBindingType DEF Deciding
    <3>5. decision' \in [Decisions -> Deciding]
      BY <1>0, <1>12, <2>2, <3>4 DEF DecideRuns, TypeOK
    <3> QED
      BY <1>0, <1>12, <1>b, <1>d, <3>3, <3>5 DEF DecideRuns, ghosts, TypeOK
  <2>3. CASE ~CanIssue
    <3>1. decision' \in [Decisions -> Deciding]
      BY <1>0, <1>12, <2>3, OverType DEF DecideRuns
    <3>2. entry' \in [Requests -> Entries]
      BY <1>0, <1>12, <2>3, ConsumedType DEF DecideRuns, TypeOK
    <3> QED
      BY <1>0, <1>12, <1>b, <1>d, <3>1, <3>2 DEF DecideRuns, ghosts, TypeOK
  <2> QED
    BY <2>2, <2>3
<1>13. ASSUME NEW s \in Sessions \cup {None}, SwitchBegin(s) PROVE TypeInv'
  BY <1>0, <1>13, <1>b, <1>c, SwitchBeginType DEF SwitchBegin, TypeOK
<1>14. CASE Shutdown
  BY <1>0, <1>14, <1>b, <1>c, ShutdownType DEF Shutdown, TypeOK
<1>15. ASSUME NEW a \in Authorities, SwitchPrepared(a) PROVE TypeInv'
  BY <1>0, <1>15, <1>b, SwitchPreparedType DEF SwitchPrepared, ghosts, TypeOK
<1>16. CASE SwitchPublish
  BY <1>0, <1>16, <1>b, SwitchPublishType DEF SwitchPublish, TypeOK
<1>17. CASE SwitchSession
  <2>1. runtime' \in RuntimeRecord /\ RuntimeFormed'
    BY <1>0, <1>a, <1>17 DEF SwitchSession, RuntimeRecord, RuntimeFormed
  <2> QED
    BY <1>0, <1>17, <1>b, <2>1 DEF SwitchSession, ghosts, TypeOK
<1> QED
  BY <1>1, <1>2, <1>3, <1>4, <1>5, <1>6, <1>7, <1>8, <1>9, <1>10, <1>11, <1>12,
     <1>13, <1>14, <1>15, <1>16, <1>17
  DEF Next, RequestNext, DecisionNext, WindowNext, RuntimeNext

LEMMA TypeInvariance == Spec => []TypeInv
<1>1. Init => TypeInv
  <2> SUFFICES ASSUME Init PROVE TypeInv
    OBVIOUS
  <2>1. 0 \in Incarnations
    BY MaxIncarnationAssumption DEF Incarnations
  <2>2. runtime \in RuntimeRecord /\ RuntimeFormed
    <3>1. PICK a \in Authorities, s \in Sessions :
            runtime = [authority |-> a, session |-> s, retired |-> {},
                       incarnation |-> 0, stage |-> "idle", target |-> None,
                       next |-> None, accepting |-> TRUE]
      BY DEF Init
    <3> QED
      BY <2>1, <3>1 DEF RuntimeRecord, RuntimeFormed
  <2>3. prepare \in [Requests -> Preparing] /\ entry \in [Requests -> Entries]
    BY DEF Init, Preparing, Entries
  <2>4. decision \in [Decisions -> Deciding]
    BY DEF Init, Deciding
  <2> QED
    BY <2>2, <2>3, <2>4 DEF Init, TypeInv, TypeOK, RuntimeRecord
<1> QED
  BY <1>1, TypeInvNext, PTL DEF Spec

\* Type correctness.
THEOREM TypeCorrect == Spec => []TypeOK
<1>1. TypeInv => TypeOK
  BY DEF TypeInv
<1> QED
  BY <1>1, TypeInvariance, PTL

-----------------------------------------------------------------------------
(* The ledger and the calls around it.                                     *)

RequestOf(d) == decision[d].request

\* A request that is not yet stored has no challenge, and one call stores it.
PreparedOnce ==
  \A r \in Requests : prepare[r].stage # "over" => entry[r].state = "none"

\* Decisions are about challenges that are, or were, in the ledger.
DecidesStored ==
  \A d \in Decisions :
    decision[d].stage # "idle" => entry[RequestOf(d)].state # "none"

\* What runs is being consumed, and what has run is consumed.
RunIsConsumed ==
  \A d \in Decisions : Ran(d) =>
    entry[RequestOf(d)].state = IF Running(d) THEN "consuming" ELSE "replayed"

ConsumingIsRun ==
  \A r \in Requests : entry[r].state = "consuming" =>
    \E d \in Decisions : Running(d) /\ RequestOf(d) = r

\* While a decision is on its way to the ledger, its challenge is either
\* withdrawn or the runtime is the one the decision was bound to.
BoundIsCurrent ==
  \A d \in Decisions : decision[d].stage = "bound" =>
    /\ runtime.stage # "published"
    /\ entry[RequestOf(d)].state = "pending" => decision[d].binding = CurrentBinding

WithdrawnIsConsumed == \A r \in withdrawn : entry[r].state = "replayed"

Ledger ==
  /\ PreparedOnce
  /\ DecidesStored
  /\ RunIsConsumed
  /\ ConsumingIsRun
  /\ BoundIsCurrent
  /\ WithdrawnIsConsumed
  /\ OneExecutionPerChallenge
  /\ ExecutesAsConfirmed

\* A decision has run only from its "running" stage on.
LEMMA RanStages ==
  ASSUME TypeOK, NEW d \in Decisions
  PROVE  /\ decision[d].stage \in {"idle", "bound"} => ~Ran(d)
         /\ Running(d) => Ran(d)
         /\ decision[d].stage # "idle" => RequestOf(d) \in Requests
  BY NoneIsNoBinding DEF TypeOK, Deciding, Ran, Running, RequestOf

\* Steps that leave the ledger and the decisions alone.
LEMMA QuietStep ==
  ASSUME Ledger, UNCHANGED <<entry, decision, withdrawn>>,
         \A r \in Requests : prepare'[r].stage # "over" => prepare[r].stage # "over",
         \A d \in Decisions : decision[d].stage = "bound" =>
           runtime'.stage # "published" /\ CurrentBinding' = CurrentBinding
  PROVE  Ledger'
<1>1. PreparedOnce'
  BY DEF Ledger, PreparedOnce
<1>2. DecidesStored' /\ RunIsConsumed' /\ ConsumingIsRun' /\ WithdrawnIsConsumed'
  BY DEF Ledger, DecidesStored, RunIsConsumed, ConsumingIsRun, WithdrawnIsConsumed,
         RequestOf, Ran, Running
<1>3. BoundIsCurrent'
  BY DEF Ledger, BoundIsCurrent, RequestOf
<1>4. OneExecutionPerChallenge' /\ ExecutesAsConfirmed'
  BY DEF Ledger, OneExecutionPerChallenge, ExecutesAsConfirmed, Ran, Running
<1> QED
  BY <1>1, <1>2, <1>3, <1>4 DEF Ledger

\* Steps that withdraw all consent.
LEMMA WithdrawalStep ==
  ASSUME TypeOK, Ledger, Invalidate, Withdrawal, UNCHANGED <<prepare, decision>>,
         runtime'.stage = "published" => runtime.stage = "published"
  PROVE  Ledger'
<1>1. \A r \in Requests :
        IF entry[r].state = "pending" THEN entry'[r].state = "replayed"
        ELSE entry'[r] = entry[r]
  BY DEF Invalidate, Consumed, Pending, Closed
<1>2. PreparedOnce'
  BY <1>1 DEF Ledger, PreparedOnce
<1>3. DecidesStored' /\ RunIsConsumed'
  BY <1>1, RanStages, ZenonT(60)
  DEF Ledger, DecidesStored, RunIsConsumed, RequestOf, Ran, Running, TypeOK, Deciding
<1>4. ConsumingIsRun'
  BY <1>1 DEF Ledger, ConsumingIsRun, RequestOf, Running
<1>5. BoundIsCurrent'
  BY <1>1, RanStages DEF Ledger, BoundIsCurrent, RequestOf
<1>6. WithdrawnIsConsumed'
  BY <1>1 DEF Ledger, WithdrawnIsConsumed, Withdrawal, Pending, TypeOK
<1>7. OneExecutionPerChallenge'
  BY DEF Ledger, OneExecutionPerChallenge, Ran
<1>8. ExecutesAsConfirmed'
  BY <1>1, RanStages
  DEF Ledger, ExecutesAsConfirmed, RunIsConsumed, RequestOf, Ran, Running
<1> QED
  BY <1>2, <1>3, <1>4, <1>5, <1>6, <1>7, <1>8 DEF Ledger

\* Making a challenge, and pruning what has expired.
LEMMA StoreStep ==
  ASSUME TypeOK, Ledger, NEW r \in Requests, Store(r)
  PROVE  Ledger'
<1>1. entry[r].state = "none"
  BY DEF Ledger, PreparedOnce, Store
<1>2. \A q \in Requests :
        \/ entry'[q] = entry[q]
        \/ entry[q].state = "pending" /\ entry'[q].state = "expired"
        \/ q = r /\ entry'[q].state = "pending"
  BY DEF Store, Consumed, Pending, Closed, Opened, TypeOK
<1>3. UNCHANGED <<runtime, decision, withdrawn>>
  BY DEF Store, ghosts
<1>4. prepare'[r].stage = "over" /\ \A q \in Requests \ {r} : prepare'[q] = prepare[q]
  BY DEF Store, TypeOK
<1>5. PreparedOnce'
  BY <1>2, <1>4 DEF Ledger, PreparedOnce
<1>6. DecidesStored' /\ RunIsConsumed'
  BY <1>1, <1>2, <1>3, RanStages
  DEF Ledger, DecidesStored, RunIsConsumed, RequestOf, Ran, Running
<1>7. ConsumingIsRun'
  BY <1>2, <1>3 DEF Ledger, ConsumingIsRun, RequestOf, Running
<1>8. BoundIsCurrent'
  BY <1>1, <1>2, <1>3, RanStages
  DEF Ledger, DecidesStored, BoundIsCurrent, RequestOf, CurrentBinding
<1>9. WithdrawnIsConsumed'
  BY <1>1, <1>2, <1>3 DEF Ledger, WithdrawnIsConsumed, TypeOK
<1>10. OneExecutionPerChallenge'
  BY <1>3 DEF Ledger, OneExecutionPerChallenge, Ran
<1>11. ExecutesAsConfirmed'
  BY <1>1, <1>2, <1>3, RanStages
  DEF Ledger, ExecutesAsConfirmed, RunIsConsumed, RequestOf, Ran, Running
<1> QED
  BY <1>5, <1>6, <1>7, <1>8, <1>9, <1>10, <1>11 DEF Ledger

\* A challenge gets too old.
LEMMA ExpireStep ==
  ASSUME TypeOK, Ledger, NEW r \in Requests, Expire(r)
  PROVE  Ledger'
<1>1. \A q \in Requests :
        /\ entry'[q].state = entry[q].state
        /\ entry[q].state = "consuming" => entry'[q] = entry[q]
  BY DEF Expire, TypeOK, Entries, Closed
<1>2. UNCHANGED <<runtime, prepare, decision, withdrawn>>
  BY DEF Expire, ghosts
<1>3. PreparedOnce' /\ WithdrawnIsConsumed'
  BY <1>1, <1>2 DEF Ledger, PreparedOnce, WithdrawnIsConsumed, TypeOK
<1>4. DecidesStored' /\ RunIsConsumed' /\ ConsumingIsRun'
  BY <1>1, <1>2, RanStages
  DEF Ledger, DecidesStored, RunIsConsumed, ConsumingIsRun, RequestOf, Ran, Running
<1>5. BoundIsCurrent'
  BY <1>1, <1>2, RanStages DEF Ledger, BoundIsCurrent, RequestOf, CurrentBinding
<1>6. OneExecutionPerChallenge'
  BY <1>2 DEF Ledger, OneExecutionPerChallenge, Ran
<1>7. ExecutesAsConfirmed'
  BY <1>1, <1>2, RanStages
  DEF Ledger, ExecutesAsConfirmed, RunIsConsumed, RequestOf, Ran, Running
<1> QED
  BY <1>3, <1>4, <1>5, <1>6, <1>7 DEF Ledger

\* A decision is bound to the current runtime.
LEMMA AnswerStep ==
  ASSUME TypeOK, Ledger, NEW d \in Decisions, NEW r \in Requests,
         NEW x \in Arguments, NEW yes \in BOOLEAN, Answer(d, r, x, yes)
  PROVE  Ledger'
<1>1. /\ ~Ran(d) /\ ~Running(d)
      /\ entry[r].state # "none" /\ runtime.stage # "published"
  BY RanStages DEF Answer, Running
<1>2. /\ decision'[d] = [stage |-> "bound", request |-> r, args |-> x,
             approve |-> yes, binding |-> CurrentBinding, ranIn |-> None]
      /\ \A e \in Decisions \ {d} : decision'[e] = decision[e]
  BY DEF Answer, TypeOK
<1>3. UNCHANGED <<runtime, prepare, entry, withdrawn>>
  BY DEF Answer, ghosts
<1>4. ~Ran(d)' /\ ~Running(d)'
  BY <1>2 DEF Ran, Running
<1>5. PreparedOnce' /\ WithdrawnIsConsumed'
  BY <1>3 DEF Ledger, PreparedOnce, WithdrawnIsConsumed
<1>6. DecidesStored'
  BY <1>1, <1>2, <1>3 DEF Ledger, DecidesStored, RequestOf
<1>7. RunIsConsumed'
  BY <1>2, <1>3, <1>4 DEF Ledger, RunIsConsumed, RequestOf, Ran, Running
<1>8. ConsumingIsRun'
  BY <1>1, <1>2, <1>3 DEF Ledger, ConsumingIsRun, RequestOf, Running
<1>9. BoundIsCurrent'
  BY <1>1, <1>2, <1>3 DEF Ledger, BoundIsCurrent, RequestOf, CurrentBinding
<1>10. OneExecutionPerChallenge'
  BY <1>2, <1>4 DEF Ledger, OneExecutionPerChallenge, Ran
<1>11. ExecutesAsConfirmed'
  BY <1>2, <1>3, <1>4 DEF Ledger, ExecutesAsConfirmed, Running
<1> QED
  BY <1>5, <1>6, <1>7, <1>8, <1>9, <1>10, <1>11 DEF Ledger

\* A decision is over: its challenge is consumed, or was already out of reach.
LEMMA OverStep ==
  ASSUME TypeOK, Ledger, NEW d \in Decisions,
         decision[d].stage \in {"bound", "running"}, Over(d),
         \/ /\ entry' = Consumed({RequestOf(d)}, "replayed")
            /\ Running(d) \/ entry[RequestOf(d)].state # "consuming"
         \/ ~Running(d) /\ entry' = entry,
         UNCHANGED <<runtime, prepare, withdrawn>>
  PROVE  Ledger'
<1> DEFINE r == RequestOf(d)
<1>1. r \in Requests /\ entry[r].state # "none"
  BY RanStages DEF Ledger, DecidesStored
<1>2. /\ decision'[d].stage = "over" /\ decision'[d].request = decision[d].request
      /\ decision'[d].ranIn = decision[d].ranIn
      /\ \A e \in Decisions \ {d} : decision'[e] = decision[e]
  BY DEF Over, TypeOK
<1>3. /\ \A q \in Requests \ {r} : entry'[q] = entry[q]
      /\ \/ /\ entry'[r].state = "replayed"
            /\ Running(d) \/ entry[r].state # "consuming"
         \/ ~Running(d) /\ entry'[r] = entry[r]
  BY <1>1 DEF Consumed, Closed
<1>4. /\ \A e \in Decisions : RequestOf(e)' = RequestOf(e) /\ (Ran(e)' <=> Ran(e))
      /\ \A e \in Decisions \ {d} : Running(e)' <=> Running(e)
      /\ ~Running(d)'
  BY <1>2 DEF RequestOf, Ran, Running
<1>5. \A e \in Decisions \ {d} : Running(d) /\ Ran(e) => RequestOf(e) # r
  BY RanStages DEF Ledger, OneExecutionPerChallenge, RequestOf
<1>6. PreparedOnce' /\ WithdrawnIsConsumed'
  BY <1>1, <1>3 DEF Ledger, PreparedOnce, WithdrawnIsConsumed, TypeOK
<1>7. DecidesStored'
  BY <1>1, <1>2, <1>3, <1>4, RanStages DEF Ledger, DecidesStored
<1>8. RunIsConsumed'
  <2> SUFFICES ASSUME NEW e \in Decisions, Ran(e)'
               PROVE  entry'[RequestOf(e)'].state =
                        IF Running(e)' THEN "consuming" ELSE "replayed"
    BY DEF RunIsConsumed
  <2>1. Ran(e) /\ RequestOf(e) \in Requests
    BY <1>4, RanStages DEF TypeOK, Deciding
  <2>2. entry[RequestOf(e)].state = IF Running(e) THEN "consuming" ELSE "replayed"
    BY <2>1 DEF Ledger, RunIsConsumed
  <2>3. CASE e = d
    <3>1. Running(d)
      BY <2>1, <2>3, RanStages DEF Running
    <3> QED
      BY <1>3, <1>4, <2>3, <3>1
  <2>4. CASE e # d /\ RequestOf(e) # r
    BY <1>3, <1>4, <2>1, <2>2, <2>4
  <2>5. CASE e # d /\ RequestOf(e) = r
    <3>1. ~Running(d)
      BY <1>5, <2>1, <2>5
    <3>2. ~Running(e) \/ entry'[r] = entry[r]
      BY <1>3, <2>2, <2>5, <3>1
    <3> QED
      BY <1>3, <1>4, <2>2, <2>5, <3>1, <3>2
  <2> QED
    BY <2>3, <2>4, <2>5
<1>9. ConsumingIsRun'
  <2> SUFFICES ASSUME NEW q \in Requests, entry'[q].state = "consuming"
               PROVE  \E e \in Decisions : Running(e)' /\ RequestOf(e)' = q
    BY DEF ConsumingIsRun
  <2>1. entry'[q] = entry[q] /\ (q = r => ~Running(d))
    BY <1>3
  <2>2. PICK e \in Decisions : Running(e) /\ RequestOf(e) = q
    BY <2>1 DEF Ledger, ConsumingIsRun
  <2> QED
    BY <1>4, <2>1, <2>2
<1>10. BoundIsCurrent'
  <2> SUFFICES ASSUME NEW e \in Decisions, decision'[e].stage = "bound"
               PROVE  /\ runtime'.stage # "published"
                      /\ entry'[RequestOf(e)'].state = "pending" =>
                           decision'[e].binding = CurrentBinding'
    BY DEF BoundIsCurrent
  <2>1. e # d /\ decision'[e] = decision[e] /\ RequestOf(e) \in Requests
    BY <1>2, RanStages
  <2>2. entry'[RequestOf(e)].state = "pending" => entry[RequestOf(e)].state = "pending"
    BY <1>3, <2>1
  <2>3. CurrentBinding' = CurrentBinding
    BY DEF CurrentBinding
  <2> QED
    BY <1>4, <2>1, <2>2, <2>3 DEF Ledger, BoundIsCurrent
<1>11. OneExecutionPerChallenge'
  BY <1>4 DEF Ledger, OneExecutionPerChallenge, RequestOf
<1>12. ExecutesAsConfirmed'
  <2> SUFFICES ASSUME NEW e \in Decisions, Running(e)'
               PROVE  /\ decision'[e].ranIn = entry'[RequestOf(e)'].binding
                      /\ decision'[e].args = entry'[RequestOf(e)'].args
                      /\ decision'[e].approve
    BY DEF ExecutesAsConfirmed, RequestOf
  <2>1. e # d /\ Running(e) /\ decision'[e] = decision[e] /\ Ran(e)
        /\ RequestOf(e) \in Requests
    BY <1>2, <1>4, RanStages DEF Running
  <2>2. entry[RequestOf(e)].state = "consuming"
    BY <2>1 DEF Ledger, RunIsConsumed
  <2>3. entry'[RequestOf(e)] = entry[RequestOf(e)]
    BY <1>3, <1>5, <2>1, <2>2
  <2> QED
    BY <1>4, <2>1, <2>3 DEF Ledger, ExecutesAsConfirmed, RequestOf
<1> QED
  BY <1>6, <1>7, <1>8, <1>9, <1>10, <1>11, <1>12 DEF Ledger

\* A decision starts the execution of its challenge.
LEMMA RunStep ==
  ASSUME TypeOK, Ledger, NEW d \in Decisions, DecideRuns(d), CanIssue
  PROVE  Ledger' /\ (\A e \in Decisions \ {d} : decision'[e] = decision[e])
                 /\ RequestOf(d)' = RequestOf(d) /\ RequestOf(d) \notin withdrawn
<1> DEFINE r == RequestOf(d)
<1>1. /\ r \in Requests /\ entry[r].state = "pending" /\ ~Running(d) /\ ~Ran(d)
      /\ Accepted(d, r) /\ decision[d].stage = "bound"
  BY RanStages DEF DecideRuns, RequestOf, Running
<1>2. entry[r] \in [state : {"pending", "consuming"}, args : Arguments,
                    binding : Bindings, late : BOOLEAN]
  BY <1>1 DEF TypeOK, Entries, Closed
<1>3. /\ entry'[r].state = "consuming" /\ entry'[r].args = entry[r].args
      /\ entry'[r].binding = entry[r].binding
      /\ \A q \in Requests \ {r} : entry'[q] = entry[q]
  BY <1>1, <1>2 DEF DecideRuns, RequestOf, TypeOK
<1>4. /\ decision'[d] = [stage |-> "running", request |-> r,
             args |-> decision[d].args, approve |-> TRUE,
             binding |-> decision[d].binding, ranIn |-> CurrentBinding]
      /\ \A e \in Decisions \ {d} : decision'[e] = decision[e]
  BY DEF DecideRuns, RequestOf, TypeOK
<1>5. UNCHANGED <<runtime, prepare, withdrawn>>
  BY DEF DecideRuns, ghosts
<1>6. decision[d].binding = CurrentBinding /\ entry[r].binding = CurrentBinding
      /\ decision[d].args = entry[r].args
  BY <1>1 DEF Ledger, BoundIsCurrent, Accepted
<1>7. \A e \in Decisions : Ran(e) => RequestOf(e) # r
  BY <1>1 DEF Ledger, RunIsConsumed
<1>8. /\ \A e \in Decisions : RequestOf(e)' = RequestOf(e)
      /\ \A e \in Decisions \ {d} :
           (Running(e)' <=> Running(e)) /\ (Ran(e)' <=> Ran(e))
      /\ Running(d)'
  BY <1>4 DEF RequestOf, Ran, Running
<1>9. PreparedOnce' /\ WithdrawnIsConsumed'
  BY <1>1, <1>3, <1>5 DEF Ledger, PreparedOnce, WithdrawnIsConsumed, TypeOK
<1>10. DecidesStored'
  <2> SUFFICES ASSUME NEW e \in Decisions, decision'[e].stage # "idle"
               PROVE  entry'[RequestOf(e)'].state # "none"
    BY DEF DecidesStored
  <2>1. RequestOf(e) \in Requests /\ entry[RequestOf(e)].state # "none"
    BY <1>1, <1>4, RanStages DEF Ledger, DecidesStored
  <2> QED
    BY <1>3, <1>8, <2>1
<1>11. RunIsConsumed'
  <2> SUFFICES ASSUME NEW e \in Decisions, Ran(e)'
               PROVE  entry'[RequestOf(e)'].state =
                        IF Running(e)' THEN "consuming" ELSE "replayed"
    BY DEF RunIsConsumed
  <2>1. CASE e = d
    BY <1>3, <1>8, <2>1
  <2>2. CASE e # d
    <3>1. Ran(e) /\ RequestOf(e) \in Requests \ {r}
      BY <1>7, <1>8, <2>2, RanStages DEF TypeOK, Deciding
    <3> QED
      BY <1>3, <1>8, <2>2, <3>1 DEF Ledger, RunIsConsumed
  <2> QED
    BY <2>1, <2>2
<1>12. ConsumingIsRun'
  <2> SUFFICES ASSUME NEW q \in Requests, entry'[q].state = "consuming"
               PROVE  \E e \in Decisions : Running(e)' /\ RequestOf(e)' = q
    BY DEF ConsumingIsRun
  <2>1. CASE q = r
    BY <1>8, <2>1
  <2>2. CASE q # r
    <3>1. PICK e \in Decisions : Running(e) /\ RequestOf(e) = q
      BY <1>3, <2>2 DEF Ledger, ConsumingIsRun
    <3> QED
      BY <1>8, <2>2, <3>1
  <2> QED
    BY <2>1, <2>2
<1>13. BoundIsCurrent'
  <2> SUFFICES ASSUME NEW e \in Decisions, decision'[e].stage = "bound"
               PROVE  /\ runtime'.stage # "published"
                      /\ entry'[RequestOf(e)'].state = "pending" =>
                           decision'[e].binding = CurrentBinding'
    BY DEF BoundIsCurrent
  <2>1. e # d /\ decision'[e] = decision[e] /\ RequestOf(e) \in Requests
    BY <1>4, RanStages
  <2>2. entry'[RequestOf(e)].state = "pending" => entry[RequestOf(e)].state = "pending"
    BY <1>3, <2>1
  <2>3. CurrentBinding' = CurrentBinding
    BY <1>5 DEF CurrentBinding
  <2> QED
    BY <1>5, <1>8, <2>1, <2>2, <2>3 DEF Ledger, BoundIsCurrent
<1>14. OneExecutionPerChallenge'
  BY <1>7, <1>8 DEF Ledger, OneExecutionPerChallenge, RequestOf
<1>15. ExecutesAsConfirmed'
  <2> SUFFICES ASSUME NEW e \in Decisions, Running(e)'
               PROVE  /\ decision'[e].ranIn = entry'[RequestOf(e)'].binding
                      /\ decision'[e].args = entry'[RequestOf(e)'].args
                      /\ decision'[e].approve
    BY DEF ExecutesAsConfirmed, RequestOf
  <2>1. CASE e = d
    BY <1>3, <1>4, <1>6, <1>8, <2>1
  <2>2. CASE e # d
    <3>1. Running(e) /\ Ran(e) /\ RequestOf(e) \in Requests
      BY <1>8, <2>2, RanStages DEF Running
    <3>2. entry'[RequestOf(e)] = entry[RequestOf(e)]
      BY <1>3, <1>7, <3>1
    <3> QED
      BY <1>4, <1>8, <2>2, <3>1, <3>2 DEF Ledger, ExecutesAsConfirmed, RequestOf
  <2> QED
    BY <2>1, <2>2
<1>16. r \notin withdrawn
  BY <1>1 DEF Ledger, WithdrawnIsConsumed
<1> QED
  BY <1>4, <1>8, <1>9, <1>10, <1>11, <1>12, <1>13, <1>14, <1>15, <1>16 DEF Ledger

\* Every step preserves the invariant of the ledger.
LEMMA LedgerNext == TypeInv /\ Ledger /\ [Next]_vars => Ledger'
<1> SUFFICES ASSUME TypeInv, Ledger, [Next]_vars PROVE Ledger'
  OBVIOUS
<1>0. TypeOK
  BY DEF TypeInv
<1>a. UNCHANGED runtime =>
        \A d \in Decisions : decision[d].stage = "bound" =>
          runtime'.stage # "published" /\ CurrentBinding' = CurrentBinding
  BY DEF Ledger, BoundIsCurrent, CurrentBinding
<1>1. CASE UNCHANGED vars
  BY <1>1, <1>a, QuietStep DEF vars
<1>2. CASE WindowLost
  BY <1>0, <1>2, WithdrawalStep DEF WindowLost
<1>3. CASE WindowShown
  BY <1>3, <1>a, QuietStep DEF WindowShown, ghosts
<1>4. CASE Navigation
  BY <1>0, <1>4, WithdrawalStep DEF Navigation
<1>5. ASSUME NEW r \in Requests, NEW x \in Arguments,
             RequestStart(r, x) \/ RequestInput(r, x)
      PROVE  Ledger'
  <2>1. \A q \in Requests : prepare'[q].stage # "over" => prepare[q].stage # "over"
    BY <1>0, <1>5 DEF RequestStart, RequestInput, TypeOK
  <2> QED
    BY <1>5, <1>a, <2>1, QuietStep DEF RequestStart, RequestInput, ghosts
<1>6. ASSUME NEW r \in Requests, QualificationEnds(r) PROVE Ledger'
  <2>1. \A q \in Requests : prepare'[q].stage # "over" => prepare[q].stage # "over"
    BY <1>0, <1>6 DEF QualificationEnds, TypeOK
  <2> QED
    BY <1>6, <1>a, <2>1, QuietStep DEF QualificationEnds, ghosts
<1>7. ASSUME NEW r \in Requests, Store(r) \/ Expire(r) PROVE Ledger'
  BY <1>0, <1>7, StoreStep, ExpireStep
<1>8. ASSUME NEW d \in Decisions, NEW r \in Requests, NEW x \in Arguments,
             NEW yes \in BOOLEAN, Answer(d, r, x, yes)
      PROVE  Ledger'
  BY <1>0, <1>8, AnswerStep
<1>9. ASSUME NEW d \in Decisions, DecideUnavailable(d) PROVE Ledger'
  BY <1>0, <1>9, OverStep DEF DecideUnavailable, RequestOf, Running, ghosts
<1>10. ASSUME NEW d \in Decisions, DecideDenied(d) PROVE Ledger'
  BY <1>0, <1>10, OverStep DEF DecideDenied, RequestOf, Running, ghosts
<1>11. ASSUME NEW d \in Decisions, ExecutionEnds(d) PROVE Ledger'
  BY <1>0, <1>11, OverStep DEF ExecutionEnds, RequestOf, Running, ghosts
<1>12. ASSUME NEW d \in Decisions, DecideRuns(d) PROVE Ledger'
  <2>1. CASE CanIssue
    BY <1>0, <1>12, <2>1, RunStep
  <2>2. CASE ~CanIssue
    BY <1>0, <1>12, <2>2, OverStep DEF DecideRuns, RequestOf, Running, ghosts
  <2> QED
    BY <2>1, <2>2
<1>13. ASSUME NEW s \in Sessions \cup {None}, SwitchBegin(s) PROVE Ledger'
  <2>1. runtime'.stage # "published"
    BY <1>0, <1>13 DEF SwitchBegin, TypeOK
  <2> QED
    BY <1>0, <1>13, <2>1, WithdrawalStep DEF SwitchBegin
<1>14. CASE Shutdown
  <2>1. runtime'.stage = runtime.stage
    BY <1>0, <1>14 DEF Shutdown, TypeOK
  <2> QED
    BY <1>0, <1>14, <2>1, WithdrawalStep DEF Shutdown
<1>15. ASSUME NEW a \in Authorities, SwitchPrepared(a) PROVE Ledger'
  <2>1. runtime'.stage # "published" /\ CurrentBinding' = CurrentBinding
    BY <1>0, <1>15 DEF SwitchPrepared, CurrentBinding, TypeOK
  <2> QED
    BY <1>15, <2>1, QuietStep DEF SwitchPrepared, ghosts
<1>16. CASE SwitchPublish
  BY <1>16, QuietStep DEF SwitchPublish
<1>17. CASE SwitchSession
  <2>1. \A d \in Decisions : decision[d].stage # "bound"
    BY <1>17 DEF Ledger, BoundIsCurrent, SwitchSession
  <2> QED
    BY <1>17, <2>1, QuietStep DEF SwitchSession, ghosts
<1> QED
  BY <1>1, <1>2, <1>3, <1>4, <1>5, <1>6, <1>7, <1>8, <1>9, <1>10, <1>11, <1>12,
     <1>13, <1>14, <1>15, <1>16, <1>17
  DEF Next, RequestNext, DecisionNext, WindowNext, RuntimeNext

LEMMA LedgerInvariance == Spec => [](TypeInv /\ Ledger)
<1>1. Init => Ledger
  BY DEF Init, Ledger, PreparedOnce, DecidesStored, RunIsConsumed, ConsumingIsRun,
         BoundIsCurrent, WithdrawnIsConsumed, OneExecutionPerChallenge,
         ExecutesAsConfirmed, Ran, Running, RequestOf, Closed
<1> QED
  BY <1>1, LedgerNext, TypeInvariance, PTL DEF Spec

\* A challenge runs at most once.
THEOREM OneExecutionPerChallengeHolds == Spec => []OneExecutionPerChallenge
<1>1. Ledger => OneExecutionPerChallenge
  BY DEF Ledger
<1> QED
  BY <1>1, LedgerInvariance, PTL

\* What runs is what was confirmed, where it was confirmed.
THEOREM ExecutesAsConfirmedHolds == Spec => []ExecutesAsConfirmed
<1>1. Ledger => ExecutesAsConfirmed
  BY DEF Ledger
<1> QED
  BY <1>1, LedgerInvariance, PTL

\* A challenge is being consumed exactly while one decision runs it.
THEOREM ConsumingHasOneRunnerHolds == Spec => []ConsumingHasOneRunner
<1>1. TypeInv /\ Ledger => ConsumingHasOneRunner
  <2> SUFFICES ASSUME TypeOK, Ledger, NEW r \in Requests
               PROVE  LET R == {d \in Decisions : Running(d) /\ decision[d].request = r}
                      IN entry[r].state = "consuming" <=> \E d \in R : R = {d}
    BY DEF TypeInv, ConsumingHasOneRunner
  <2> DEFINE R == {d \in Decisions : Running(d) /\ decision[d].request = r}
  <2>1. \A d, e \in R : d = e
    BY RanStages DEF Ledger, OneExecutionPerChallenge
  <2>2. \A d \in R : entry[r].state = "consuming"
    BY RanStages DEF Ledger, RunIsConsumed, RequestOf
  <2>3. entry[r].state = "consuming" => \E d \in R : TRUE
    BY DEF Ledger, ConsumingIsRun, RequestOf
  <2> QED
    BY <2>1, <2>2, <2>3
<1> QED
  BY <1>1, LedgerInvariance, PTL

\* A step that starts an execution is a decision that may.
LEMMA StartsOnlyByDecideRuns ==
  ASSUME TypeInv, Ledger, [Next]_vars, NEW d \in Decisions, Starts(d)
  PROVE  DecideRuns(d) /\ CanIssue
<1>0. TypeOK
  BY DEF TypeInv
<1>1. decision'[d].stage = "running" /\ decision[d].stage # "running"
  BY DEF Starts, Running
<1>2. decision' # decision
  BY <1>1
<1>3. ~UNCHANGED vars /\ ~WindowNext /\ ~RequestNext /\ ~RuntimeNext
  BY <1>2 DEF vars, WindowNext, WindowLost, WindowShown, Navigation, RequestNext,
              RequestStart, RequestInput, QualificationEnds, Store, Expire,
              RuntimeNext, SwitchBegin, SwitchPrepared, SwitchPublish,
              SwitchSession, Shutdown
<1>4. PICK e \in Decisions :
        \/ \E r \in Requests, x \in Arguments, yes \in BOOLEAN : Answer(e, r, x, yes)
        \/ DecideUnavailable(e) \/ DecideDenied(e) \/ DecideRuns(e)
        \/ ExecutionEnds(e)
  BY <1>3 DEF Next, DecisionNext
<1>5. ~Over(e)
  BY <1>0, <1>1 DEF Over, TypeOK
<1>6. \A r, x, yes : ~Answer(e, r, x, yes)
  BY <1>0, <1>1 DEF Answer, TypeOK
<1>7. DecideRuns(e) /\ CanIssue
  BY <1>4, <1>5, <1>6 DEF DecideUnavailable, DecideDenied, ExecutionEnds, DecideRuns
<1>8. e = d
  BY <1>0, <1>1, <1>7 DEF DecideRuns, TypeOK
<1> QED
  BY <1>7, <1>8

\* What was withdrawn never starts to run.
THEOREM WithdrawnNeverRunsHolds == Spec => WithdrawnNeverRuns
<1>1. TypeInv /\ Ledger /\ [Next]_vars =>
        [\A d \in Decisions : Starts(d) => decision[d].request \notin withdrawn]_vars
  <2> SUFFICES ASSUME TypeInv, Ledger, [Next]_vars, NEW d \in Decisions, Starts(d)
               PROVE  decision[d].request \notin withdrawn
    OBVIOUS
  <2>1. DecideRuns(d) /\ CanIssue
    BY StartsOnlyByDecideRuns
  <2> QED
    BY <2>1, RunStep DEF TypeInv, RequestOf
<1> QED
  BY <1>1, LedgerInvariance, PTL DEF Spec, WithdrawnNeverRuns

\* The ledger stays within its capacity.
THEOREM WithinCapacityHolds == Spec => []WithinCapacity
<1>1. Init => WithinCapacity
  <2> SUFFICES ASSUME Init PROVE WithinCapacity
    OBVIOUS
  <2>1. ActiveEntries = {}
    BY DEF Init, ActiveEntries, Closed
  <2> QED
    BY <2>1, MaxPendingAssumption, FS_EmptySet DEF WithinCapacity
<1>2. TypeInv /\ WithinCapacity /\ [Next]_vars => WithinCapacity'
  <2> SUFFICES ASSUME TypeInv, WithinCapacity, [Next]_vars PROVE WithinCapacity'
    OBVIOUS
  <2>0. TypeOK /\ IsFiniteSet(ActiveEntries)
    BY RequestsFinite, FS_Subset DEF TypeInv, ActiveEntries
  <2>1. ASSUME ActiveEntries' \subseteq ActiveEntries PROVE WithinCapacity'
    <3>1. Cardinality(ActiveEntries') <= Cardinality(ActiveEntries)
      BY <2>0, <2>1, FS_Subset
    <3>2. /\ Cardinality(ActiveEntries) \in Nat
          /\ Cardinality(ActiveEntries') \in Nat
      BY <2>0, <2>1, FS_Subset, FS_CardinalityType
    <3> QED
      BY <3>1, <3>2, MaxPendingAssumption DEF WithinCapacity
  <2>2. ASSUME NEW R, NEW state \in {"expired", "replayed"},
               entry' = Consumed(R, state)
        PROVE  ActiveEntries' \subseteq ActiveEntries
    BY <2>2 DEF Consumed, Closed, ActiveEntries
  <2>3. entry' = entry => ActiveEntries' = ActiveEntries
    BY DEF ActiveEntries
  <2>4. Invalidate => WithinCapacity'
    BY <2>1, <2>2 DEF Invalidate
  <2>5. ASSUME NEW r \in Requests, Store(r) PROVE WithinCapacity'
    <3> DEFINE expired == {q \in Pending : entry[q].late}
               kept == ActiveEntries \ expired
    <3>1. CASE entry' = Consumed(expired, "expired") \/ entry' = entry
      BY <2>1, <2>2, <2>3, <3>1
    <3>2. CASE /\ ~(Cardinality(kept) >= MaxPending)
               /\ entry' = [Consumed(expired, "expired") EXCEPT ![r] = Opened(prepare[r])]
      <4>1. ActiveEntries' \subseteq kept \cup {r}
        BY <3>2 DEF Consumed, Closed, ActiveEntries, Pending
      <4>2. /\ IsFiniteSet(kept) /\ Cardinality(kept) \in Nat
            /\ IsFiniteSet(kept \cup {r})
            /\ Cardinality(kept \cup {r}) <= Cardinality(kept) + 1
            /\ Cardinality(kept \cup {r}) \in Nat
        <5>1. IsFiniteSet(kept) /\ Cardinality(kept) \in Nat
          BY <2>0, FS_Subset, FS_CardinalityType
        <5>2. /\ IsFiniteSet(kept \cup {r})
              /\ \/ Cardinality(kept \cup {r}) = Cardinality(kept)
                 \/ Cardinality(kept \cup {r}) = Cardinality(kept) + 1
          BY <5>1, FS_AddElement
        <5> QED
          BY <5>1, <5>2
      <4>3. /\ Cardinality(ActiveEntries') <= Cardinality(kept \cup {r})
            /\ Cardinality(ActiveEntries') \in Nat
        BY <4>1, <4>2, FS_Subset, FS_CardinalityType
      <4> QED
        BY <3>2, <4>2, <4>3, MaxPendingAssumption DEF WithinCapacity
    <3> QED
      BY <2>5, <3>1, <3>2 DEF Store
  <2>6. ASSUME NEW r \in Requests, Expire(r) PROVE WithinCapacity'
    <3>1. \A q \in Requests : entry'[q].state = entry[q].state
      BY <2>0, <2>6 DEF Expire, TypeOK, Entries, Closed
    <3> QED
      BY <2>1, <3>1 DEF ActiveEntries
  <2>7. ASSUME NEW d \in Decisions, DecideRuns(d) PROVE WithinCapacity'
    <3>1. CASE entry' = [entry EXCEPT ![decision[d].request].state = "consuming"]
      <4>1. decision[d].request \in ActiveEntries
        BY <2>0, <2>7 DEF DecideRuns, ActiveEntries, TypeOK, Deciding
      <4> QED
        BY <2>0, <2>1, <3>1, <4>1 DEF ActiveEntries, TypeOK
    <3> QED
      BY <2>1, <2>2, <2>7, <3>1 DEF DecideRuns
  <2>8. ASSUME NEW d \in Decisions,
               DecideUnavailable(d) \/ DecideDenied(d) \/ ExecutionEnds(d)
        PROVE  WithinCapacity'
    BY <2>1, <2>2, <2>3, <2>8 DEF DecideUnavailable, DecideDenied, ExecutionEnds
  <2>9. CASE WindowNext \/ RuntimeNext
    BY <2>1, <2>3, <2>4, <2>9
    DEF WindowNext, WindowLost, WindowShown, Navigation, RuntimeNext, SwitchBegin,
        SwitchPrepared, SwitchPublish, SwitchSession, Shutdown
  <2>10. CASE entry' = entry
    BY <2>1, <2>3, <2>10
  <2> QED
    BY <2>5, <2>6, <2>7, <2>8, <2>9, <2>10
    DEF Next, RequestNext, DecisionNext, RequestStart, RequestInput,
        QualificationEnds, Answer, vars
<1> QED
  BY <1>1, <1>2, TypeInvariance, PTL DEF Spec
=============================================================================
