--------------------------- MODULE SandboxProofs ---------------------------
(***************************************************************************)
(* Proofs about the execution of programs: the bridge that owns the native *)
(* processes (Execution), the host that runs one of them in its job        *)
(* (HostProtocol), and the journal of what was put on its root             *)
(* (AclJournal).  Each has an inductive invariant that says how far every  *)
(* party is and what that implies for the others.                          *)
(***************************************************************************)
EXTENDS Execution, HostProtocol, AclJournal, SequenceTheorems, FiniteSetTheorems, TLAPS

-----------------------------------------------------------------------------
(* Execution: the bridge.                                                  *)

\* Places of a launch that has a process, or may still get one.
UnderWay(s) == State(s) \notin {"none", "loading", "launching"}

\* The process of a launch, as far as it is.
Launched(s) ==
  /\ State(s) \in {"none", "loading"} => process[s] = "none"
  /\ State(s) \in {"terminating", "failing", "failed"} => process[s] # "alive"
  /\ State(s) = "closed" => process[s] = "dead"
  /\ process[s] = "alive" /\ ~OwnerActive(s) => State(s) = "launching"

\* What is shown of a terminal, or has been asked of it, fits its process.
Shown(s) ==
  /\ terminal[s].status \in Stopped => process[s] # "alive" /\ UnderWay(s)
  /\ terminal[s].status = "running" => State(s) \in {"running", "terminating", "closed"}
  /\ s \in asked => process[s] # "alive" /\ UnderWay(s)

ExecInv ==
  /\ ExecTypeOK
  /\ \A s \in Launches : Launched(s)
  /\ \A s \in Persistent : Shown(s)

\* What tells, terminates or closes keeps the types.
LEMMA ExecTypes ==
  ASSUME ExecTypeOK
  PROVE  /\ \A S : Told(S) \in [Launches -> {"none", "alive", "told", "dead"}]
         /\ \A S : Terminating(S) \in [Launches -> [owner : Owners, state : LaunchStates]]
         /\ \A s \in Launches, x \in LaunchStates :
              [launch EXCEPT ![s].state = x]
                \in [Launches -> [owner : Owners, state : LaunchStates]]
         /\ \A s \in Persistent, operation \in Operations :
              AfterOperation(s, operation)
                \in [Persistent -> [status : Statuses, listed : BOOLEAN]]
         /\ \A s \in Persistent, x \in Statuses, b \in BOOLEAN :
              /\ [terminal EXCEPT ![s].status = x]
             \in [Persistent -> [status : Statuses, listed : BOOLEAN]]
              /\ [terminal EXCEPT ![s].listed = b]
             \in [Persistent -> [status : Statuses, listed : BOOLEAN]]
              /\ [terminal EXCEPT ![s] = [status |-> x, listed |-> b]]
                   \in [Persistent -> [status : Statuses, listed : BOOLEAN]]
<1>1. \A S : Told(S) \in [Launches -> {"none", "alive", "told", "dead"}]
  BY DEF ExecTypeOK, Told
<1>2. \A S : Terminating(S) \in [Launches -> [owner : Owners, state : LaunchStates]]
  BY DEF ExecTypeOK, Terminating, LaunchStates
<1>3. \A s \in Launches, x \in LaunchStates :
        [launch EXCEPT ![s].state = x] \in [Launches -> [owner : Owners, state : LaunchStates]]
  BY DEF ExecTypeOK
<1>4. ASSUME NEW s \in Persistent, NEW operation \in Operations
      PROVE  AfterOperation(s, operation)
               \in [Persistent -> [status : Statuses, listed : BOOLEAN]]
  <2> DEFINE status == IF terminal[s].status = "running" THEN "killed" ELSE terminal[s].status
             b == operation = "kill"
  <2>1. status \in Statuses /\ b \in BOOLEAN
    BY DEF ExecTypeOK, Statuses
  <2>2. AfterOperation(s, operation) = [terminal EXCEPT ![s] = [status |-> status, listed |-> b]]
    BY DEF AfterOperation, ExecTypeOK
  <2> HIDE DEF status, b
  <2> QED
    BY <2>1, <2>2 DEF ExecTypeOK
<1>5. \A s \in Persistent, x \in Statuses, b \in BOOLEAN :
        /\ [terminal EXCEPT ![s].status = x]
             \in [Persistent -> [status : Statuses, listed : BOOLEAN]]
        /\ [terminal EXCEPT ![s].listed = b]
             \in [Persistent -> [status : Statuses, listed : BOOLEAN]]
        /\ [terminal EXCEPT ![s] = [status |-> x, listed |-> b]]
             \in [Persistent -> [status : Statuses, listed : BOOLEAN]]
  BY DEF ExecTypeOK
<1> QED
  BY <1>1, <1>2, <1>3, <1>4, <1>5

\* So does a termination, whether or not it has to wait for its process.
LEMMA TerminateTypes ==
  ASSUME ExecTypeOK, NEW s \in Persistent, NEW operation \in Operations, Terminate(s, operation)
  PROVE  /\ launch' \in [Launches -> [owner : Owners, state : LaunchStates]]
         /\ process' \in [Launches -> {"none", "alive", "told", "dead"}]
         /\ terminal' \in [Persistent -> [status : Statuses, listed : BOOLEAN]]
         /\ asked' \in SUBSET Persistent /\ awaiting' \in SUBSET (Persistent \X Operations)
<1>1. CASE KilledAtOnce(s)
  BY <1>1, ExecTypes DEF Terminate, ExecTypeOK
<1>2. CASE ~KilledAtOnce(s)
  BY <1>2, ExecTypes DEF Terminate, ExecTypeOK
<1> QED
  BY <1>1, <1>2

\* Every step keeps the types ...
LEMMA ExecTypesKept ==
  ASSUME ExecTypeOK, ExecNext
  PROVE  ExecTypeOK'
<1>1. ASSUME NEW s \in Launches, StartLaunch(s) PROVE ExecTypeOK'
  BY <1>1, LaunchAssumption DEF ExecTypeOK, State, Statuses, Stopped, LaunchStates,
       StartLaunch
<1>2. ASSUME NEW s \in Launches, ConsumeGrant(s) PROVE ExecTypeOK'
  <2>1. PICK x \in LaunchStates : launch' = [launch EXCEPT ![s].state = x]
    BY <1>2 DEF ConsumeGrant, LaunchStates
  <2> QED
    BY <1>2, <2>1, ExecTypes DEF ExecTypeOK, ConsumeGrant
<1>3. ASSUME NEW s \in Launches, HostStarts(s) PROVE ExecTypeOK'
  BY <1>3, LaunchAssumption DEF ExecTypeOK, State, Statuses, Stopped, LaunchStates, HostStarts
<1>4. ASSUME NEW s \in Launches, LaunchFails(s) PROVE ExecTypeOK'
  BY <1>4, LaunchAssumption DEF ExecTypeOK, State, Statuses, Stopped, LaunchStates,
       LaunchFails, Told
<1>5. ASSUME NEW s \in Launches, LaunchReturns(s) PROVE ExecTypeOK'
  BY <1>5, LaunchAssumption DEF ExecTypeOK, State, Statuses, Stopped, LaunchStates,
       LaunchReturns, Registered, Told
<1>6. ASSUME NEW s \in Launches, SessionCloses(s) PROVE ExecTypeOK'
  <2>1. PICK x \in LaunchStates : launch' = [launch EXCEPT ![s].state = x]
    BY <1>6 DEF SessionCloses, LaunchStates
  <2> QED
    BY <1>6, <2>1, ExecTypes DEF ExecTypeOK, SessionCloses
<1>7. ASSUME NEW s \in Launches, ProcessEnds(s) PROVE ExecTypeOK'
  BY <1>7, LaunchAssumption DEF ExecTypeOK, State, Statuses, Stopped, LaunchStates,
       ProcessEnds
<1>8. ASSUME NEW s \in Launches, OutputLimit(s) PROVE ExecTypeOK'
  BY <1>8, LaunchAssumption DEF ExecTypeOK, State, Statuses, Stopped, LaunchStates,
       OutputLimit, Told
<1>9. ASSUME NEW s \in Launches, InputFails(s) PROVE ExecTypeOK'
  BY <1>9, LaunchAssumption DEF ExecTypeOK, State, Statuses, Stopped, LaunchStates,
       InputFails, Told, Terminating
<1>10. ASSUME NEW s \in Persistent, TerminalStarts(s) PROVE ExecTypeOK'
  <2>1. \/ \E x \in Statuses, b \in BOOLEAN :
              terminal' = [terminal EXCEPT ![s] = [status |-> x, listed |-> b]]
        \/ terminal' = [terminal EXCEPT ![s].status = "error"]
    <3>1. CASE State(s) = "failed"
      BY <1>10, <3>1 DEF TerminalStarts
    <3>2. CASE State(s) # "failed" /\ OwnerActive(s)
      <4>1. PICK x \in {"running", "exited"} :
              terminal' = [terminal EXCEPT ![s] = [status |-> x, listed |-> TRUE]]
        BY <1>10, <3>2 DEF TerminalStarts
      <4> QED
        BY <4>1 DEF Statuses
    <3>3. CASE State(s) # "failed" /\ ~OwnerActive(s)
      BY <1>10, <3>3 DEF TerminalStarts, Statuses
    <3> QED
      BY <3>1, <3>2, <3>3
  <2>2. "error" \in Statuses /\ terminal \in [Persistent -> [status : Statuses, listed : BOOLEAN]]
    BY DEF Statuses, ExecTypeOK
  <2>3. terminal' \in [Persistent -> [status : Statuses, listed : BOOLEAN]]
    BY <2>1, <2>2
  <2> QED
    BY <1>10, <2>3 DEF ExecTypeOK, TerminalStarts
<1>11. ASSUME NEW s \in Persistent, Refresh(s) PROVE ExecTypeOK'
  BY <1>11, LaunchAssumption DEF ExecTypeOK, State, Statuses, Stopped, LaunchStates, Refresh
<1>12. ASSUME NEW s \in Persistent, Kill(s) PROVE ExecTypeOK'
  <2>1. "kill" \in Operations
    BY DEF Operations
  <2> QED
    BY <1>12, <2>1, TerminateTypes DEF ExecTypeOK, Kill
<1>13. ASSUME NEW s \in Persistent, Close(s) PROVE ExecTypeOK'
  <2>1. "close" \in Operations
    BY DEF Operations
  <2>2. CASE Terminate(s, "close")
    BY <1>13, <2>1, <2>2, TerminateTypes DEF ExecTypeOK, Close
  <2>3. CASE /\ terminal' = [terminal EXCEPT ![s].listed = FALSE]
             /\ UNCHANGED <<launch, process, asked, awaiting>>
    BY <1>13, <2>3, ExecTypes DEF ExecTypeOK, Close
  <2> QED
    BY <1>13, <2>2, <2>3 DEF Close
<1>14. ASSUME NEW s \in Persistent, NEW operation \in Operations, OperationReturns(s, operation)
       PROVE  ExecTypeOK'
  <2>1. terminal' \in [Persistent -> [status : Statuses, listed : BOOLEAN]]
    BY <1>14, ExecTypes DEF ExecTypeOK, OperationReturns
  <2> QED
    BY <1>14, <2>1 DEF ExecTypeOK, OperationReturns
<1>15. ASSUME NEW o \in Owners, RetireOwner(o) PROVE ExecTypeOK'
  <2> DEFINE mine == {s \in Launches : launch[s].owner = o
                                           /\ State(s) \in {"running", "terminating"}}
             listed == {s \in Persistent : launch[s].owner = o /\ terminal[s].listed}
             first == {s \in listed : terminal[s].status = "running" /\ ~KilledAtOnce(s)}
  <2>1. /\ resources' = [resources EXCEPT ![o] = "retiring"]
        /\ launch' = Terminating(mine) /\ process' = Told(mine)
        /\ asked' = asked \cup {s \in listed : terminal[s].status = "running"}
        /\ awaiting' = awaiting \cup {<<s, "retire">> : s \in first}
        /\ terminal' = [s \in Persistent |->
             IF s \in listed \ first THEN AfterOperation(s, "retire")[s] ELSE terminal[s]]
        /\ UNCHANGED service
    BY <1>15 DEF RetireOwner
  <2>2. "retire" \in Operations
    BY DEF Operations
  <2>3. terminal' \in [Persistent -> [status : Statuses, listed : BOOLEAN]]
    <3>1. \A s \in Persistent :
            AfterOperation(s, "retire")[s] \in [status : Statuses, listed : BOOLEAN]
      BY <2>2, ExecTypes
    <3> HIDE DEF listed, first
    <3> QED
      BY <2>1, <3>1 DEF ExecTypeOK
  <2>4. asked' \in SUBSET Persistent /\ awaiting' \in SUBSET (Persistent \X Operations)
    BY <2>1, <2>2 DEF ExecTypeOK
  <2>5. resources' \in [Owners -> {"active", "retiring", "retired"}]
    BY <2>1 DEF ExecTypeOK
  <2> QED
    BY <2>1, <2>3, <2>4, <2>5, ExecTypes DEF ExecTypeOK
<1>16. ASSUME NEW o \in Owners, OwnerDrained(o) PROVE ExecTypeOK'
  BY <1>16, LaunchAssumption DEF ExecTypeOK, State, Statuses, Stopped, LaunchStates,
       OwnerDrained
<1>17. CASE ServiceLoads
  BY <1>17, LaunchAssumption DEF ExecTypeOK, State, Statuses, Stopped, LaunchStates,
       ServiceLoads
<1>18. CASE ShutdownService
  BY <1>18, LaunchAssumption DEF ExecTypeOK, State, Statuses, Stopped, LaunchStates,
       ShutdownService, Told, Terminating
<1> QED
  BY <1>1, <1>2, <1>3, <1>4, <1>5, <1>6, <1>7, <1>8, <1>9, <1>10, <1>11, <1>12, <1>13, <1>14,
       <1>15, <1>16, <1>17, <1>18 DEF ExecNext

\* ... leaves every process as far as its launch is ...
LEMMA LaunchedKept ==
  ASSUME ExecInv, ExecNext, NEW t \in Launches
  PROVE  Launched(t)'
<1>1. ExecTypeOK /\ Launched(t) /\ Persistent \subseteq Launches
  BY LaunchAssumption DEF ExecInv
<1>2. ASSUME NEW s \in Launches, StartLaunch(s) PROVE Launched(t)'
  BY <1>1, <1>2 DEF ExecTypeOK, Launched, State, OwnerActive, StartLaunch
<1>3. ASSUME NEW s \in Launches, ConsumeGrant(s) PROVE Launched(t)'
  BY <1>1, <1>3 DEF ExecTypeOK, Launched, State, OwnerActive, ConsumeGrant
<1>4. ASSUME NEW s \in Launches, HostStarts(s) PROVE Launched(t)'
  BY <1>1, <1>4 DEF ExecTypeOK, Launched, State, OwnerActive, HostStarts
<1>5. ASSUME NEW s \in Launches, LaunchFails(s) PROVE Launched(t)'
  BY <1>1, <1>5 DEF ExecTypeOK, Launched, State, OwnerActive, LaunchFails, Told
<1>6. ASSUME NEW s \in Launches, LaunchReturns(s) PROVE Launched(t)'
  BY <1>1, <1>6, SMTT(30) DEF ExecTypeOK, Launched, State, OwnerActive, LaunchReturns, Registered, Told
<1>7. ASSUME NEW s \in Launches, SessionCloses(s) PROVE Launched(t)'
  BY <1>1, <1>7 DEF ExecTypeOK, Launched, State, OwnerActive, SessionCloses
<1>8. ASSUME NEW s \in Launches, ProcessEnds(s) PROVE Launched(t)'
  BY <1>1, <1>8 DEF ExecTypeOK, Launched, State, OwnerActive, ProcessEnds
<1>9. ASSUME NEW s \in Launches, OutputLimit(s) PROVE Launched(t)'
  BY <1>1, <1>9 DEF ExecTypeOK, Launched, State, OwnerActive, OutputLimit, Told
<1>10. ASSUME NEW s \in Launches, InputFails(s) PROVE Launched(t)'
  BY <1>1, <1>10 DEF ExecTypeOK, Launched, State, OwnerActive, InputFails, Told, Terminating
<1>11. ASSUME NEW s \in Persistent, TerminalStarts(s) PROVE Launched(t)'
  BY <1>1, <1>11 DEF ExecTypeOK, Launched, State, OwnerActive, TerminalStarts
<1>12. ASSUME NEW s \in Persistent, Refresh(s) PROVE Launched(t)'
  BY <1>1, <1>12 DEF ExecTypeOK, Launched, State, OwnerActive, Refresh
<1>13. ASSUME NEW s \in Persistent, Kill(s) PROVE Launched(t)'
  BY <1>1, <1>13 DEF ExecTypeOK, Launched, State, OwnerActive, Kill, Terminate, KilledAtOnce,
       AfterOperation, Told, Terminating
<1>14. ASSUME NEW s \in Persistent, Close(s) PROVE Launched(t)'
  BY <1>1, <1>14 DEF ExecTypeOK, Launched, State, OwnerActive, Close, Terminate, KilledAtOnce,
       AfterOperation, Told, Terminating
<1>15. ASSUME NEW s \in Persistent, NEW operation \in Operations, OperationReturns(s, operation)
       PROVE  Launched(t)'
  BY <1>1, <1>15 DEF ExecTypeOK, Launched, State, OwnerActive, OperationReturns,
       AfterOperation
<1>16. ASSUME NEW o \in Owners, RetireOwner(o) PROVE Launched(t)'
  <2> DEFINE mine == {s \in Launches : launch[s].owner = o
                                           /\ State(s) \in {"running", "terminating"}}
             listed == {s \in Persistent : launch[s].owner = o /\ terminal[s].listed}
             first == {s \in listed : terminal[s].status = "running" /\ ~KilledAtOnce(s)}
  <2>1. /\ resources' = [resources EXCEPT ![o] = "retiring"]
        /\ launch' = Terminating(mine) /\ process' = Told(mine)
        /\ asked' = asked \cup {s \in listed : terminal[s].status = "running"}
        /\ awaiting' = awaiting \cup {<<s, "retire">> : s \in first}
        /\ terminal' = [s \in Persistent |->
             IF s \in listed \ first THEN AfterOperation(s, "retire")[s] ELSE terminal[s]]
        /\ UNCHANGED service
    BY <1>16 DEF RetireOwner
  <2>2. CASE launch[t].owner = o /\ State(t) \in {"running", "terminating"}
    BY <1>1, <2>1, <2>2
       DEF ExecTypeOK, Launched, State, OwnerActive, Told, Terminating
  <2>3. CASE launch[t].owner = o /\ State(t) \notin {"running", "terminating"}
    BY <1>1, <2>1, <2>3
       DEF ExecTypeOK, Launched, State, OwnerActive, Told, Terminating, LaunchStates
  <2>4. CASE launch[t].owner # o
    BY <1>1, <2>1, <2>4
       DEF ExecTypeOK, Launched, State, OwnerActive, Told, Terminating
  <2> QED
    BY <2>2, <2>3, <2>4
<1>17. ASSUME NEW o \in Owners, OwnerDrained(o) PROVE Launched(t)'
  BY <1>1, <1>17 DEF ExecTypeOK, Launched, State, OwnerActive, OwnerDrained
<1>18. CASE ServiceLoads
  BY <1>1, <1>18 DEF ExecTypeOK, Launched, State, OwnerActive, ServiceLoads
<1>19. CASE ShutdownService
  BY <1>1, <1>19 DEF ExecTypeOK, Launched, State, OwnerActive, ShutdownService, Told,
       Terminating
<1> QED
  BY <1>2, <1>3, <1>4, <1>5, <1>6, <1>7, <1>8, <1>9, <1>10, <1>11, <1>12, <1>13, <1>14, <1>15,
       <1>16, <1>17, <1>18, <1>19 DEF ExecNext

\* ... and shows no terminal that is stopped while its process runs untold.
LEMMA ShownKept ==
  ASSUME ExecInv, ExecNext, NEW t \in Persistent
  PROVE  Shown(t)'
<1>1. ExecTypeOK /\ Launched(t) /\ Shown(t) /\ t \in Launches /\ Persistent \subseteq Launches
  BY LaunchAssumption DEF ExecInv
<1>2. ASSUME NEW s \in Launches, StartLaunch(s) PROVE Shown(t)'
  BY <1>1, <1>2 DEF ExecTypeOK, Launched, Shown, UnderWay, State, OwnerActive, Statuses, Stopped,
       StartLaunch
<1>3. ASSUME NEW s \in Launches, ConsumeGrant(s) PROVE Shown(t)'
  BY <1>1, <1>3 DEF ExecTypeOK, Launched, Shown, UnderWay, State, OwnerActive, Statuses, Stopped,
       ConsumeGrant
<1>4. ASSUME NEW s \in Launches, HostStarts(s) PROVE Shown(t)'
  BY <1>1, <1>4 DEF ExecTypeOK, Launched, Shown, UnderWay, State, OwnerActive, Statuses, Stopped,
       HostStarts
<1>5. ASSUME NEW s \in Launches, LaunchFails(s) PROVE Shown(t)'
  BY <1>1, <1>5 DEF ExecTypeOK, Launched, Shown, UnderWay, State, OwnerActive, Statuses, Stopped,
       LaunchFails, Told
<1>6. ASSUME NEW s \in Launches, LaunchReturns(s) PROVE Shown(t)'
  BY <1>1, <1>6 DEF ExecTypeOK, Launched, Shown, UnderWay, State, OwnerActive, Statuses, Stopped,
       LaunchReturns, Registered, Told
<1>7. ASSUME NEW s \in Launches, SessionCloses(s) PROVE Shown(t)'
  <2>1. CASE t = s
    BY <1>1, <1>7, <2>1 DEF ExecTypeOK, Launched, Shown, UnderWay, SessionCloses, State
  <2>2. CASE t # s
    BY <1>1, <1>7, <2>2 DEF ExecTypeOK, Launched, Shown, UnderWay, SessionCloses, State
  <2> QED
    BY <2>1, <2>2
<1>8. ASSUME NEW s \in Launches, ProcessEnds(s) PROVE Shown(t)'
  BY <1>1, <1>8 DEF ExecTypeOK, Launched, Shown, UnderWay, State, OwnerActive, Statuses, Stopped,
       ProcessEnds
<1>9. ASSUME NEW s \in Launches, OutputLimit(s) PROVE Shown(t)'
  BY <1>1, <1>9 DEF ExecTypeOK, Launched, Shown, UnderWay, State, OwnerActive, Statuses, Stopped,
       OutputLimit, Told
<1>10. ASSUME NEW s \in Launches, InputFails(s) PROVE Shown(t)'
  BY <1>1, <1>10 DEF ExecTypeOK, Launched, Shown, UnderWay, State, OwnerActive, Statuses,
       Stopped, InputFails, Told, Terminating
<1>11. ASSUME NEW s \in Persistent, TerminalStarts(s) PROVE Shown(t)'
  BY <1>1, <1>11 DEF ExecTypeOK, Launched, Shown, UnderWay, State, OwnerActive, Statuses,
       Stopped, TerminalStarts
<1>12. ASSUME NEW s \in Persistent, Refresh(s) PROVE Shown(t)'
  BY <1>1, <1>12 DEF ExecTypeOK, Launched, Shown, UnderWay, State, OwnerActive, Statuses,
       Stopped, Refresh
<1>13. ASSUME NEW s \in Persistent, Kill(s) PROVE Shown(t)'
  BY <1>1, <1>13 DEF ExecTypeOK, Launched, Shown, UnderWay, State, OwnerActive, Statuses,
       Stopped, Kill, Terminate, KilledAtOnce, AfterOperation, Told, Terminating
<1>14. ASSUME NEW s \in Persistent, Close(s) PROVE Shown(t)'
  BY <1>1, <1>14 DEF ExecTypeOK, Launched, Shown, UnderWay, State, OwnerActive, Statuses,
       Stopped, Close, Terminate, KilledAtOnce, AfterOperation, Told, Terminating
<1>15. ASSUME NEW s \in Persistent, NEW operation \in Operations, OperationReturns(s, operation)
       PROVE  Shown(t)'
  BY <1>1, <1>15 DEF ExecTypeOK, Launched, Shown, UnderWay, State, OwnerActive, Statuses,
       Stopped, OperationReturns, AfterOperation
<1>16. ASSUME NEW o \in Owners, RetireOwner(o) PROVE Shown(t)'
  BY <1>1, <1>16 DEF ExecTypeOK, Launched, Shown, UnderWay, State, OwnerActive, Statuses,
       Stopped, RetireOwner, KilledAtOnce, AfterOperation, Told, Terminating
<1>17. ASSUME NEW o \in Owners, OwnerDrained(o) PROVE Shown(t)'
  BY <1>1, <1>17 DEF ExecTypeOK, Launched, Shown, UnderWay, State, OwnerActive, Statuses,
       Stopped, OwnerDrained
<1>18. CASE ServiceLoads
  BY <1>1, <1>18 DEF ExecTypeOK, Launched, Shown, UnderWay, State, OwnerActive, Statuses,
       Stopped, ServiceLoads
<1>19. CASE ShutdownService
  BY <1>1, <1>19 DEF ExecTypeOK, Launched, Shown, UnderWay, State, OwnerActive, Statuses,
       Stopped, ShutdownService, Told, Terminating
<1> QED
  BY <1>2, <1>3, <1>4, <1>5, <1>6, <1>7, <1>8, <1>9, <1>10, <1>11, <1>12, <1>13, <1>14, <1>15,
       <1>16, <1>17, <1>18, <1>19 DEF ExecNext

\* The invariant holds initially and is kept by every step.
LEMMA ExecInvariance == ExecSpec => []ExecInv
<1>1. ExecInit => ExecInv
  <2> SUFFICES ASSUME ExecInit PROVE ExecInv
    OBVIOUS
  <2>1. ExecTypeOK
    BY DEF ExecInit, ExecTypeOK, LaunchStates, Statuses
  <2>2. /\ \A s \in Launches : State(s) = "none" /\ process[s] = "none"
        /\ \A s \in Persistent : terminal[s].status = "none"
        /\ asked = {}
    BY DEF ExecInit, State
  <2> QED
    BY <2>1, <2>2 DEF ExecInv, Launched, Shown, Stopped
<1>2. ExecInv /\ [ExecNext]_execVars => ExecInv'
  <2> SUFFICES ASSUME ExecInv, [ExecNext]_execVars PROVE ExecInv'
    OBVIOUS
  <2>1. CASE ExecNext
    <3>1. ExecTypeOK'
      BY <2>1, ExecTypesKept DEF ExecInv
    <3>2. ASSUME NEW s \in Launches PROVE Launched(s)'
      BY <2>1, LaunchedKept
    <3>3. ASSUME NEW s \in Persistent PROVE Shown(s)'
      BY <2>1, ShownKept
    <3> QED
      BY <3>1, <3>2, <3>3 DEF ExecInv
  <2>2. CASE UNCHANGED execVars
    BY <2>2 DEF execVars, ExecInv, ExecTypeOK, Launched, Shown, UnderWay, State, OwnerActive
  <2> QED
    BY <2>1, <2>2
<1> QED
  BY <1>1, <1>2, PTL DEF ExecSpec

\* Launches, processes and terminals are what they are said to be
\* (src/execution-isolation.ts, src/terminal.ts).
THEOREM ExecTypeCorrect == ExecSpec => []ExecTypeOK
<1>1. ExecInv => ExecTypeOK
  BY DEF ExecInv
<1> QED
  BY <1>1, ExecInvariance, PTL

\* No process runs untold whose owner is not active or whose terminal is shown as
\* stopped, for any number of launches, terminals and owners
\* (src/execution-isolation.ts:401-450, src/terminal.ts:237-278).
THEOREM NoProcessUnattendedHolds == ExecSpec => []NoProcessUnattended
<1>1. ExecInv => NoProcessUnattended
  BY LaunchAssumption DEF ExecInv, NoProcessUnattended, Launched, Shown
<1> QED
  BY <1>1, ExecInvariance, PTL

-----------------------------------------------------------------------------
(* HostProtocol: the host.                                                 *)

\* Where the threads of the host have not been started, and where they have been joined.
Unstarted == {"none", "reading", "preparing", "suspended", "assigned", "resumed"}

Joined == {"draining", "cleaning", "proving", "exiting"}

\* The launch frame is the first in the pipe, and read before any other.
Framed ==
  /\ app.launch \in {"none", "loading", "leased"} => MainAt("none")
  /\ app.launch = "created" => pipe = <<>> /\ main.at \in {"reading", "gone"}
  /\ main.at \in {"none", "gone"} => pipe = <<>>
  /\ \A i \in 1..Len(pipe) : pipe[i] = "launch" => i = 1 /\ MainAt("reading")

\* The threads, and what they have said about the job.
Threaded ==
  /\ main.at \in Unstarted =>
       /\ thread.control = "none" /\ thread.output = "none"
       /\ main.accepting /\ main.reason = "completed" /\ main.clean
  /\ MainAt("gone") => thread.control = "ended" /\ thread.output = "ended"
  /\ main.at \in Joined => thread.control = "ended"
  /\ main.at \in Joined \ {"draining"} => thread.output = "ended"
  /\ main.at \in {"watching", "leaving"} /\ main.reason = "completed" => main.accepting
  /\ thread.control = "ended" => ~main.accepting \/ MainAt("gone")
  /\ thread.control = "failing" => thread.why # "completed"

\* The processes, and why the root was killed.
Jobbed ==
  /\ Running # {} => tree.inJob /\ main.at \in {"resumed", "watching"}
  /\ MainAt("assigned") => tree.inJob
  /\ MainAt("resumed") => tree.root \in {"running", "exited"}
  /\ main.at \notin Unstarted \cup {"gone"} =>
       /\ tree.root \in {"running", "exited", "killed"}
       /\ tree.root = "killed" => main.reason # "completed" \/ ~main.clean

\* What is reported of the end.
Reported ==
  /\ main.at \notin {"exiting", "gone"} => report.proof = "none"
  /\ MainAt("exiting") /\ report.proof # "none" => report.proof = Outcome
  /\ MainAt("gone") =>
       /\ report.proof # "none" /\ main.code # Crashed => main.code = ExitCode[report.proof]
       /\ main.code = 0 => tree.root = "exited" /\ main.reason = "completed" /\ main.clean
  /\ report.reader = "done" => MainAt("gone") /\ report.code = main.code

HostInv == HostTypeOK /\ Framed /\ Threaded /\ Jobbed /\ Reported

AppRecord == [up : BOOLEAN, stopped : BOOLEAN, told : BOOLEAN,
              launch : {"none", "loading", "leased", "created", "sent", "handed", "returned",
                        "failed"}]

MainRecord ==
  [at : {"none", "reading", "preparing", "suspended", "assigned", "resumed", "watching",
         "leaving", "joining", "draining", "cleaning", "proving", "exiting", "gone"},
   accepting : BOOLEAN, reason : DOMAIN ExitCode, rootSeen : BOOLEAN, clean : BOOLEAN, code : Nat]

ThreadRecord ==
  [control : {"none", "top", "entering", "reading", "writing", "cancelled", "failing", "ended"},
   why : DOMAIN ExitCode, output : {"none", "reading", "ended"}]

TreeRecord ==
  [root : {"none", "suspended", "running", "exited", "killed"},
   child : {"none", "running", "exited", "killed"}, inJob : BOOLEAN]

ReportRecord ==
  [reader : {"none", "reading", "done"}, proof : DOMAIN ExitCode \cup {"none"}, code : Nat]

\* Exit codes: that of completion is 0, and no other is.
LEMMA ExitCodes ==
  /\ {"completed", "protocol", "cleanup", "output"} \subseteq DOMAIN ExitCode
  /\ "launch" \notin DOMAIN ExitCode /\ "input" \notin DOMAIN ExitCode
  /\ "none" \notin DOMAIN ExitCode
  /\ \A x \in DOMAIN ExitCode : /\ ExitCode[x] \in Nat
                                /\ x # "completed" => ExitCode[x] # 0
BY DEF ExitCode

\* What the end of the host, a failed job and the kill of a job leave.
LEMMA HostEndTypes ==
  ASSUME HostTypeOK
  PROVE  /\ Killed \in TreeRecord
         /\ \A code \in Nat : HostEnds(code) =>
              main' \in MainRecord /\ thread' \in ThreadRecord /\ pipe' = <<>>
         /\ \A reason \in DOMAIN ExitCode :
              FailJob(reason, main.at) => main' \in MainRecord /\ tree' \in TreeRecord
<1>1. Killed \in TreeRecord
  BY DEF HostTypeOK, Killed, Living, TreeRecord
<1>2. ASSUME NEW code \in Nat, HostEnds(code)
      PROVE  main' \in MainRecord /\ thread' \in ThreadRecord /\ pipe' = <<>>
  BY <1>2 DEF HostTypeOK, HostEnds, MainRecord, ThreadRecord
<1>3. ASSUME NEW reason \in DOMAIN ExitCode, FailJob(reason, main.at)
      PROVE  main' \in MainRecord /\ tree' \in TreeRecord
  <2>1. main \in MainRecord
    BY DEF HostTypeOK, MainRecord
  <2> QED
    BY <1>1, <1>3, <2>1 DEF FailJob, MainRecord
<1> QED
  BY <1>1, <1>2, <1>3

\* What a pipe holds after a frame is read ...
LEMMA ReadFrame ==
  ASSUME NEW s \in Seq(Frames), s # <<>>
  PROVE  /\ Head(s) \in Frames /\ Head(s) = s[1]
         /\ Tail(s) \in Seq(Frames) /\ Len(Tail(s)) = Len(s) - 1 /\ Len(s) \in Nat
         /\ \A i \in 1..Len(Tail(s)) : Tail(s)[i] = s[i + 1]
BY HeadTailProperties

\* ... and after one is written.
LEMMA WrittenFrame ==
  ASSUME NEW s \in Seq(Frames), NEW f \in Frames
  PROVE  /\ Append(s, f) \in Seq(Frames) /\ Len(Append(s, f)) = Len(s) + 1 /\ Len(s) \in Nat
         /\ \A i \in 1..Len(s) : Append(s, f)[i] = s[i]
         /\ Append(s, f)[Len(s) + 1] = f
BY AppendProperties

\* The end of the host, a failed job and a killed one.
LEMMA HostEnded ==
  ASSUME HostTypeOK, NEW code, HostEnds(code)
  PROVE  /\ main'.at = "gone" /\ main'.code = code /\ main'.reason = main.reason
         /\ main'.clean = main.clean /\ main'.accepting = main.accepting
         /\ thread'.control = "ended" /\ thread'.output = "ended" /\ thread'.why = thread.why
         /\ pipe' = <<>>
BY DEF HostTypeOK, HostEnds

\* The first reason for which a job fails stays.
LEMMA JobFailed ==
  ASSUME HostTypeOK, NEW reason, reason # "completed", NEW step, FailJob(reason, step)
  PROVE  /\ main'.at = step /\ main'.reason # "completed" /\ ~main'.accepting
         /\ main'.clean = main.clean /\ main'.code = main.code /\ tree' = Killed
BY DEF HostTypeOK, FailJob

\* Nothing runs once the job is killed.
LEMMA JobKilled ==
  ASSUME HostTypeOK, Jobbed, tree' = Killed
  PROVE  /\ Running' = {} /\ tree'.inJob = tree.inJob
         /\ tree'.root \in {tree.root, "killed"}
         /\ tree.root \notin Living => tree'.root = tree.root
<1>1. \A p \in {"root", "child"} : tree'[p] # "running"
  BY DEF HostTypeOK, Jobbed, Running, Living, Killed
<1> QED
  BY <1>1 DEF HostTypeOK, Running, Living, Killed

\* The app.
LEMMA AppTyped ==
  ASSUME HostInv, HostNext
  PROVE  app' \in AppRecord
<1>1. /\ HostTypeOK /\ Framed /\ Threaded /\ app \in AppRecord
      /\ Terminations \cup Limits \subseteq DOMAIN ExitCode /\ MaxFrames \in Nat \ {0}
  BY HostAssumption DEF HostInv, HostTypeOK, AppRecord
<1>2. CASE BeginLaunch
  BY <1>1, <1>2 DEF BeginLaunch, AppRecord
<1>3. CASE OpenLease
  BY <1>1, <1>3 DEF OpenLease, AppRecord
<1>4. CASE CreateHost
  BY <1>1, <1>4 DEF CreateHost, AppRecord
<1>5. CASE LaunchHostFails
  BY <1>1, <1>5 DEF LaunchHostFails, Living, Killed, HostEnds, AppRecord
<1>6. CASE SendLaunch
  BY <1>1, <1>6 DEF SendLaunch, Sends, AppRecord
<1>7. CASE HandOver
  BY <1>1, <1>7 DEF HandOver, AppRecord
<1>8. CASE LaunchHandled
  BY <1>1, <1>8 DEF LaunchHandled, AppRecord
<1>9. CASE AppDies
  BY <1>1, <1>9 DEF AppDies, AppRecord
<1>10. ASSUME NEW reason \in Terminations, TerminateHost(reason) PROVE app' \in AppRecord
  BY <1>1, <1>10 DEF TerminateHost, Sends, AppRecord
<1>11. ASSUME NEW reason \in Terminations, ShutdownBridge(reason) PROVE app' \in AppRecord
  BY <1>1, <1>11 DEF ShutdownBridge, Sends, AppRecord
<1>12. CASE UNCHANGED app
  BY <1>1, <1>12 DEF AppRecord
<1> QED
  BY <1>2, <1>3, <1>4, <1>5, <1>6, <1>7, <1>8, <1>9, <1>10, <1>11, <1>12 DEF HostNext,
       WriteFrame, ReaderEnds, ReadLaunch, CreateSuspended, AssignToJob, ResumeRoot,
            RefuseLaunch, StartThreads, ControlTop, ControlEnters, ControlReads,
            ControlReadFails, ControlWrites, ControlFails, OutputExceeds, OutputEnds,
            LimitPassed, RootExitSeen, ActiveProcessZero, StopControl, JoinControl,
            JoinOutput, Cleanup, EmitProof, HostExits, HostIsKilled, RootSpawns, ProcessExits

\* The host.
LEMMA MainTyped ==
  ASSUME HostInv, HostNext
  PROVE  main' \in MainRecord
<1>1. /\ HostTypeOK /\ Framed /\ Threaded /\ main \in MainRecord
      /\ Terminations \cup Limits \subseteq DOMAIN ExitCode /\ MaxFrames \in Nat \ {0}
  BY HostAssumption DEF HostInv, HostTypeOK, MainRecord
<1>2. CASE CreateHost
  BY <1>1, <1>2, ExitCodes DEF CreateHost, MainRecord, MainAt, Crashed
<1>3. CASE LaunchHostFails
  <2>1. CASE HostLives
    BY <1>1, <1>3, <2>1, HostEndTypes DEF LaunchHostFails, Crashed
  <2>2. CASE UNCHANGED main
    BY <1>1, <2>2
  <2> QED
    BY <1>3, <2>1, <2>2 DEF LaunchHostFails
<1>4. CASE ReadLaunch
  <2>1. CASE main' = [main EXCEPT !.at = "preparing"]
    BY <1>1, <2>1 DEF MainRecord
  <2>2. CASE HostEnds(71)
    BY <1>1, <2>2, HostEndTypes
  <2> QED
    BY <1>4, <2>1, <2>2 DEF ReadLaunch
<1>5. CASE CreateSuspended
  BY <1>1, <1>5, ExitCodes DEF CreateSuspended, MainRecord, MainAt, Crashed
<1>6. CASE AssignToJob
  BY <1>1, <1>6, ExitCodes DEF AssignToJob, MainRecord, MainAt, Crashed
<1>7. CASE ResumeRoot
  BY <1>1, <1>7, ExitCodes DEF ResumeRoot, MainRecord, MainAt, Crashed
<1>8. CASE RefuseLaunch
  <2>1. PICK code \in Refusals : HostEnds(code)
    BY <1>8 DEF RefuseLaunch
  <2> QED
    BY <1>1, <2>1, HostEndTypes DEF Refusals
<1>9. CASE StartThreads
  BY <1>1, <1>9, ExitCodes DEF StartThreads, Living, Killed, MainRecord, MainAt, Crashed
<1>10. CASE ControlFails
  <2>1. thread.why \in DOMAIN ExitCode
    BY <1>1 DEF HostTypeOK
  <2> QED
    BY <1>1, <1>10, <2>1, HostEndTypes DEF ControlFails
<1>11. CASE OutputExceeds
  BY <1>1, <1>11, ExitCodes DEF OutputExceeds, Living, Killed, FailJob, MainRecord, MainAt,
       Crashed
<1>12. ASSUME NEW limit \in Limits, LimitPassed(limit) PROVE main' \in MainRecord
  BY <1>1, <1>12, ExitCodes DEF LimitPassed, Living, Killed, FailJob, MainRecord, MainAt,
       Crashed
<1>13. CASE RootExitSeen
  BY <1>1, <1>13, ExitCodes DEF RootExitSeen, Living, Killed, MainRecord, MainAt, Crashed
<1>14. CASE ActiveProcessZero
  BY <1>1, <1>14, ExitCodes DEF ActiveProcessZero, Running, MainRecord, MainAt, Crashed
<1>15. CASE StopControl
  BY <1>1, <1>15, ExitCodes DEF StopControl, MainRecord, MainAt, Crashed
<1>16. CASE JoinControl
  BY <1>1, <1>16, ExitCodes DEF JoinControl, MainRecord, MainAt, Crashed
<1>17. CASE JoinOutput
  BY <1>1, <1>17, ExitCodes DEF JoinOutput, MainRecord, MainAt, Crashed
<1>18. CASE Cleanup
  BY <1>1, <1>18, ExitCodes DEF Cleanup, MainRecord, MainAt, Crashed
<1>19. CASE EmitProof
  BY <1>1, <1>19, ExitCodes DEF EmitProof, Outcome, MainRecord, MainAt, Crashed
<1>20. CASE HostExits
  BY <1>1, <1>20, ExitCodes DEF HostExits, Living, Killed, HostEnds, Outcome, MainRecord,
       MainAt, Crashed
<1>21. CASE HostIsKilled
  BY <1>1, <1>21, ExitCodes DEF HostIsKilled, Living, Killed, HostEnds, MainRecord, MainAt,
       Crashed
<1>22. CASE UNCHANGED main
  BY <1>1, <1>22 DEF MainRecord
<1> QED
  BY <1>2, <1>3, <1>4, <1>5, <1>6, <1>7, <1>8, <1>9, <1>10, <1>11, <1>12, <1>13, <1>14, <1>15,
       <1>16, <1>17, <1>18, <1>19, <1>20, <1>21, <1>22 DEF HostNext,
       BeginLaunch, OpenLease, SendLaunch, HandOver, LaunchHandled, WriteFrame, AppDies,
            ReaderEnds, TerminateHost, ShutdownBridge, ControlTop, ControlEnters,
            ControlReads, ControlReadFails, ControlWrites, OutputEnds, RootSpawns,
            ProcessExits

\* Its threads.
LEMMA ThreadTyped ==
  ASSUME HostInv, HostNext
  PROVE  thread' \in ThreadRecord
<1>1. /\ HostTypeOK /\ Framed /\ Threaded /\ thread \in ThreadRecord
      /\ Terminations \cup Limits \subseteq DOMAIN ExitCode /\ MaxFrames \in Nat \ {0}
  BY HostAssumption DEF HostInv, HostTypeOK, ThreadRecord
<1>2. CASE LaunchHostFails
  BY <1>1, <1>2, ExitCodes DEF LaunchHostFails, Living, Killed, HostEnds, ThreadRecord,
       MainAt, Framed, Frames
<1>3. CASE ReadLaunch
  BY <1>1, <1>3, ExitCodes DEF ReadLaunch, HostEnds, ThreadRecord, MainAt, Framed, Frames
<1>4. CASE RefuseLaunch
  BY <1>1, <1>4, ExitCodes, ZenonT(60) DEF RefuseLaunch, Living, HostEnds, Refusals, ThreadRecord, MainAt,
       Framed, Frames
<1>5. CASE StartThreads
  BY <1>1, <1>5, ExitCodes DEF StartThreads, Living, Killed, ThreadRecord, MainAt, Framed,
       Frames
<1>6. CASE ControlTop
  BY <1>1, <1>6, ExitCodes DEF ControlTop, ThreadRecord, MainAt, Framed, Frames
<1>7. CASE ControlEnters
  BY <1>1, <1>7, ExitCodes DEF ControlEnters, ThreadRecord, MainAt, Framed, Frames
<1>8. CASE ControlReads
  <2>1. Head(pipe) \in Frames /\ Head(pipe) = pipe[1] /\ Len(pipe) \in Nat \ {0}
    BY <1>1, <1>8, ReadFrame DEF ControlReads, HostTypeOK
  <2>2. ~MainAt("reading")
    BY <1>1, <1>8 DEF Threaded, Unstarted, ControlReads, MainAt
  <2>3. Head(pipe) # "launch"
    BY <1>1, <2>1, <2>2 DEF Framed
  <2>4. Head(pipe) = "input" \/ Head(pipe) \in DOMAIN ExitCode
    BY <1>1, <2>1, <2>3 DEF Frames
  <2> QED
    BY <1>1, <1>8, <2>4 DEF ControlReads, ThreadRecord
<1>9. CASE ControlReadFails
  BY <1>1, <1>9, ExitCodes DEF ControlReadFails, ThreadRecord, MainAt, Framed, Frames
<1>10. CASE ControlWrites
  BY <1>1, <1>10, ExitCodes DEF ControlWrites, ThreadRecord, MainAt, Framed, Frames
<1>11. CASE ControlFails
  BY <1>1, <1>11, ExitCodes DEF ControlFails, Living, Killed, FailJob, ThreadRecord, MainAt,
       Framed, Frames
<1>12. CASE OutputExceeds
  BY <1>1, <1>12, ExitCodes DEF OutputExceeds, Living, Killed, FailJob, ThreadRecord, MainAt,
       Framed, Frames
<1>13. CASE OutputEnds
  BY <1>1, <1>13, ExitCodes DEF OutputEnds, Running, ThreadRecord, MainAt, Framed, Frames
<1>14. CASE StopControl
  BY <1>1, <1>14, ExitCodes DEF StopControl, ThreadRecord, MainAt, Framed, Frames
<1>15. CASE HostExits
  BY <1>1, <1>15, ExitCodes DEF HostExits, Living, Killed, HostEnds, Outcome, ThreadRecord,
       MainAt, Framed, Frames
<1>16. CASE HostIsKilled
  BY <1>1, <1>16, ExitCodes DEF HostIsKilled, Living, Killed, HostEnds, ThreadRecord, MainAt,
       Framed, Frames
<1>17. CASE UNCHANGED thread
  BY <1>1, <1>17 DEF ThreadRecord
<1> QED
  BY <1>2, <1>3, <1>4, <1>5, <1>6, <1>7, <1>8, <1>9, <1>10, <1>11, <1>12, <1>13, <1>14, <1>15,
       <1>16, <1>17 DEF HostNext,
       BeginLaunch, OpenLease, CreateHost, SendLaunch, HandOver, LaunchHandled, WriteFrame,
            AppDies, ReaderEnds, TerminateHost, ShutdownBridge, CreateSuspended, AssignToJob,
            ResumeRoot, LimitPassed, RootExitSeen, ActiveProcessZero, JoinControl, JoinOutput,
            Cleanup, EmitProof, RootSpawns, ProcessExits

\* Its processes.
LEMMA TreeTyped ==
  ASSUME HostInv, HostNext
  PROVE  tree' \in TreeRecord
<1>1. /\ HostTypeOK /\ Framed /\ Threaded /\ tree \in TreeRecord
      /\ Terminations \cup Limits \subseteq DOMAIN ExitCode /\ MaxFrames \in Nat \ {0}
  BY HostAssumption DEF HostInv, HostTypeOK, TreeRecord
<1>2. CASE LaunchHostFails
  BY <1>1, <1>2 DEF LaunchHostFails, Living, Killed, HostEnds, TreeRecord
<1>3. CASE CreateSuspended
  BY <1>1, <1>3 DEF CreateSuspended, TreeRecord, Living
<1>4. CASE AssignToJob
  BY <1>1, <1>4 DEF AssignToJob, TreeRecord, Living
<1>5. CASE ResumeRoot
  BY <1>1, <1>5 DEF ResumeRoot, TreeRecord, Living
<1>6. CASE RefuseLaunch
  BY <1>1, <1>6 DEF RefuseLaunch, Living, HostEnds, Refusals, TreeRecord
<1>7. CASE StartThreads
  BY <1>1, <1>7 DEF StartThreads, Living, Killed, TreeRecord
<1>8. CASE ControlFails
  BY <1>1, <1>8 DEF ControlFails, Living, Killed, FailJob, TreeRecord
<1>9. CASE OutputExceeds
  BY <1>1, <1>9 DEF OutputExceeds, Living, Killed, FailJob, TreeRecord
<1>10. ASSUME NEW limit \in Limits, LimitPassed(limit) PROVE tree' \in TreeRecord
  BY <1>1, <1>10 DEF LimitPassed, Living, Killed, FailJob, TreeRecord
<1>11. CASE RootExitSeen
  BY <1>1, <1>11 DEF RootExitSeen, Living, Killed, TreeRecord
<1>12. CASE HostExits
  BY <1>1, <1>12 DEF HostExits, Living, Killed, HostEnds, Outcome, TreeRecord
<1>13. CASE HostIsKilled
  BY <1>1, <1>13 DEF HostIsKilled, Living, Killed, HostEnds, TreeRecord
<1>14. CASE RootSpawns
  BY <1>1, <1>14 DEF RootSpawns, TreeRecord, Living
<1>15. ASSUME NEW p \in {"root", "child"}, ProcessExits(p) PROVE tree' \in TreeRecord
  BY <1>1, <1>15 DEF ProcessExits, Running, TreeRecord, Living
<1>16. CASE UNCHANGED tree
  BY <1>1, <1>16 DEF TreeRecord
<1> QED
  BY <1>2, <1>3, <1>4, <1>5, <1>6, <1>7, <1>8, <1>9, <1>10, <1>11, <1>12, <1>13, <1>14, <1>15,
       <1>16 DEF HostNext,
       BeginLaunch, OpenLease, CreateHost, SendLaunch, HandOver, LaunchHandled, WriteFrame,
            AppDies, ReaderEnds, TerminateHost, ShutdownBridge, ReadLaunch, ControlTop,
            ControlEnters, ControlReads, ControlReadFails, ControlWrites, OutputEnds,
            ActiveProcessZero, StopControl, JoinControl, JoinOutput, Cleanup, EmitProof

\* What is reported.
LEMMA ReportTyped ==
  ASSUME HostInv, HostNext
  PROVE  report' \in ReportRecord
<1>1. /\ HostTypeOK /\ Framed /\ Threaded /\ report \in ReportRecord
      /\ Terminations \cup Limits \subseteq DOMAIN ExitCode /\ MaxFrames \in Nat \ {0}
  BY HostAssumption DEF HostInv, HostTypeOK, ReportRecord
<1>2. CASE HandOver
  BY <1>1, <1>2, ExitCodes DEF HandOver, ReportRecord, MainRecord, HostTypeOK, Outcome
<1>3. CASE AppDies
  BY <1>1, <1>3, ExitCodes DEF AppDies, ReportRecord, MainRecord, HostTypeOK, Outcome
<1>4. CASE ReaderEnds
  BY <1>1, <1>4, ExitCodes DEF ReaderEnds, ReportRecord, MainRecord, HostTypeOK, Outcome
<1>5. CASE EmitProof
  BY <1>1, <1>5, ExitCodes DEF EmitProof, Outcome, ReportRecord, MainRecord, HostTypeOK
<1>6. CASE UNCHANGED report
  BY <1>1, <1>6 DEF ReportRecord
<1> QED
  BY <1>2, <1>3, <1>4, <1>5, <1>6 DEF HostNext,
       BeginLaunch, OpenLease, CreateHost, LaunchHostFails, SendLaunch, LaunchHandled,
            WriteFrame, TerminateHost, ShutdownBridge, ReadLaunch, CreateSuspended,
            AssignToJob, ResumeRoot, RefuseLaunch, StartThreads, ControlTop, ControlEnters,
            ControlReads, ControlReadFails, ControlWrites, ControlFails, OutputExceeds,
            OutputEnds, LimitPassed, RootExitSeen, ActiveProcessZero, StopControl,
            JoinControl, JoinOutput, Cleanup, HostExits, HostIsKilled, RootSpawns,
            ProcessExits

\* The pipe.
LEMMA PipeTyped ==
  ASSUME HostInv, HostNext
  PROVE  pipe' \in Seq(Frames) /\ Len(pipe') <= MaxFrames
<1>1. /\ HostTypeOK /\ Framed /\ Threaded /\ pipe \in Seq(Frames) /\ Len(pipe) <= MaxFrames
      /\ Terminations \cup Limits \subseteq DOMAIN ExitCode /\ MaxFrames \in Nat \ {0}
  BY HostAssumption DEF HostInv, HostTypeOK, HostTypeOK
<1>2. CASE LaunchHostFails
  <2>1. CASE pipe' = <<>>
    BY <1>1, <2>1, EmptySeq
  <2>2. CASE UNCHANGED pipe
    BY <1>1, <2>2
  <2> QED
    BY <1>2, <2>1, <2>2 DEF LaunchHostFails, HostEnds
<1>3. CASE SendLaunch
  BY <1>1, <1>3 DEF SendLaunch, Sends, HostLives, Framed, Frames, HostTypeOK
<1>4. CASE WriteFrame
  BY <1>1, <1>4 DEF WriteFrame, Sends, HostLives, Framed, Frames, HostTypeOK
<1>5. ASSUME NEW reason \in Terminations, TerminateHost(reason)
      PROVE  pipe' \in Seq(Frames) /\ Len(pipe') <= MaxFrames
  BY <1>1, <1>5 DEF TerminateHost, Sends, HostLives, Framed, Frames, HostTypeOK
<1>6. ASSUME NEW reason \in Terminations, ShutdownBridge(reason)
      PROVE  pipe' \in Seq(Frames) /\ Len(pipe') <= MaxFrames
  <2>1. CASE UNCHANGED pipe
    BY <1>1, <2>1
  <2>2. CASE Sends(reason) /\ Len(pipe) < MaxFrames
    <3>1. CASE HostLives
      BY <1>1, <2>2, <3>1, WrittenFrame DEF Sends, Frames
    <3> QED
      BY <1>1, <2>2, <3>1 DEF Sends
  <2> QED
    BY <1>6, <2>1, <2>2 DEF ShutdownBridge
<1>7. CASE ReadLaunch
  <2>1. CASE pipe # <<>> /\ pipe' = Tail(pipe)
    BY <1>1, <2>1, ReadFrame
  <2>2. CASE pipe' = <<>>
    BY <1>1, <2>2, EmptySeq
  <2> QED
    BY <1>7, <2>1, <2>2 DEF ReadLaunch, HostEnds
<1>8. CASE RefuseLaunch
  BY <1>1, <1>8 DEF RefuseLaunch, Living, HostEnds, Refusals, HostLives, Framed, Frames,
       HostTypeOK
<1>9. CASE ControlReads
  BY <1>1, <1>9 DEF ControlReads, HostLives, Framed, Frames, HostTypeOK
<1>10. CASE HostExits
  BY <1>1, <1>10 DEF HostExits, Living, Killed, HostEnds, Outcome, HostLives, Framed, Frames,
       HostTypeOK
<1>11. CASE HostIsKilled
  BY <1>1, <1>11 DEF HostIsKilled, Living, Killed, HostEnds, HostLives, Framed, Frames,
       HostTypeOK
<1>12. CASE UNCHANGED pipe
  BY <1>1, <1>12 DEF HostTypeOK
<1> QED
  BY <1>2, <1>3, <1>4, <1>5, <1>6, <1>7, <1>8, <1>9, <1>10, <1>11, <1>12 DEF HostNext,
       BeginLaunch, OpenLease, CreateHost, HandOver, LaunchHandled, AppDies, ReaderEnds,
            CreateSuspended, AssignToJob, ResumeRoot, StartThreads, ControlTop, ControlEnters,
            ControlReadFails, ControlWrites, ControlFails, OutputExceeds, OutputEnds,
            LimitPassed, RootExitSeen, ActiveProcessZero, StopControl, JoinControl,
            JoinOutput, Cleanup, EmitProof, RootSpawns, ProcessExits

\* ... hence all of them.
LEMMA HostTypesKept ==
  ASSUME HostInv, HostNext
  PROVE  HostTypeOK'
BY AppTyped, MainTyped, ThreadTyped, TreeTyped, ReportTyped, PipeTyped
   DEF HostTypeOK, AppRecord, MainRecord, ThreadRecord, TreeRecord, ReportRecord

\* Every step reads the launch frame before all others ...
LEMMA FramedKept ==
  ASSUME HostInv, HostNext
  PROVE  Framed'
<1>1. /\ HostTypeOK /\ Framed /\ Threaded /\ Terminations \cup Limits \subseteq DOMAIN ExitCode
      /\ pipe \in Seq(Frames) /\ pipe' \in Seq(Frames)
  BY HostAssumption, PipeTyped DEF HostInv, HostTypeOK
<1>2. CASE BeginLaunch
  BY <1>1, <1>2, ExitCodes DEF MainAt, HostLives, BeginLaunch, HostTypeOK, Framed
<1>3. CASE OpenLease
  BY <1>1, <1>3, ExitCodes DEF MainAt, HostLives, OpenLease, HostTypeOK, Framed
<1>4. CASE CreateHost
  BY <1>1, <1>4, ExitCodes DEF MainAt, HostLives, CreateHost, HostTypeOK, Framed
<1>5. CASE LaunchHostFails
  BY <1>1, <1>5, ExitCodes DEF MainAt, HostLives, LaunchHostFails, Living, Killed, HostEnds,
       HostTypeOK, Framed
<1>6. CASE SendLaunch
  <2>1. pipe = <<>> /\ pipe' = Append(<<>>, "launch") /\ UNCHANGED main
    BY <1>1, <1>6 DEF SendLaunch, Sends, Framed
  <2>2. Len(pipe') = 1 /\ app'.launch = "sent"
    BY <1>1, <1>6, <2>1 DEF SendLaunch, HostTypeOK
  <2>3. MainAt("reading")
    BY <1>1, <1>6 DEF Framed, SendLaunch, HostLives, MainAt
  <2> QED
    BY <1>1, <2>1, <2>2, <2>3 DEF Framed, MainAt
<1>7. CASE HandOver
  BY <1>1, <1>7, ExitCodes DEF MainAt, HostLives, HandOver, HostTypeOK, Framed
<1>8. CASE LaunchHandled
  BY <1>1, <1>8, ExitCodes DEF MainAt, HostLives, LaunchHandled, HostTypeOK, Framed
<1>9. CASE WriteFrame
  BY <1>1, <1>9, ExitCodes DEF MainAt, HostLives, WriteFrame, Sends, HostTypeOK, Framed
<1>10. CASE AppDies
  BY <1>1, <1>10, ExitCodes DEF MainAt, HostLives, AppDies, HostTypeOK, Framed
<1>11. CASE ReaderEnds
  BY <1>1, <1>11, ExitCodes DEF MainAt, HostLives, ReaderEnds, HostTypeOK, Framed
<1>12. ASSUME NEW reason \in Terminations, TerminateHost(reason) PROVE Framed'
  BY <1>1, <1>12, ExitCodes, SMTT(30) DEF MainAt, HostLives, TerminateHost, Sends, HostTypeOK, Framed
<1>13. ASSUME NEW reason \in Terminations, ShutdownBridge(reason) PROVE Framed'
  <2>1. UNCHANGED main /\ app'.launch = app.launch
    BY <1>1, <1>13 DEF ShutdownBridge, HostTypeOK
  <2>2. CASE UNCHANGED pipe
    BY <1>1, <2>1, <2>2 DEF Framed, MainAt
  <2>3. CASE HostLives /\ app.launch = "returned" /\ pipe' = Append(pipe, reason)
    <3>1. reason # "launch" /\ reason \in Frames
      BY <1>1, ExitCodes DEF Frames
    <3>2. \A i \in 1..Len(pipe') : pipe'[i] = "launch" => i \in 1..Len(pipe) /\ pipe'[i] = pipe[i]
      BY <1>1, <2>3, <3>1, WrittenFrame
    <3> QED
      BY <1>1, <2>1, <2>3, <3>2 DEF Framed, MainAt, HostLives
  <2> QED
    BY <1>1, <1>13, <2>2, <2>3 DEF ShutdownBridge, Sends
<1>14. CASE ReadLaunch
  <2>1. CASE pipe # <<>> /\ pipe' = Tail(pipe) /\ main' = [main EXCEPT !.at = "preparing"]
    <3>1. \A i \in 1..Len(pipe') : pipe'[i] # "launch"
      <4>1. \A i \in 1..Len(pipe') : i + 1 \in 1..Len(pipe) /\ i + 1 # 1 /\ pipe'[i] = pipe[i + 1]
        BY <1>1, <2>1, ReadFrame
      <4> QED
        BY <1>1, <4>1 DEF Framed
    <3> QED
      BY <1>1, <1>14, <2>1, <3>1 DEF Framed, ReadLaunch, HostTypeOK, MainAt
  <2>2. CASE HostEnds(71)
    BY <1>1, <1>14, <2>2 DEF Framed, ReadLaunch, HostEnds, HostTypeOK, MainAt
  <2> QED
    BY <1>14, <2>1, <2>2 DEF ReadLaunch
<1>15. CASE CreateSuspended
  BY <1>1, <1>15, ExitCodes DEF MainAt, HostLives, CreateSuspended, HostTypeOK, Framed
<1>16. CASE AssignToJob
  BY <1>1, <1>16, ExitCodes DEF MainAt, HostLives, AssignToJob, HostTypeOK, Framed
<1>17. CASE ResumeRoot
  BY <1>1, <1>17, ExitCodes DEF MainAt, HostLives, ResumeRoot, HostTypeOK, Framed
<1>18. CASE RefuseLaunch
  BY <1>1, <1>18, ExitCodes DEF MainAt, HostLives, RefuseLaunch, Living, HostEnds, Refusals,
       HostTypeOK, Framed
<1>19. CASE StartThreads
  BY <1>1, <1>19, ExitCodes DEF MainAt, HostLives, StartThreads, Living, Killed, HostTypeOK,
       Framed
<1>20. CASE ControlTop
  BY <1>1, <1>20, ExitCodes DEF MainAt, HostLives, ControlTop, HostTypeOK, Framed
<1>21. CASE ControlEnters
  BY <1>1, <1>21, ExitCodes DEF MainAt, HostLives, ControlEnters, HostTypeOK, Framed
<1>22. CASE ControlReads
  <2>1. main.at \notin Unstarted
    BY <1>1, <1>22 DEF Threaded, ControlReads
  <2>2. \A i \in 1..Len(pipe') : i + 1 \in 1..Len(pipe) /\ pipe'[i] = pipe[i + 1]
    BY <1>1, <1>22, ReadFrame DEF ControlReads
  <2>3. \A i \in 1..Len(pipe') : pipe'[i] # "launch"
    BY <1>1, <2>1, <2>2 DEF Framed, Unstarted, MainAt
  <2> QED
    BY <1>1, <1>22, <2>1, <2>3 DEF Framed, ControlReads, Unstarted, MainAt
<1>23. CASE ControlReadFails
  BY <1>1, <1>23, ExitCodes DEF MainAt, HostLives, ControlReadFails, HostTypeOK, Framed
<1>24. CASE ControlWrites
  BY <1>1, <1>24, ExitCodes DEF MainAt, HostLives, ControlWrites, HostTypeOK, Framed
<1>25. CASE ControlFails
  BY <1>1, <1>25, ExitCodes DEF MainAt, HostLives, ControlFails, Living, Killed, FailJob,
       HostTypeOK, Framed
<1>26. CASE OutputExceeds
  BY <1>1, <1>26, ExitCodes DEF MainAt, HostLives, OutputExceeds, Living, Killed, FailJob,
       HostTypeOK, Framed
<1>27. CASE OutputEnds
  BY <1>1, <1>27, ExitCodes DEF MainAt, HostLives, OutputEnds, Running, HostTypeOK, Framed
<1>28. ASSUME NEW limit \in Limits, LimitPassed(limit) PROVE Framed'
  BY <1>1, <1>28, ExitCodes DEF MainAt, HostLives, LimitPassed, Living, Killed, FailJob,
       HostTypeOK, Framed
<1>29. CASE RootExitSeen
  BY <1>1, <1>29, ExitCodes DEF MainAt, HostLives, RootExitSeen, Living, Killed, HostTypeOK,
       Framed
<1>30. CASE ActiveProcessZero
  BY <1>1, <1>30, ExitCodes DEF MainAt, HostLives, ActiveProcessZero, Running, HostTypeOK,
       Framed
<1>31. CASE StopControl
  BY <1>1, <1>31, ExitCodes DEF MainAt, HostLives, StopControl, HostTypeOK, Framed
<1>32. CASE JoinControl
  BY <1>1, <1>32, ExitCodes DEF MainAt, HostLives, JoinControl, HostTypeOK, Framed
<1>33. CASE JoinOutput
  BY <1>1, <1>33, ExitCodes DEF MainAt, HostLives, JoinOutput, HostTypeOK, Framed
<1>34. CASE Cleanup
  BY <1>1, <1>34, ExitCodes DEF MainAt, HostLives, Cleanup, HostTypeOK, Framed
<1>35. CASE EmitProof
  BY <1>1, <1>35, ExitCodes DEF MainAt, HostLives, EmitProof, Outcome, HostTypeOK, Framed
<1>36. CASE HostExits
  BY <1>1, <1>36, ExitCodes DEF MainAt, HostLives, HostExits, Living, Killed, HostEnds,
       Outcome, HostTypeOK, Framed
<1>37. CASE HostIsKilled
  BY <1>1, <1>37, ExitCodes DEF MainAt, HostLives, HostIsKilled, Living, Killed, HostEnds,
       HostTypeOK, Framed
<1>38. CASE RootSpawns
  BY <1>1, <1>38, ExitCodes DEF MainAt, HostLives, RootSpawns, HostTypeOK, Framed
<1>39. ASSUME NEW p \in {"root", "child"}, ProcessExits(p) PROVE Framed'
  BY <1>1, <1>39, ExitCodes DEF MainAt, HostLives, ProcessExits, Running, HostTypeOK, Framed
<1> QED
  BY <1>2, <1>3, <1>4, <1>5, <1>6, <1>7, <1>8, <1>9, <1>10, <1>11, <1>12, <1>13, <1>14, <1>15,
       <1>16, <1>17, <1>18, <1>19, <1>20, <1>21, <1>22, <1>23, <1>24, <1>25, <1>26, <1>27,
       <1>28, <1>29, <1>30, <1>31, <1>32, <1>33, <1>34, <1>35, <1>36, <1>37, <1>38, <1>39 DEF
       HostNext

\* ... lets no thread end, or say why, but as the host's main loop expects ...
LEMMA ThreadedKept ==
  ASSUME HostInv, HostNext
  PROVE  Threaded'
<1>1. /\ HostTypeOK /\ Framed /\ Threaded
      /\ "completed" \notin Terminations \cup Limits
      /\ Terminations \cup Limits \subseteq DOMAIN ExitCode
  BY HostAssumption DEF HostInv
<1>2. CASE BeginLaunch
  BY <1>1, <1>2, ExitCodes DEF MainAt, HostLives, BeginLaunch, HostTypeOK, Framed, Threaded,
       Unstarted, Joined, Frames
<1>3. CASE OpenLease
  BY <1>1, <1>3, ExitCodes DEF MainAt, HostLives, OpenLease, HostTypeOK, Framed, Threaded,
       Unstarted, Joined, Frames
<1>4. CASE CreateHost
  BY <1>1, <1>4, ExitCodes DEF MainAt, HostLives, CreateHost, HostTypeOK, Framed, Threaded,
       Unstarted, Joined, Frames
<1>5. CASE LaunchHostFails
  <2>1. CASE HostLives
    <3>1. HostEnds(Crashed)
      BY <1>5, <2>1 DEF LaunchHostFails
    <3> QED
      BY <1>1, <3>1, HostEnded DEF MainAt, Threaded, Unstarted, Joined
  <2>2. CASE UNCHANGED <<main, thread>>
    BY <1>1, <2>2 DEF Threaded, Unstarted, Joined, MainAt
  <2> QED
    BY <1>5, <2>1, <2>2 DEF LaunchHostFails
<1>6. CASE SendLaunch
  BY <1>1, <1>6, ExitCodes DEF MainAt, HostLives, SendLaunch, Sends, HostTypeOK, Framed,
       Threaded, Unstarted, Joined, Frames
<1>7. CASE HandOver
  BY <1>1, <1>7, ExitCodes DEF MainAt, HostLives, HandOver, HostTypeOK, Framed, Threaded,
       Unstarted, Joined, Frames
<1>8. CASE LaunchHandled
  BY <1>1, <1>8, ExitCodes DEF MainAt, HostLives, LaunchHandled, HostTypeOK, Framed, Threaded,
       Unstarted, Joined, Frames
<1>9. CASE WriteFrame
  BY <1>1, <1>9, ExitCodes DEF MainAt, HostLives, WriteFrame, Sends, HostTypeOK, Framed,
       Threaded, Unstarted, Joined, Frames
<1>10. CASE AppDies
  BY <1>1, <1>10, ExitCodes DEF MainAt, HostLives, AppDies, HostTypeOK, Framed, Threaded,
       Unstarted, Joined, Frames
<1>11. CASE ReaderEnds
  BY <1>1, <1>11, ExitCodes DEF MainAt, HostLives, ReaderEnds, HostTypeOK, Framed, Threaded,
       Unstarted, Joined, Frames
<1>12. ASSUME NEW reason \in Terminations, TerminateHost(reason) PROVE Threaded'
  BY <1>1, <1>12, ExitCodes DEF MainAt, HostLives, TerminateHost, Sends, HostTypeOK, Framed,
       Threaded, Unstarted, Joined, Frames
<1>13. ASSUME NEW reason \in Terminations, ShutdownBridge(reason) PROVE Threaded'
  BY <1>1, <1>13, ExitCodes DEF MainAt, HostLives, ShutdownBridge, Sends, HostTypeOK, Framed,
       Threaded, Unstarted, Joined, Frames
<1>14. CASE ReadLaunch
  <2>1. CASE main' = [main EXCEPT !.at = "preparing"] /\ UNCHANGED thread
    BY <1>1, <1>14, <2>1
       DEF ReadLaunch, HostTypeOK, MainAt, Threaded, Unstarted, Joined
  <2>2. CASE HostEnds(71)
    BY <1>1, <1>14, <2>2
       DEF HostEnds, HostTypeOK, MainAt, Threaded, Unstarted, Joined
  <2> QED
    BY <1>14, <2>1, <2>2 DEF ReadLaunch
<1>15. CASE CreateSuspended
  BY <1>1, <1>15, ExitCodes DEF MainAt, HostLives, CreateSuspended, HostTypeOK, Framed,
       Threaded, Unstarted, Joined, Frames
<1>16. CASE AssignToJob
  BY <1>1, <1>16, ExitCodes DEF MainAt, HostLives, AssignToJob, HostTypeOK, Framed, Threaded,
       Unstarted, Joined, Frames
<1>17. CASE ResumeRoot
  BY <1>1, <1>17, ExitCodes DEF MainAt, HostLives, ResumeRoot, HostTypeOK, Framed, Threaded,
       Unstarted, Joined, Frames
<1>18. CASE RefuseLaunch
  BY <1>1, <1>18, ExitCodes DEF MainAt, HostLives, RefuseLaunch, Living, HostEnds, Refusals,
       HostTypeOK, Framed, Threaded, Unstarted, Joined, Frames
<1>19. CASE StartThreads
  BY <1>1, <1>19, ExitCodes DEF MainAt, HostLives, StartThreads, Living, Killed, HostTypeOK,
       Framed, Threaded, Unstarted, Joined, Frames
<1>20. CASE ControlTop
  BY <1>1, <1>20, ExitCodes DEF MainAt, HostLives, ControlTop, HostTypeOK, Framed, Threaded,
       Unstarted, Joined, Frames
<1>21. CASE ControlEnters
  BY <1>1, <1>21, ExitCodes DEF MainAt, HostLives, ControlEnters, HostTypeOK, Framed,
       Threaded, Unstarted, Joined, Frames
<1>22. CASE ControlReads
  <2>1. Head(pipe) \in Frames
    BY <1>1, <1>22, ReadFrame DEF ControlReads, HostTypeOK
  <2>2. Head(pipe) # "completed"
    BY <1>1, <2>1 DEF Frames
  <2> QED
    BY <1>1, <1>22, <2>2
       DEF ControlReads, HostTypeOK, MainAt, Threaded, Unstarted, Joined
<1>23. CASE ControlReadFails
  BY <1>1, <1>23, ExitCodes DEF MainAt, HostLives, ControlReadFails, HostTypeOK, Framed,
       Threaded, Unstarted, Joined, Frames
<1>24. CASE ControlWrites
  BY <1>1, <1>24, ExitCodes, ZenonT(60) DEF MainAt, HostLives, ControlWrites, HostTypeOK, Framed,
       Threaded, Unstarted, Joined, Frames
<1>25. CASE ControlFails
  BY <1>1, <1>25, ExitCodes DEF MainAt, HostLives, ControlFails, Living, Killed, FailJob,
       HostTypeOK, Framed, Threaded, Unstarted, Joined, Frames
<1>26. CASE OutputExceeds
  BY <1>1, <1>26, ExitCodes DEF MainAt, HostLives, OutputExceeds, Living, Killed, FailJob,
       HostTypeOK, Framed, Threaded, Unstarted, Joined, Frames
<1>27. CASE OutputEnds
  BY <1>1, <1>27, ExitCodes DEF MainAt, HostLives, OutputEnds, Running, HostTypeOK, Framed,
       Threaded, Unstarted, Joined, Frames
<1>28. ASSUME NEW limit \in Limits, LimitPassed(limit) PROVE Threaded'
  BY <1>1, <1>28, ExitCodes DEF MainAt, HostLives, LimitPassed, Living, Killed, FailJob,
       HostTypeOK, Framed, Threaded, Unstarted, Joined, Frames
<1>29. CASE RootExitSeen
  BY <1>1, <1>29, ExitCodes DEF MainAt, HostLives, RootExitSeen, Living, Killed, HostTypeOK,
       Framed, Threaded, Unstarted, Joined, Frames
<1>30. CASE ActiveProcessZero
  BY <1>1, <1>30, ExitCodes DEF MainAt, HostLives, ActiveProcessZero, Running, HostTypeOK,
       Framed, Threaded, Unstarted, Joined, Frames
<1>31. CASE StopControl
  BY <1>1, <1>31, ExitCodes DEF MainAt, HostLives, StopControl, HostTypeOK, Framed, Threaded,
       Unstarted, Joined, Frames
<1>32. CASE JoinControl
  BY <1>1, <1>32, ExitCodes DEF MainAt, HostLives, JoinControl, HostTypeOK, Framed, Threaded,
       Unstarted, Joined, Frames
<1>33. CASE JoinOutput
  BY <1>1, <1>33, ExitCodes DEF MainAt, HostLives, JoinOutput, HostTypeOK, Framed, Threaded,
       Unstarted, Joined, Frames
<1>34. CASE Cleanup
  BY <1>1, <1>34, ExitCodes DEF MainAt, HostLives, Cleanup, HostTypeOK, Framed, Threaded,
       Unstarted, Joined, Frames
<1>35. CASE EmitProof
  BY <1>1, <1>35, ExitCodes DEF MainAt, HostLives, EmitProof, Outcome, HostTypeOK, Framed,
       Threaded, Unstarted, Joined, Frames
<1>36. CASE HostExits
  BY <1>1, <1>36, ExitCodes DEF MainAt, HostLives, HostExits, Living, Killed, HostEnds,
       Outcome, HostTypeOK, Framed, Threaded, Unstarted, Joined, Frames
<1>37. CASE HostIsKilled
  BY <1>1, <1>37, ExitCodes DEF MainAt, HostLives, HostIsKilled, Living, Killed, HostEnds,
       HostTypeOK, Framed, Threaded, Unstarted, Joined, Frames
<1>38. CASE RootSpawns
  BY <1>1, <1>38, ExitCodes DEF MainAt, HostLives, RootSpawns, HostTypeOK, Framed, Threaded,
       Unstarted, Joined, Frames
<1>39. ASSUME NEW p \in {"root", "child"}, ProcessExits(p) PROVE Threaded'
  BY <1>1, <1>39, ExitCodes DEF MainAt, HostLives, ProcessExits, Running, HostTypeOK, Framed,
       Threaded, Unstarted, Joined, Frames
<1> QED
  BY <1>2, <1>3, <1>4, <1>5, <1>6, <1>7, <1>8, <1>9, <1>10, <1>11, <1>12, <1>13, <1>14, <1>15,
       <1>16, <1>17, <1>18, <1>19, <1>20, <1>21, <1>22, <1>23, <1>24, <1>25, <1>26, <1>27,
       <1>28, <1>29, <1>30, <1>31, <1>32, <1>33, <1>34, <1>35, <1>36, <1>37, <1>38, <1>39 DEF
       HostNext

\* ... leaves no process without its job, or killed without a reason ...
LEMMA JobbedKept ==
  ASSUME HostInv, HostNext
  PROVE  Jobbed'
<1>1. /\ HostTypeOK /\ Framed /\ Threaded /\ Jobbed
      /\ "completed" \notin Terminations \cup Limits
  BY HostAssumption DEF HostInv
<1>2. CASE BeginLaunch
  BY <1>1, <1>2 DEF MainAt, HostLives, BeginLaunch, HostTypeOK, Framed, Threaded, Jobbed,
       Unstarted, Joined, Running, Living
<1>3. CASE OpenLease
  BY <1>1, <1>3 DEF MainAt, HostLives, OpenLease, HostTypeOK, Framed, Threaded, Jobbed,
       Unstarted, Joined, Running, Living
<1>4. CASE CreateHost
  BY <1>1, <1>4 DEF MainAt, HostLives, CreateHost, HostTypeOK, Framed, Threaded, Jobbed,
       Unstarted, Joined, Running, Living
<1>5. CASE LaunchHostFails
  <2>1. Running' = {}
    BY <1>1, <1>5, JobKilled DEF LaunchHostFails
  <2>2. main'.at \in {"none", "gone"}
    BY <1>1, <1>5, HostEnded DEF LaunchHostFails, HostLives
  <2> QED
    BY <2>1, <2>2 DEF MainAt, Jobbed, Unstarted
<1>6. CASE SendLaunch
  BY <1>1, <1>6 DEF MainAt, HostLives, SendLaunch, Sends, HostTypeOK, Framed, Threaded,
       Jobbed, Unstarted, Joined, Running, Living
<1>7. CASE HandOver
  BY <1>1, <1>7 DEF MainAt, HostLives, HandOver, HostTypeOK, Framed, Threaded, Jobbed,
       Unstarted, Joined, Running, Living
<1>8. CASE LaunchHandled
  BY <1>1, <1>8 DEF MainAt, HostLives, LaunchHandled, HostTypeOK, Framed, Threaded, Jobbed,
       Unstarted, Joined, Running, Living
<1>9. CASE WriteFrame
  BY <1>1, <1>9 DEF MainAt, HostLives, WriteFrame, Sends, HostTypeOK, Framed, Threaded,
       Jobbed, Unstarted, Joined, Running, Living
<1>10. CASE AppDies
  BY <1>1, <1>10 DEF MainAt, HostLives, AppDies, HostTypeOK, Framed, Threaded, Jobbed,
       Unstarted, Joined, Running, Living
<1>11. CASE ReaderEnds
  BY <1>1, <1>11 DEF MainAt, HostLives, ReaderEnds, HostTypeOK, Framed, Threaded, Jobbed,
       Unstarted, Joined, Running, Living
<1>12. ASSUME NEW reason \in Terminations, TerminateHost(reason) PROVE Jobbed'
  BY <1>1, <1>12 DEF MainAt, HostLives, TerminateHost, Sends, HostTypeOK, Framed, Threaded,
       Jobbed, Unstarted, Joined, Running, Living
<1>13. ASSUME NEW reason \in Terminations, ShutdownBridge(reason) PROVE Jobbed'
  BY <1>1, <1>13 DEF MainAt, HostLives, ShutdownBridge, Sends, HostTypeOK, Framed, Threaded,
       Jobbed, Unstarted, Joined, Running, Living
<1>14. CASE ReadLaunch
  <2>1. CASE main' = [main EXCEPT !.at = "preparing"] /\ UNCHANGED thread
    BY <1>1, <1>14, <2>1
       DEF ReadLaunch, HostTypeOK, MainAt, Threaded, Jobbed, Unstarted, Joined, Running, Living
  <2>2. CASE HostEnds(71)
    BY <1>1, <1>14, <2>2
       DEF ReadLaunch, HostEnds, HostTypeOK, MainAt, Threaded, Jobbed, Unstarted, Joined,
           Running, Living
  <2> QED
    BY <1>14, <2>1, <2>2 DEF ReadLaunch
<1>15. CASE CreateSuspended
  BY <1>1, <1>15 DEF MainAt, HostLives, CreateSuspended, HostTypeOK, Framed, Threaded, Jobbed,
       Unstarted, Joined, Running, Living
<1>16. CASE AssignToJob
  BY <1>1, <1>16 DEF MainAt, HostLives, AssignToJob, HostTypeOK, Framed, Threaded, Jobbed,
       Unstarted, Joined, Running, Living
<1>17. CASE ResumeRoot
  BY <1>1, <1>17 DEF MainAt, HostLives, ResumeRoot, HostTypeOK, Framed, Threaded, Jobbed,
       Unstarted, Joined, Running, Living
<1>18. CASE RefuseLaunch
  BY <1>1, <1>18 DEF MainAt, HostLives, RefuseLaunch, Living, HostEnds, Refusals, HostTypeOK,
       Framed, Threaded, Jobbed, Unstarted, Joined, Running
<1>19. CASE StartThreads
  <2>1. PICK taken \in BOOLEAN :
          /\ main' = [main EXCEPT !.at = "watching", !.clean = taken]
          /\ tree' = IF taken THEN tree ELSE Killed
    BY <1>19 DEF StartThreads
  <2>2. CASE taken
    BY <1>1, <1>19, <2>1, <2>2
       DEF StartThreads, HostTypeOK, MainAt, Threaded, Jobbed, Unstarted, Joined, Running,
           Living
  <2>3. CASE ~taken
    <3>1. Running' = {} /\ tree'.root \in {"running", "exited", "killed"}
      BY <1>1, <1>19, <2>1, <2>3, JobKilled DEF StartThreads, Jobbed, MainAt
    <3>2. main'.at = "watching" /\ ~main'.clean
      BY <1>1, <2>1, <2>3 DEF HostTypeOK
    <3> QED
      BY <3>1, <3>2 DEF Jobbed, MainAt, Unstarted
  <2> QED
    BY <2>2, <2>3
<1>20. CASE ControlTop
  BY <1>1, <1>20 DEF MainAt, HostLives, ControlTop, HostTypeOK, Framed, Threaded, Jobbed,
       Unstarted, Joined, Running, Living
<1>21. CASE ControlEnters
  BY <1>1, <1>21 DEF MainAt, HostLives, ControlEnters, HostTypeOK, Framed, Threaded, Jobbed,
       Unstarted, Joined, Running, Living
<1>22. CASE ControlReads
  BY <1>1, <1>22 DEF MainAt, HostLives, ControlReads, HostTypeOK, Framed, Threaded, Jobbed,
       Unstarted, Joined, Running, Living
<1>23. CASE ControlReadFails
  BY <1>1, <1>23 DEF MainAt, HostLives, ControlReadFails, HostTypeOK, Framed, Threaded,
       Jobbed, Unstarted, Joined, Running, Living
<1>24. CASE ControlWrites
  BY <1>1, <1>24 DEF MainAt, HostLives, ControlWrites, HostTypeOK, Framed, Threaded, Jobbed,
       Unstarted, Joined, Running, Living
<1>25. CASE ControlFails
  <2>1. main.at \notin Unstarted \cup {"gone"} /\ thread.why # "completed"
    BY <1>1, <1>25, ExitCodes DEF ControlFails, Threaded, MainAt, Unstarted
  <2>2. /\ main'.at = main.at /\ main'.reason # "completed" /\ Running' = {}
        /\ tree'.root \in {tree.root, "killed"}
    BY <1>1, <1>25, <2>1, JobFailed, JobKilled DEF ControlFails, MainAt
  <2> QED
    BY <1>1, <2>1, <2>2 DEF MainAt, Jobbed, Unstarted
<1>26. CASE OutputExceeds
  <2>1. main.at \notin Unstarted \cup {"gone"} /\ "output" # "completed"
    BY <1>1, <1>26, ExitCodes DEF OutputExceeds, Threaded, MainAt, Unstarted
  <2>2. /\ main'.at = main.at /\ main'.reason # "completed" /\ Running' = {}
        /\ tree'.root \in {tree.root, "killed"}
    BY <1>1, <1>26, <2>1, JobFailed, JobKilled DEF OutputExceeds, MainAt
  <2> QED
    BY <1>1, <2>1, <2>2 DEF MainAt, Jobbed, Unstarted
<1>27. CASE OutputEnds
  BY <1>1, <1>27 DEF MainAt, HostLives, OutputEnds, Running, HostTypeOK, Framed, Threaded,
       Jobbed, Unstarted, Joined, Living
<1>28. ASSUME NEW limit \in Limits, LimitPassed(limit) PROVE Jobbed'
  <2>1. main.at \notin Unstarted \cup {"gone"} /\ limit # "completed"
    BY <1>1, <1>28, ExitCodes DEF LimitPassed, Threaded, MainAt, Unstarted
  <2>2. /\ main'.at = main.at /\ main'.reason # "completed" /\ Running' = {}
        /\ tree'.root \in {tree.root, "killed"}
    BY <1>1, <1>28, <2>1, JobFailed, JobKilled DEF LimitPassed, MainAt
  <2> QED
    BY <1>1, <2>1, <2>2 DEF MainAt, Jobbed, Unstarted
<1>29. CASE RootExitSeen
  BY <1>1, <1>29, ZenonT(60) DEF MainAt, HostLives, RootExitSeen, Living, Killed, HostTypeOK, Framed,
       Threaded, Jobbed, Unstarted, Joined, Running
<1>30. CASE ActiveProcessZero
  BY <1>1, <1>30 DEF MainAt, HostLives, ActiveProcessZero, Running, HostTypeOK, Framed,
       Threaded, Jobbed, Unstarted, Joined, Living
<1>31. CASE StopControl
  BY <1>1, <1>31 DEF MainAt, HostLives, StopControl, HostTypeOK, Framed, Threaded, Jobbed,
       Unstarted, Joined, Running, Living
<1>32. CASE JoinControl
  BY <1>1, <1>32 DEF MainAt, HostLives, JoinControl, HostTypeOK, Framed, Threaded, Jobbed,
       Unstarted, Joined, Running, Living
<1>33. CASE JoinOutput
  BY <1>1, <1>33 DEF MainAt, HostLives, JoinOutput, HostTypeOK, Framed, Threaded, Jobbed,
       Unstarted, Joined, Running, Living
<1>34. CASE Cleanup
  BY <1>1, <1>34 DEF MainAt, HostLives, Cleanup, HostTypeOK, Framed, Threaded, Jobbed,
       Unstarted, Joined, Running, Living
<1>35. CASE EmitProof
  BY <1>1, <1>35 DEF MainAt, HostLives, EmitProof, Outcome, HostTypeOK, Framed, Threaded,
       Jobbed, Unstarted, Joined, Running, Living
<1>36. CASE HostExits
  <2>1. main'.at = "gone" /\ Running' = {}
    BY <1>1, <1>36, HostEnded, JobKilled DEF HostExits
  <2> QED
    BY <2>1 DEF MainAt, Jobbed, Unstarted
<1>37. CASE HostIsKilled
  <2>1. main'.at = "gone" /\ Running' = {}
    BY <1>1, <1>37, HostEnded, JobKilled DEF HostIsKilled
  <2> QED
    BY <2>1 DEF MainAt, Jobbed, Unstarted
<1>38. CASE RootSpawns
  BY <1>1, <1>38 DEF MainAt, HostLives, RootSpawns, HostTypeOK, Framed, Threaded, Jobbed,
       Unstarted, Joined, Running, Living
<1>39. ASSUME NEW p \in {"root", "child"}, ProcessExits(p) PROVE Jobbed'
  BY <1>1, <1>39 DEF MainAt, HostLives, ProcessExits, Running, HostTypeOK, Framed, Threaded,
       Jobbed, Unstarted, Joined, Living
<1> QED
  BY <1>2, <1>3, <1>4, <1>5, <1>6, <1>7, <1>8, <1>9, <1>10, <1>11, <1>12, <1>13, <1>14, <1>15,
       <1>16, <1>17, <1>18, <1>19, <1>20, <1>21, <1>22, <1>23, <1>24, <1>25, <1>26, <1>27,
       <1>28, <1>29, <1>30, <1>31, <1>32, <1>33, <1>34, <1>35, <1>36, <1>37, <1>38, <1>39 DEF
       HostNext

\* ... and reports nothing but what ended the job.
LEMMA ReportedKept ==
  ASSUME HostInv, HostNext
  PROVE  Reported'
<1>1. HostTypeOK /\ Framed /\ Threaded /\ Jobbed /\ Reported
  BY HostAssumption DEF HostInv
<1>2. CASE BeginLaunch
  BY <1>1, <1>2, ExitCodes DEF MainAt, HostLives, BeginLaunch, HostTypeOK, Framed, Threaded,
       Jobbed, Reported, Unstarted, Joined, Running, Living, Outcome, Crashed, Refusals
<1>3. CASE OpenLease
  BY <1>1, <1>3, ExitCodes DEF MainAt, HostLives, OpenLease, HostTypeOK, Framed, Threaded,
       Jobbed, Reported, Unstarted, Joined, Running, Living, Outcome, Crashed, Refusals
<1>4. CASE CreateHost
  BY <1>1, <1>4, ExitCodes DEF MainAt, HostLives, CreateHost, HostTypeOK, Framed, Threaded,
       Jobbed, Reported, Unstarted, Joined, Running, Living, Outcome, Crashed, Refusals
<1>5. CASE LaunchHostFails
  <2>1. UNCHANGED report
    BY <1>5 DEF LaunchHostFails
  <2>2. CASE HostLives
    <3>1. main'.at = "gone" /\ main'.code = Crashed
      BY <1>1, <1>5, <2>2, HostEnded DEF LaunchHostFails
    <3> QED
      BY <1>1, <2>1, <2>2, <3>1 DEF Reported, HostLives, MainAt, Crashed
  <2>3. CASE ~HostLives
    <3>1. main' = main /\ (tree.root \notin Living => tree'.root = tree.root)
      BY <1>1, <1>5, <2>3, JobKilled DEF LaunchHostFails
    <3> QED
      BY <1>1, <2>1, <2>3, <3>1 DEF Reported, HostLives, MainAt, Living, Outcome
  <2> QED
    BY <2>2, <2>3
<1>6. CASE SendLaunch
  BY <1>1, <1>6, ExitCodes DEF MainAt, HostLives, SendLaunch, Sends, HostTypeOK, Framed,
       Threaded, Jobbed, Reported, Unstarted, Joined, Running, Living, Outcome, Crashed,
       Refusals
<1>7. CASE HandOver
  BY <1>1, <1>7, ExitCodes DEF MainAt, HostLives, HandOver, HostTypeOK, Framed, Threaded,
       Jobbed, Reported, Unstarted, Joined, Running, Living, Outcome, Crashed, Refusals
<1>8. CASE LaunchHandled
  BY <1>1, <1>8, ExitCodes DEF MainAt, HostLives, LaunchHandled, HostTypeOK, Framed, Threaded,
       Jobbed, Reported, Unstarted, Joined, Running, Living, Outcome, Crashed, Refusals
<1>9. CASE WriteFrame
  BY <1>1, <1>9, ExitCodes DEF MainAt, HostLives, WriteFrame, Sends, HostTypeOK, Framed,
       Threaded, Jobbed, Reported, Unstarted, Joined, Running, Living, Outcome, Crashed,
       Refusals
<1>10. CASE AppDies
  BY <1>1, <1>10, ExitCodes DEF MainAt, HostLives, AppDies, HostTypeOK, Framed, Threaded,
       Jobbed, Reported, Unstarted, Joined, Running, Living, Outcome, Crashed, Refusals
<1>11. CASE ReaderEnds
  BY <1>1, <1>11, ExitCodes DEF MainAt, HostLives, ReaderEnds, HostTypeOK, Framed, Threaded,
       Jobbed, Reported, Unstarted, Joined, Running, Living, Outcome, Crashed, Refusals
<1>12. ASSUME NEW reason \in Terminations, TerminateHost(reason) PROVE Reported'
  BY <1>1, <1>12, ExitCodes DEF MainAt, HostLives, TerminateHost, Sends, HostTypeOK, Framed,
       Threaded, Jobbed, Reported, Unstarted, Joined, Running, Living, Outcome, Crashed,
       Refusals
<1>13. ASSUME NEW reason \in Terminations, ShutdownBridge(reason) PROVE Reported'
  BY <1>1, <1>13, ExitCodes DEF MainAt, HostLives, ShutdownBridge, Sends, HostTypeOK, Framed,
       Threaded, Jobbed, Reported, Unstarted, Joined, Running, Living, Outcome, Crashed,
       Refusals
<1>14. CASE ReadLaunch
  <2>1. UNCHANGED report /\ main.at = "reading"
    BY <1>14 DEF ReadLaunch, MainAt
  <2>2. CASE main' = [main EXCEPT !.at = "preparing"]
    BY <1>1, <2>1, <2>2 DEF Reported, HostTypeOK, MainAt
  <2>3. CASE HostEnds(71)
    <3>1. main'.at = "gone" /\ main'.code = 71
      BY <1>1, <2>3, HostEnded
    <3> QED
      BY <1>1, <2>1, <3>1 DEF Reported, MainAt, Crashed
  <2> QED
    BY <1>14, <2>2, <2>3 DEF ReadLaunch
<1>15. CASE CreateSuspended
  BY <1>1, <1>15, ExitCodes DEF MainAt, HostLives, CreateSuspended, HostTypeOK, Framed,
       Threaded, Jobbed, Reported, Unstarted, Joined, Running, Living, Outcome, Crashed,
       Refusals
<1>16. CASE AssignToJob
  BY <1>1, <1>16, ExitCodes DEF MainAt, HostLives, AssignToJob, HostTypeOK, Framed, Threaded,
       Jobbed, Reported, Unstarted, Joined, Running, Living, Outcome, Crashed, Refusals
<1>17. CASE ResumeRoot
  BY <1>1, <1>17, ExitCodes DEF MainAt, HostLives, ResumeRoot, HostTypeOK, Framed, Threaded,
       Jobbed, Reported, Unstarted, Joined, Running, Living, Outcome, Crashed, Refusals
<1>18. CASE RefuseLaunch
  BY <1>1, <1>18, ExitCodes DEF MainAt, HostLives, RefuseLaunch, Living, HostEnds, Refusals,
       HostTypeOK, Framed, Threaded, Jobbed, Reported, Unstarted, Joined, Running, Outcome,
       Crashed
<1>19. CASE StartThreads
  BY <1>1, <1>19, ExitCodes DEF MainAt, HostLives, StartThreads, Living, Killed, HostTypeOK,
       Framed, Threaded, Jobbed, Reported, Unstarted, Joined, Running, Outcome, Crashed,
       Refusals
<1>20. CASE ControlTop
  BY <1>1, <1>20, ExitCodes DEF MainAt, HostLives, ControlTop, HostTypeOK, Framed, Threaded,
       Jobbed, Reported, Unstarted, Joined, Running, Living, Outcome, Crashed, Refusals
<1>21. CASE ControlEnters
  BY <1>1, <1>21, ExitCodes DEF MainAt, HostLives, ControlEnters, HostTypeOK, Framed,
       Threaded, Jobbed, Reported, Unstarted, Joined, Running, Living, Outcome, Crashed,
       Refusals
<1>22. CASE ControlReads
  BY <1>1, <1>22, ExitCodes DEF MainAt, HostLives, ControlReads, HostTypeOK, Framed, Threaded,
       Jobbed, Reported, Unstarted, Joined, Running, Living, Outcome, Crashed, Refusals
<1>23. CASE ControlReadFails
  BY <1>1, <1>23, ExitCodes DEF MainAt, HostLives, ControlReadFails, HostTypeOK, Framed,
       Threaded, Jobbed, Reported, Unstarted, Joined, Running, Living, Outcome, Crashed,
       Refusals
<1>24. CASE ControlWrites
  BY <1>1, <1>24, ExitCodes DEF MainAt, HostLives, ControlWrites, HostTypeOK, Framed,
       Threaded, Jobbed, Reported, Unstarted, Joined, Running, Living, Outcome, Crashed,
       Refusals
<1>25. CASE ControlFails
  BY <1>1, <1>25, ExitCodes DEF MainAt, HostLives, ControlFails, Living, Killed, FailJob,
       HostTypeOK, Framed, Threaded, Jobbed, Reported, Unstarted, Joined, Running, Outcome,
       Crashed, Refusals
<1>26. CASE OutputExceeds
  BY <1>1, <1>26, ExitCodes DEF MainAt, HostLives, OutputExceeds, Living, Killed, FailJob,
       HostTypeOK, Framed, Threaded, Jobbed, Reported, Unstarted, Joined, Running, Outcome,
       Crashed, Refusals
<1>27. CASE OutputEnds
  BY <1>1, <1>27, ExitCodes DEF MainAt, HostLives, OutputEnds, Running, HostTypeOK, Framed,
       Threaded, Jobbed, Reported, Unstarted, Joined, Living, Outcome, Crashed, Refusals
<1>28. ASSUME NEW limit \in Limits, LimitPassed(limit) PROVE Reported'
  BY <1>1, <1>28, ExitCodes DEF MainAt, HostLives, LimitPassed, Living, Killed, FailJob,
       HostTypeOK, Framed, Threaded, Jobbed, Reported, Unstarted, Joined, Running, Outcome,
       Crashed, Refusals
<1>29. CASE RootExitSeen
  BY <1>1, <1>29, ExitCodes DEF MainAt, HostLives, RootExitSeen, Living, Killed, HostTypeOK,
       Framed, Threaded, Jobbed, Reported, Unstarted, Joined, Running, Outcome, Crashed,
       Refusals
<1>30. CASE ActiveProcessZero
  BY <1>1, <1>30, ExitCodes DEF MainAt, HostLives, ActiveProcessZero, Running, HostTypeOK,
       Framed, Threaded, Jobbed, Reported, Unstarted, Joined, Living, Outcome, Crashed,
       Refusals
<1>31. CASE StopControl
  BY <1>1, <1>31, ExitCodes DEF MainAt, HostLives, StopControl, HostTypeOK, Framed, Threaded,
       Jobbed, Reported, Unstarted, Joined, Running, Living, Outcome, Crashed, Refusals
<1>32. CASE JoinControl
  BY <1>1, <1>32, ExitCodes DEF MainAt, HostLives, JoinControl, HostTypeOK, Framed, Threaded,
       Jobbed, Reported, Unstarted, Joined, Running, Living, Outcome, Crashed, Refusals
<1>33. CASE JoinOutput
  BY <1>1, <1>33, ExitCodes DEF MainAt, HostLives, JoinOutput, HostTypeOK, Framed, Threaded,
       Jobbed, Reported, Unstarted, Joined, Running, Living, Outcome, Crashed, Refusals
<1>34. CASE Cleanup
  BY <1>1, <1>34, ExitCodes DEF MainAt, HostLives, Cleanup, HostTypeOK, Framed, Threaded,
       Jobbed, Reported, Unstarted, Joined, Running, Living, Outcome, Crashed, Refusals
<1>35. CASE EmitProof
  BY <1>1, <1>35, ExitCodes DEF MainAt, HostLives, EmitProof, Outcome, HostTypeOK, Framed,
       Threaded, Jobbed, Reported, Unstarted, Joined, Running, Living, Crashed, Refusals
<1>36. CASE HostExits
  BY <1>1, <1>36, ExitCodes DEF MainAt, HostLives, HostExits, Living, Killed, HostEnds,
       Outcome, HostTypeOK, Framed, Threaded, Jobbed, Reported, Unstarted, Joined, Running,
       Crashed, Refusals
<1>37. CASE HostIsKilled
  BY <1>1, <1>37, ExitCodes DEF MainAt, HostLives, HostIsKilled, Living, Killed, HostEnds,
       HostTypeOK, Framed, Threaded, Jobbed, Reported, Unstarted, Joined, Running, Outcome,
       Crashed, Refusals
<1>38. CASE RootSpawns
  BY <1>1, <1>38, ExitCodes DEF MainAt, HostLives, RootSpawns, HostTypeOK, Framed, Threaded,
       Jobbed, Reported, Unstarted, Joined, Running, Living, Outcome, Crashed, Refusals
<1>39. ASSUME NEW p \in {"root", "child"}, ProcessExits(p) PROVE Reported'
  BY <1>1, <1>39, ExitCodes DEF MainAt, HostLives, ProcessExits, Running, HostTypeOK, Framed,
       Threaded, Jobbed, Reported, Unstarted, Joined, Living, Outcome, Crashed, Refusals
<1> QED
  BY <1>2, <1>3, <1>4, <1>5, <1>6, <1>7, <1>8, <1>9, <1>10, <1>11, <1>12, <1>13, <1>14, <1>15,
       <1>16, <1>17, <1>18, <1>19, <1>20, <1>21, <1>22, <1>23, <1>24, <1>25, <1>26, <1>27,
       <1>28, <1>29, <1>30, <1>31, <1>32, <1>33, <1>34, <1>35, <1>36, <1>37, <1>38, <1>39 DEF
       HostNext

\* Nothing else changes them, and they hold at first.
LEMMA HostInvariance == HostSpec => []HostInv
<1>1. HostInit => HostInv
  <2>1. ASSUME HostInit PROVE HostTypeOK
    BY <2>1, HostAssumption, EmptySeq, ExitCodes DEF HostInit, HostTypeOK, NoCode
  <2>2. ASSUME HostInit PROVE Framed /\ Threaded /\ Jobbed /\ Reported
    BY <2>2, EmptySeq
       DEF HostInit, Framed, Threaded, Jobbed, Reported, Unstarted, Joined, Running, MainAt
  <2> QED
    BY <2>1, <2>2 DEF HostInv
<1>2. HostInv /\ [HostNext]_hostVars => HostInv'
  <2>1. CASE HostInv /\ HostNext
    BY <2>1, HostTypesKept, FramedKept, ThreadedKept, JobbedKept, ReportedKept DEF HostInv
  <2>2. CASE HostInv /\ UNCHANGED hostVars
    BY <2>2
       DEF hostVars, HostInv, HostTypeOK, Framed, Threaded, Jobbed, Reported, Unstarted, Joined,
           Running, Outcome, MainAt
  <2> QED
    BY <2>1, <2>2
<1> QED
  BY <1>1, <1>2, PTL DEF HostSpec

\* The host, its threads, its processes and what the app has of them have their types.
THEOREM HostTypeCorrect == HostSpec => []HostTypeOK
<1>1. HostInv => HostTypeOK
  BY DEF HostInv
<1> QED
  BY <1>1, HostInvariance, PTL

\* In any number of frames, limits and reasons of termination, a process runs only in the job
\* of a host that watches it and can still be told to end (sandbox-host.cpp:371-379, 543-593).
THEOREM SupervisedRunHolds == HostSpec => []SupervisedRun
<1>1. HostInv => SupervisedRun
  BY DEF HostInv, SupervisedRun, Jobbed, Threaded, MainAt
<1> QED
  BY <1>1, HostInvariance, PTL

\* ... and what the app is told of its end is what ended it
\* (sandbox-host.cpp:592-618, sandbox-launcher.cpp:393-396).
THEOREM CompletionTruthfulHolds == HostSpec => []CompletionTruthful
<1>1. HostInv => CompletionTruthful
  BY DEF HostInv, HostTypeOK, CompletionTruthful, Jobbed, Reported, MainAt
<1> QED
  BY <1>1, HostInvariance, PTL

-----------------------------------------------------------------------------
(* AclJournal: the root.                                                   *)

\* Journal files that recovery goes on with.
Sound(numbers, unpublished) ==
  \/ numbers = {1} /\ unpublished \subseteq {2}
  \/ numbers = {1, 2} /\ unpublished \subseteq {3}
  \/ numbers = {1, 2, 3} /\ unpublished \subseteq {4}

\* The journal of a host, as far as it is.
Journaled(h) ==
  /\ Place(h) \in Before => published[h] = {} /\ temporary[h] = {}
  /\ Place(h) = "prepared" => published[h] = {} /\ temporary[h] \subseteq {1}
  /\ Place(h) \in {"stable", "change", "observe"} => published[h] = {1} /\ temporary[h] = {}
  /\ Place(h) = "applied" => published[h] = {1} /\ temporary[h] \subseteq {2}
  /\ Place(h) = "running" => published[h] = {1, 2} /\ temporary[h] = {}
  /\ Place(h) = "jobZero" => published[h] = {1, 2} /\ temporary[h] \subseteq {3}
  /\ Place(h) \in {"cleanup", "again", "remove"} =>
       published[h] \in {{}, {1}, {1, 2}, {1, 2, 3}} /\ temporary[h] = {}

\* A host whose entry is on the root has put it there, has not yet taken it away, and its
\* journal says so.
Entered(h) ==
  /\ Place(h) \notin Before \cup {"prepared", "stable", "change", "verify", "removed", "delete"}
  /\ Place(h) \in {"cleanup", "again", "remove"} => published[h] # {}
  /\ Place(h) = "gone" => Sound(published[h], temporary[h])

\* Recovery works for a launch to come on behalf of a host that is gone.
Recovering ==
  /\ recovery.at # "idle" => Place(recovery.for) = "none"
  /\ recovery.at \in {"root", "again", "remove", "verify", "delete"} =>
       Place(recovery.now) = "gone"

\* What is on the root is accounted for, unless somebody wrote over another's change.
Accounted == ~overwritten => \A h \in dacl : Entered(h)

\* Files are deleted once the entry is away.
Taken == ~overwritten /\ recovery.at = "delete" => recovery.now \notin dacl

AclInv == AclTypeOK /\ Recovering /\ (\A h \in Hosts : Journaled(h)) /\ Accounted /\ Taken

HostRecord == [at : Places, seen : SUBSET Hosts, end : {"failed", "dirty", "clean"}]

FileRecord == [published : SUBSET Numbers, temporary : SUBSET Numbers]

RecoveryRecord ==
  [at    : {"idle", "group", "root", "again", "remove", "verify", "delete"},
   for   : Hosts, seen : SUBSET Hosts, now : Hosts, todo : SUBSET Hosts,
   files : [Hosts -> FileRecord]]

\* The types, by name.
LEMMA AclTypes ==
  AclTypeOK <=> /\ dacl \in SUBSET Hosts
                /\ published \in [Hosts -> SUBSET Numbers]
                /\ temporary \in [Hosts -> SUBSET Numbers]
                /\ host \in [Hosts -> HostRecord]
                /\ recovery \in RecoveryRecord
                /\ overwritten \in BOOLEAN
BY DEF AclTypeOK, HostRecord, RecoveryRecord, FileRecord

\* Where a host goes.
LEMMA Gone ==
  ASSUME AclTypeOK, NEW h \in Hosts, NEW place \in Places, Goes(h, place)
  PROVE  /\ host' \in [Hosts -> HostRecord]
         /\ host'[h].at = place /\ \A g \in Hosts \ {h} : host'[g] = host[g]
<1>1. Over \in HostRecord /\ Over.at = "gone"
  BY DEF Over, HostRecord, Places
<1>2. host \in [Hosts -> HostRecord]
  BY AclTypes
<1>3. /\ [host[h] EXCEPT !.at = place] \in HostRecord
      /\ [host[h] EXCEPT !.at = place].at = place
  BY <1>2 DEF HostRecord
<1>4. PICK r \in HostRecord : r.at = place /\ host' = [host EXCEPT ![h] = r]
  BY <1>1, <1>3 DEF Goes
<1> QED
  BY <1>2, <1>4

\* The hosts' records change at one host at most.
LEMMA PlacesMove ==
  ASSUME AclTypeOK, NEW h \in Hosts,
         NEW r \in HostRecord, host' = [host EXCEPT ![h] = r]
  PROVE  /\ host' \in [Hosts -> HostRecord]
         /\ host'[h] = r /\ \A g \in Hosts \ {h} : host'[g] = host[g]
BY AclTypes

\* No recovery at work.
LEMMA IdleTyped ==
  ASSUME NEW h \in Hosts
  PROVE  Idle(h) \in RecoveryRecord /\ Idle(h).at = "idle" /\ Idle(h).for = h
BY DEF Idle, NoFiles, RecoveryRecord, FileRecord

\* Someone is the first host.
LEMMA FirstHostTyped == FirstHost \in Hosts
BY AclAssumption DEF FirstHost

\* A sound journal is one that recovery goes on with.
LEMMA SoundRecoverable ==
  ASSUME NEW numbers, NEW unpublished, Sound(numbers, unpublished)
  PROVE  Recoverable([published |-> numbers, temporary |-> unpublished])
<1>1. \A n \in Nat : Cardinality(1..n) = n
  <2>1. ASSUME NEW n \in Nat PROVE Cardinality(1..n) = n
    BY <2>1, FS_Interval
  <2> QED
    BY <2>1
<1>2. {1} = 1..1 /\ {1, 2} = 1..2 /\ {1, 2, 3} = 1..3
  OBVIOUS
<1>3. PICK n \in 1..3 : numbers = 1..n /\ unpublished \subseteq {n + 1}
  BY <1>2 DEF Sound
<1>4. Cardinality(numbers) = n /\ numbers # {}
  BY <1>1, <1>3
<1> QED
  BY <1>3, <1>4 DEF Recoverable, Contiguous

\* The root.
LEMMA DaclTyped ==
  ASSUME AclInv, AclNext
  PROVE  dacl' \in SUBSET Hosts
<1>1. /\ AclTypeOK /\ dacl \in SUBSET Hosts /\ overwritten \in BOOLEAN
      /\ published \in [Hosts -> SUBSET Numbers] /\ temporary \in [Hosts -> SUBSET Numbers]
      /\ host \in [Hosts -> HostRecord] /\ recovery \in RecoveryRecord
  BY AclTypes DEF AclInv
<1>2. ASSUME NEW h \in Hosts, AddEntry(h) PROVE dacl' \in SUBSET Hosts
  BY <1>1, <1>2 DEF AddEntry, SetDacl, HostRecord, RecoveryRecord
<1>3. ASSUME NEW h \in Hosts, RemoveEntry(h) PROVE dacl' \in SUBSET Hosts
  BY <1>1, <1>3 DEF RemoveEntry, SetDacl, HostRecord, RecoveryRecord
<1>4. CASE RecoverRemove
  BY <1>1, <1>4 DEF RecoverRemove, SetDacl, HostRecord, RecoveryRecord
<1>5. CASE UNCHANGED dacl
  BY <1>1, <1>5
<1> QED
  BY <1>2, <1>3, <1>4, <1>5 DEF AclNext, CreateTemporary, Publish, WriteFails, ReadRoot,
       ReadAgain, ObserveEntry, JobEnds, ReadForCleanup, ReadAgainForCleanup, VerifyRemoved,
       DeleteJournals, HostDies, StartRecovery, RecoverGroup, RecoverRoot, RecoverAgain,
       RecoverVerify, RecoverDelete, Refuse, Recovered, Unchanged

\* Whether it was overwritten.
LEMMA OverwrittenTyped ==
  ASSUME AclInv, AclNext
  PROVE  overwritten' \in BOOLEAN
<1>1. /\ AclTypeOK /\ dacl \in SUBSET Hosts /\ overwritten \in BOOLEAN
      /\ published \in [Hosts -> SUBSET Numbers] /\ temporary \in [Hosts -> SUBSET Numbers]
      /\ host \in [Hosts -> HostRecord] /\ recovery \in RecoveryRecord
  BY AclTypes DEF AclInv
<1>2. ASSUME NEW h \in Hosts, AddEntry(h) PROVE overwritten' \in BOOLEAN
  BY <1>1, <1>2 DEF AddEntry, SetDacl
<1>3. ASSUME NEW h \in Hosts, RemoveEntry(h) PROVE overwritten' \in BOOLEAN
  BY <1>1, <1>3 DEF RemoveEntry, SetDacl
<1>4. CASE RecoverRemove
  BY <1>1, <1>4 DEF RecoverRemove, SetDacl
<1>5. CASE UNCHANGED overwritten
  BY <1>1, <1>5
<1> QED
  BY <1>2, <1>3, <1>4, <1>5 DEF AclNext, CreateTemporary, Publish, WriteFails, ReadRoot,
       ReadAgain, ObserveEntry, JobEnds, ReadForCleanup, ReadAgainForCleanup, VerifyRemoved,
       DeleteJournals, HostDies, StartRecovery, RecoverGroup, RecoverRoot, RecoverAgain,
       RecoverVerify, RecoverDelete, Refuse, Recovered, Unchanged

\* The published files.
LEMMA PublishedTyped ==
  ASSUME AclInv, AclNext
  PROVE  published' \in [Hosts -> SUBSET Numbers]
<1>1. /\ AclTypeOK /\ dacl \in SUBSET Hosts /\ overwritten \in BOOLEAN
      /\ published \in [Hosts -> SUBSET Numbers] /\ temporary \in [Hosts -> SUBSET Numbers]
      /\ host \in [Hosts -> HostRecord] /\ recovery \in RecoveryRecord
  BY AclTypes DEF AclInv
<1>2. ASSUME NEW h \in Hosts, Publish(h) PROVE published' \in [Hosts -> SUBSET Numbers]
  BY <1>1, <1>2 DEF Publish, RecoveryRecord, Written
<1>3. ASSUME NEW h \in Hosts, DeleteJournals(h) PROVE published' \in [Hosts -> SUBSET Numbers]
  BY <1>1, <1>3 DEF DeleteJournals, RecoveryRecord
<1>4. CASE RecoverDelete
  BY <1>1, <1>4 DEF RecoverDelete, RecoveryRecord
<1>5. CASE UNCHANGED published
  BY <1>1, <1>5
<1> QED
  BY <1>2, <1>3, <1>4, <1>5 DEF AclNext, CreateTemporary, WriteFails, ReadRoot, ReadAgain,
       AddEntry, ObserveEntry, JobEnds, ReadForCleanup, ReadAgainForCleanup, RemoveEntry,
       VerifyRemoved, HostDies, StartRecovery, RecoverGroup, RecoverRoot, RecoverAgain,
       RecoverRemove, RecoverVerify, Refuse, Recovered, Unchanged

\* The temporary files.
LEMMA TemporaryTyped ==
  ASSUME AclInv, AclNext
  PROVE  temporary' \in [Hosts -> SUBSET Numbers]
<1>1. /\ AclTypeOK /\ dacl \in SUBSET Hosts /\ overwritten \in BOOLEAN
      /\ published \in [Hosts -> SUBSET Numbers] /\ temporary \in [Hosts -> SUBSET Numbers]
      /\ host \in [Hosts -> HostRecord] /\ recovery \in RecoveryRecord
  BY AclTypes DEF AclInv
<1>2. ASSUME NEW h \in Hosts, CreateTemporary(h) PROVE temporary' \in [Hosts -> SUBSET Numbers]
  BY <1>1, <1>2 DEF CreateTemporary, RecoveryRecord, Generation, Numbers
<1>3. ASSUME NEW h \in Hosts, Publish(h) PROVE temporary' \in [Hosts -> SUBSET Numbers]
  BY <1>1, <1>3 DEF Publish, RecoveryRecord, Generation, Numbers, Written
<1>4. ASSUME NEW h \in Hosts, WriteFails(h) PROVE temporary' \in [Hosts -> SUBSET Numbers]
  BY <1>1, <1>4 DEF WriteFails, RecoveryRecord, Generation, Numbers, Written
<1>5. CASE RecoverDelete
  BY <1>1, <1>5 DEF RecoverDelete, RecoveryRecord, Generation, Numbers
<1>6. CASE UNCHANGED temporary
  BY <1>1, <1>6
<1> QED
  BY <1>2, <1>3, <1>4, <1>5, <1>6 DEF AclNext, ReadRoot, ReadAgain, AddEntry, ObserveEntry,
       JobEnds, ReadForCleanup, ReadAgainForCleanup, RemoveEntry, VerifyRemoved,
       DeleteJournals, HostDies, StartRecovery, RecoverGroup, RecoverRoot, RecoverAgain,
       RecoverRemove, RecoverVerify, Refuse, Recovered, Unchanged

\* Where a host goes with the result of a write.
LEMMA WrittenGoes ==
  ASSUME AclTypeOK, NEW h \in Hosts, NEW ok \in BOOLEAN, Place(h) \in DOMAIN Generation,
         Written(h, ok)
  PROVE  /\ host' \in [Hosts -> HostRecord]
         /\ \A g \in Hosts \ {h} : host'[g] = host[g]
         /\ Place(h) = "prepared" => host'[h].at = IF ok THEN "stable" ELSE "cleanup"
         /\ Place(h) = "applied" => host'[h].at = IF ok THEN "running" ELSE "cleanup"
         /\ Place(h) = "jobZero" => host'[h].at = "cleanup"
         /\ Place(h) = "removed" => host'[h].at \in {"delete", "gone"}
<1>1. CASE Place(h) = "prepared"
  <2>1. Goes(h, IF ok THEN "stable" ELSE "cleanup")
    BY <1>1 DEF Written
  <2> QED
    BY <1>1, <2>1, Gone DEF Places
<1>2. CASE Place(h) = "applied"
  <2>1. Goes(h, IF ok THEN "running" ELSE "cleanup")
    BY <1>2 DEF Written
  <2> QED
    BY <1>2, <2>1, Gone DEF Places
<1>3. CASE Place(h) = "jobZero"
  <2> DEFINE r == [host[h] EXCEPT !.at = "cleanup", !.end = IF ok THEN @ ELSE "dirty"]
  <2>1. host \in [Hosts -> HostRecord]
    BY AclTypes
  <2>2. r \in HostRecord /\ r.at = "cleanup"
    <3>1. "cleanup" \in Places /\ host[h] \in HostRecord
      BY <2>1 DEF Places
    <3> QED
      BY <3>1 DEF HostRecord
  <2>3. host' = [host EXCEPT ![h] = r]
    BY <1>3, <2>1 DEF Written, HostRecord
  <2> HIDE DEF r
  <2> QED
    BY <1>3, <2>2, <2>3, PlacesMove
<1>4. CASE Place(h) = "removed"
  <2>1. PICK place \in {"delete", "gone"} : Goes(h, place)
    BY <1>4 DEF Written
  <2> QED
    BY <1>4, <2>1, Gone DEF Places
<1> QED
  BY <1>1, <1>2, <1>3, <1>4 DEF Generation

\* Where the end of the job leads.
LEMMA JobEndsGoes ==
  ASSUME AclTypeOK, NEW h \in Hosts, JobEnds(h)
  PROVE  /\ host' \in [Hosts -> HostRecord]
         /\ \A g \in Hosts \ {h} : host'[g] = host[g]
         /\ host'[h].at \in {"jobZero", "cleanup"}
<1>1. CASE Goes(h, "cleanup")
  BY <1>1, Gone DEF Places
<1>2. ASSUME NEW end \in {"clean", "dirty"},
             host' = [host EXCEPT ![h].at = "jobZero", ![h].end = end]
      PROVE  /\ host' \in [Hosts -> HostRecord]
             /\ \A g \in Hosts \ {h} : host'[g] = host[g]
             /\ host'[h].at = "jobZero"
  <2> DEFINE r == [host[h] EXCEPT !.at = "jobZero", !.end = end]
  <2>1. host \in [Hosts -> HostRecord]
    BY AclTypes
  <2>2. r \in HostRecord /\ r.at = "jobZero"
    <3>1. "jobZero" \in Places /\ host[h] \in HostRecord
      BY <2>1 DEF Places, Generation
    <3> QED
      BY <3>1 DEF HostRecord
  <2>3. host' = [host EXCEPT ![h] = r]
    BY <1>2, <2>1 DEF HostRecord
  <2> HIDE DEF r
  <2> QED
    BY <2>2, <2>3, PlacesMove
<1> QED
  BY <1>1, <1>2 DEF JobEnds

\* The root is read, and what was seen kept.
LEMMA SeenGoes ==
  ASSUME AclTypeOK, NEW h \in Hosts, NEW place \in Places,
         host' = [host EXCEPT ![h].at = place, ![h].seen = dacl]
  PROVE  /\ host' \in [Hosts -> HostRecord]
         /\ \A g \in Hosts \ {h} : host'[g] = host[g]
         /\ host'[h].at = place
<1> DEFINE r == [host[h] EXCEPT !.at = place, !.seen = dacl]
<1>1. host \in [Hosts -> HostRecord] /\ dacl \in SUBSET Hosts
  BY AclTypes
<1>2. r \in HostRecord /\ r.at = place
  <2>1. host[h] \in HostRecord
    BY <1>1
  <2> QED
    BY <1>1, <2>1 DEF HostRecord
<1>3. host' = [host EXCEPT ![h] = r]
  <2>1. host[h] \in HostRecord /\ [host EXCEPT ![h].at = place][h] = [host[h] EXCEPT !.at = place]
    BY <1>1
  <2> QED
    BY <1>1, <2>1
<1> HIDE DEF r
<1> QED
  BY <1>2, <1>3, PlacesMove

\* A launch that has recovered is leased its host.
LEMMA RecoveredGoes ==
  ASSUME AclTypeOK, Recovered
  PROVE  /\ host' \in [Hosts -> HostRecord] /\ recovery.for \in Hosts
         /\ \A g \in Hosts \ {recovery.for} : host'[g] = host[g]
         /\ host'[recovery.for].at = "leased"
<1>1. recovery.for \in Hosts
  BY AclTypes DEF RecoveryRecord
<1> QED
  BY <1>1, Gone DEF Recovered, Places, Before

\* The hosts.
LEMMA HostsTyped ==
  ASSUME AclInv, AclNext
  PROVE  host' \in [Hosts -> HostRecord]
<1>1. /\ AclTypeOK /\ dacl \in SUBSET Hosts /\ overwritten \in BOOLEAN
      /\ published \in [Hosts -> SUBSET Numbers] /\ temporary \in [Hosts -> SUBSET Numbers]
      /\ host \in [Hosts -> HostRecord] /\ recovery \in RecoveryRecord
  BY AclTypes DEF AclInv
<1>2. ASSUME NEW h \in Hosts, Publish(h) PROVE host' \in [Hosts -> HostRecord]
  BY <1>1, <1>2, WrittenGoes DEF Publish
<1>3. ASSUME NEW h \in Hosts, WriteFails(h) PROVE host' \in [Hosts -> HostRecord]
  BY <1>1, <1>3, WrittenGoes DEF WriteFails
<1>4. ASSUME NEW h \in Hosts, ReadRoot(h) PROVE host' \in [Hosts -> HostRecord]
  BY <1>1, <1>4, SeenGoes DEF ReadRoot, Places, Generation
<1>5. ASSUME NEW h \in Hosts, ReadAgain(h) PROVE host' \in [Hosts -> HostRecord]
  BY <1>1, <1>5, Gone, PlacesMove DEF ReadAgain, Unchanged, Places, Before, Generation
<1>6. ASSUME NEW h \in Hosts, AddEntry(h) PROVE host' \in [Hosts -> HostRecord]
  BY <1>1, <1>6, Gone, PlacesMove DEF AddEntry, SetDacl, Places, Before, Generation
<1>7. ASSUME NEW h \in Hosts, ObserveEntry(h) PROVE host' \in [Hosts -> HostRecord]
  BY <1>1, <1>7, Gone, PlacesMove DEF ObserveEntry, Unchanged, Places, Before, Generation
<1>8. ASSUME NEW h \in Hosts, JobEnds(h) PROVE host' \in [Hosts -> HostRecord]
  BY <1>1, <1>8, JobEndsGoes
<1>9. ASSUME NEW h \in Hosts, ReadForCleanup(h) PROVE host' \in [Hosts -> HostRecord]
  <2>1. CASE h \in dacl
    BY <1>1, <1>9, <2>1, SeenGoes DEF ReadForCleanup, Places
  <2>2. CASE h \notin dacl
    BY <1>1, <1>9, <2>2, Gone DEF ReadForCleanup, Places
  <2> QED
    BY <2>1, <2>2
<1>10. ASSUME NEW h \in Hosts, ReadAgainForCleanup(h) PROVE host' \in [Hosts -> HostRecord]
  BY <1>1, <1>10, Gone, PlacesMove DEF ReadAgainForCleanup, Unchanged, Places, Before,
       Generation
<1>11. ASSUME NEW h \in Hosts, RemoveEntry(h) PROVE host' \in [Hosts -> HostRecord]
  BY <1>1, <1>11, Gone, PlacesMove DEF RemoveEntry, SetDacl, Places, Before, Generation
<1>12. ASSUME NEW h \in Hosts, VerifyRemoved(h) PROVE host' \in [Hosts -> HostRecord]
  BY <1>1, <1>12, Gone, PlacesMove DEF VerifyRemoved, Unchanged, Places, Before, Generation
<1>13. ASSUME NEW h \in Hosts, DeleteJournals(h) PROVE host' \in [Hosts -> HostRecord]
  BY <1>1, <1>13, Gone, PlacesMove DEF DeleteJournals, Places, Before, Generation
<1>14. ASSUME NEW h \in Hosts, HostDies(h) PROVE host' \in [Hosts -> HostRecord]
  BY <1>1, <1>14, Gone, PlacesMove DEF HostDies, HostAlive, Unchanged, Places, Before,
       Generation
<1>15. CASE Recovered
  BY <1>1, <1>15, RecoveredGoes
<1>16. CASE UNCHANGED host
  BY <1>1, <1>16
<1> QED
  BY <1>2, <1>3, <1>4, <1>5, <1>6, <1>7, <1>8, <1>9, <1>10, <1>11, <1>12, <1>13, <1>14, <1>15,
       <1>16 DEF AclNext, CreateTemporary, StartRecovery, RecoverGroup, RecoverRoot,
       RecoverAgain, RecoverRemove, RecoverVerify, RecoverDelete, Refuse, Unchanged

\* Recovery.
LEMMA RecoveryTyped ==
  ASSUME AclInv, AclNext
  PROVE  recovery' \in RecoveryRecord
<1>1. /\ AclTypeOK /\ dacl \in SUBSET Hosts /\ overwritten \in BOOLEAN
      /\ published \in [Hosts -> SUBSET Numbers] /\ temporary \in [Hosts -> SUBSET Numbers]
      /\ host \in [Hosts -> HostRecord] /\ recovery \in RecoveryRecord
  BY AclTypes DEF AclInv
<1>2. ASSUME NEW h \in Hosts, StartRecovery(h) PROVE recovery' \in RecoveryRecord
  BY <1>1, <1>2, IdleTyped, FirstHostTyped DEF StartRecovery, Idle, NoFiles, RecoveryRecord,
       FileRecord
<1>3. ASSUME NEW h \in Hosts, RecoverGroup(h) PROVE recovery' \in RecoveryRecord
  BY <1>1, <1>3, IdleTyped, FirstHostTyped DEF RecoverGroup, RecoveryRecord, FileRecord
<1>4. CASE RecoverRoot
  BY <1>1, <1>4, IdleTyped, FirstHostTyped DEF RecoverRoot, RecoveryRecord, FileRecord
<1>5. CASE RecoverAgain
  BY <1>1, <1>5, IdleTyped, FirstHostTyped DEF RecoverAgain, RecoveryRecord, FileRecord
<1>6. CASE RecoverRemove
  BY <1>1, <1>6, IdleTyped, FirstHostTyped DEF RecoverRemove, SetDacl, RecoveryRecord,
       FileRecord
<1>7. CASE RecoverVerify
  BY <1>1, <1>7, IdleTyped, FirstHostTyped DEF RecoverVerify, RecoveryRecord, FileRecord
<1>8. CASE RecoverDelete
  <2> DEFINE g == recovery.now
             files == recovery.files[g]
  <2>1. g \in Hosts /\ recovery.files \in [Hosts -> FileRecord] /\ recovery.todo \in SUBSET Hosts
    BY <1>1 DEF RecoveryRecord
  <2>2. files \in FileRecord
    BY <2>1
  <2>3. CASE files.published # {}
    <3>1. PICK n : recovery' = [recovery EXCEPT !.files[g].published = @ \ {n}]
      BY <1>8, <2>3 DEF RecoverDelete
    <3>2. [files EXCEPT !.published = @ \ {n}] \in FileRecord
      BY <2>2 DEF FileRecord
    <3>3. [recovery.files EXCEPT ![g].published = @ \ {n}] \in [Hosts -> FileRecord]
      BY <2>1, <3>2
    <3> QED
      BY <1>1, <3>1, <3>3 DEF RecoveryRecord
  <2>4. CASE files.published = {}
    <3>1. recovery' = [recovery EXCEPT !.at = "group", !.todo = @ \ {g},
                                       !.files[g].temporary = {}]
      BY <1>8, <2>4 DEF RecoverDelete
    <3>2. [files EXCEPT !.temporary = {}] \in FileRecord
      BY <2>2 DEF FileRecord
    <3>3. [recovery.files EXCEPT ![g].temporary = {}] \in [Hosts -> FileRecord]
      BY <2>1, <3>2
    <3> QED
      BY <1>1, <2>1, <3>1, <3>3 DEF RecoveryRecord
  <2> QED
    BY <2>3, <2>4
<1>9. CASE Refuse
  BY <1>1, <1>9, IdleTyped, FirstHostTyped DEF Refuse, Idle, NoFiles, RecoveryRecord,
       FileRecord
<1>10. CASE Recovered
  BY <1>1, <1>10, IdleTyped, FirstHostTyped DEF Recovered, Idle, NoFiles, RecoveryRecord,
       FileRecord
<1>11. CASE UNCHANGED recovery
  BY <1>1, <1>11
<1> QED
  BY <1>2, <1>3, <1>4, <1>5, <1>6, <1>7, <1>8, <1>9, <1>10, <1>11 DEF AclNext,
       CreateTemporary, Publish, WriteFails, ReadRoot, ReadAgain, AddEntry, ObserveEntry,
       JobEnds, ReadForCleanup, ReadAgainForCleanup, RemoveEntry, VerifyRemoved,
       DeleteJournals, HostDies, Unchanged

\* ... hence all of them.
LEMMA AclTypesKept ==
  ASSUME AclInv, AclNext
  PROVE  AclTypeOK'
BY DaclTyped, OverwrittenTyped, PublishedTyped, TemporaryTyped, HostsTyped, RecoveryTyped
   DEF AclTypeOK, HostRecord, RecoveryRecord, FileRecord

\* Recovery stays on behalf of one that has not begun, with one that is gone ...
LEMMA RecoveringKept ==
  ASSUME AclInv, AclNext
  PROVE  Recovering'
<1>1. /\ AclTypeOK /\ Recovering /\ \A h \in Hosts : Journaled(h)
      /\ published \in [Hosts -> SUBSET Numbers] /\ temporary \in [Hosts -> SUBSET Numbers]
      /\ host \in [Hosts -> HostRecord] /\ recovery \in RecoveryRecord
  BY AclTypes DEF AclInv
<1>2. ASSUME NEW h \in Hosts, CreateTemporary(h) PROVE Recovering'
  BY <1>1, <1>2, Gone, IdleTyped, FirstHostTyped DEF CreateTemporary, Recovering, Place,
       Places, Before, Generation, RecoveryRecord
<1>3. ASSUME NEW h \in Hosts, Publish(h) PROVE Recovering'
  BY <1>1, <1>3, WrittenGoes
     DEF Publish, Recovering, Place, Places, Before, Generation, RecoveryRecord
<1>4. ASSUME NEW h \in Hosts, WriteFails(h) PROVE Recovering'
  BY <1>1, <1>4, WrittenGoes
     DEF WriteFails, Recovering, Place, Places, Before, Generation, RecoveryRecord
<1>5. ASSUME NEW h \in Hosts, ReadRoot(h) PROVE Recovering'
  BY <1>1, <1>5, SeenGoes
     DEF ReadRoot, Unchanged, Recovering, Place, Places, Before, Generation, RecoveryRecord
<1>6. ASSUME NEW h \in Hosts, ReadAgain(h) PROVE Recovering'
  BY <1>1, <1>6, Gone, IdleTyped, FirstHostTyped DEF ReadAgain, Unchanged, Recovering, Place,
       Places, Before, Generation, RecoveryRecord
<1>7. ASSUME NEW h \in Hosts, AddEntry(h) PROVE Recovering'
  BY <1>1, <1>7, Gone, IdleTyped, FirstHostTyped DEF AddEntry, SetDacl, Recovering, Place,
       Places, Before, Generation, RecoveryRecord
<1>8. ASSUME NEW h \in Hosts, ObserveEntry(h) PROVE Recovering'
  BY <1>1, <1>8, Gone, IdleTyped, FirstHostTyped DEF ObserveEntry, Unchanged, Recovering,
       Place, Places, Before, Generation, RecoveryRecord
<1>9. ASSUME NEW h \in Hosts, JobEnds(h) PROVE Recovering'
  BY <1>1, <1>9, JobEndsGoes
     DEF JobEnds, Unchanged, Recovering, Place, Places, Before, Generation, RecoveryRecord
<1>10. ASSUME NEW h \in Hosts, ReadForCleanup(h) PROVE Recovering'
  <2>1. CASE h \in dacl
    BY <1>1, <1>10, <2>1, SeenGoes
       DEF ReadForCleanup, Unchanged, Recovering, Place, Places, Before, Generation,
           RecoveryRecord
  <2>2. CASE h \notin dacl
    BY <1>1, <1>10, <2>2, Gone
       DEF ReadForCleanup, Unchanged, Recovering, Place, Places, Before, Generation,
           RecoveryRecord
  <2> QED
    BY <2>1, <2>2
<1>11. ASSUME NEW h \in Hosts, ReadAgainForCleanup(h) PROVE Recovering'
  BY <1>1, <1>11, Gone, IdleTyped, FirstHostTyped DEF ReadAgainForCleanup, Unchanged,
       Recovering, Place, Places, Before, Generation, RecoveryRecord
<1>12. ASSUME NEW h \in Hosts, RemoveEntry(h) PROVE Recovering'
  BY <1>1, <1>12, Gone, IdleTyped, FirstHostTyped DEF RemoveEntry, SetDacl, Recovering, Place,
       Places, Before, Generation, RecoveryRecord
<1>13. ASSUME NEW h \in Hosts, VerifyRemoved(h) PROVE Recovering'
  BY <1>1, <1>13, Gone, IdleTyped, FirstHostTyped DEF VerifyRemoved, Unchanged, Recovering,
       Place, Places, Before, Generation, RecoveryRecord
<1>14. ASSUME NEW h \in Hosts, DeleteJournals(h) PROVE Recovering'
  BY <1>1, <1>14, Gone, IdleTyped, FirstHostTyped DEF DeleteJournals, Recovering, Place,
       Places, Before, Generation, RecoveryRecord
<1>15. ASSUME NEW h \in Hosts, HostDies(h) PROVE Recovering'
  BY <1>1, <1>15, Gone, IdleTyped, FirstHostTyped DEF HostDies, HostAlive, Unchanged,
       Recovering, Place, Places, Before, Generation, RecoveryRecord
<1>16. ASSUME NEW h \in Hosts, StartRecovery(h) PROVE Recovering'
  BY <1>1, <1>16, Gone, IdleTyped, FirstHostTyped DEF StartRecovery, Idle, NoFiles,
       Recovering, Place, Places, Before, Generation, RecoveryRecord
<1>17. ASSUME NEW h \in Hosts, RecoverGroup(h) PROVE Recovering'
  <2>1. Place(h) = "gone"
    BY <1>1, <1>17
       DEF RecoverGroup, OwnedHostAlive, HostAlive, Recoverable, Contiguous, Journaled, Before
  <2> QED
    BY <1>1, <1>17, <2>1 DEF RecoverGroup, Recovering, RecoveryRecord, Place
<1>18. CASE RecoverRoot
  BY <1>1, <1>18, Gone, IdleTyped, FirstHostTyped DEF RecoverRoot, Recovering, Place, Places,
       Before, Generation, RecoveryRecord
<1>19. CASE RecoverAgain
  BY <1>1, <1>19, Gone, IdleTyped, FirstHostTyped DEF RecoverAgain, Recovering, Place, Places,
       Before, Generation, RecoveryRecord
<1>20. CASE RecoverRemove
  BY <1>1, <1>20, Gone, IdleTyped, FirstHostTyped DEF RecoverRemove, SetDacl, Recovering,
       Place, Places, Before, Generation, RecoveryRecord
<1>21. CASE RecoverVerify
  BY <1>1, <1>21, Gone, IdleTyped, FirstHostTyped DEF RecoverVerify, Recovering, Place,
       Places, Before, Generation, RecoveryRecord
<1>22. CASE RecoverDelete
  <2>1. /\ recovery'.at \in {"delete", "group"} /\ recovery'.for = recovery.for
        /\ recovery'.now = recovery.now /\ recovery.at = "delete"
    BY <1>1, <1>22 DEF RecoverDelete, RecoveryRecord
  <2> QED
    BY <1>1, <1>22, <2>1 DEF RecoverDelete, Recovering, Place
<1>23. CASE Refuse
  BY <1>1, <1>23, Gone, IdleTyped, FirstHostTyped DEF Refuse, Idle, NoFiles, Recovering,
       Place, Places, Before, Generation, RecoveryRecord
<1>24. CASE Recovered
  BY <1>1, <1>24, RecoveredGoes, IdleTyped, FirstHostTyped
     DEF Recovered, Recovering, Place, Places, Before, Generation, RecoveryRecord
<1> QED
  BY <1>2, <1>3, <1>4, <1>5, <1>6, <1>7, <1>8, <1>9, <1>10, <1>11, <1>12, <1>13, <1>14, <1>15,
       <1>16, <1>17, <1>18, <1>19, <1>20, <1>21, <1>22, <1>23, <1>24 DEF AclNext

\* ... the journals are as far as their hosts are ...
LEMMA JournaledKept ==
  ASSUME AclInv, AclNext
  PROVE  (\A g \in Hosts : Journaled(g))'
<1>1. /\ AclTypeOK /\ Recovering /\ \A h \in Hosts : Journaled(h)
      /\ published \in [Hosts -> SUBSET Numbers] /\ temporary \in [Hosts -> SUBSET Numbers]
      /\ host \in [Hosts -> HostRecord] /\ recovery \in RecoveryRecord
  BY AclTypes DEF AclInv
<1>2. ASSUME NEW h \in Hosts, CreateTemporary(h) PROVE (\A g \in Hosts : Journaled(g))'
  BY <1>1, <1>2, Gone DEF CreateTemporary, Journaled, Place, Places, Before, Generation
<1>3. ASSUME NEW h \in Hosts, Publish(h) PROVE (\A g \in Hosts : Journaled(g))'
  BY <1>1, <1>3, WrittenGoes DEF Publish, Journaled, Place, Places, Before, Generation
<1>4. ASSUME NEW h \in Hosts, WriteFails(h) PROVE (\A g \in Hosts : Journaled(g))'
  <2>1. /\ \A g \in Hosts \ {h} : host'[g] = host[g]
        /\ \A g \in Hosts \ {h} : published'[g] = published[g] /\ temporary'[g] = temporary[g]
    BY <1>1, <1>4, WrittenGoes DEF WriteFails, Unchanged
  <2>2. \A g \in Hosts \ {h} : Journaled(g)'
    BY <1>1, <2>1 DEF Journaled, Place
  <2>3. /\ published'[h] = published[h] /\ temporary'[h] = {}
        /\ Place(h) = "prepared" => host'[h].at = "cleanup"
        /\ Place(h) = "applied" => host'[h].at = "cleanup"
        /\ Place(h) = "jobZero" => host'[h].at = "cleanup"
        /\ Place(h) = "removed" => host'[h].at \in {"delete", "gone"}
        /\ Place(h) \in {"prepared", "applied", "jobZero", "removed"}
    BY <1>1, <1>4, WrittenGoes DEF WriteFails, Generation
  <2>4. Journaled(h)'
    BY <1>1, <2>3 DEF Journaled, Place, Before
  <2> QED
    BY <2>2, <2>4
<1>5. ASSUME NEW h \in Hosts, ReadRoot(h) PROVE (\A g \in Hosts : Journaled(g))'
  <2>1. /\ \A g \in Hosts \ {h} : host'[g] = host[g]
        /\ host'[h].at = "prepared" /\ Place(h) = "leased" /\ UNCHANGED <<published, temporary>>
    BY <1>1, <1>5, SeenGoes DEF ReadRoot, Unchanged, Places, Generation
  <2> QED
    BY <1>1, <2>1 DEF Journaled, Place, Before
<1>6. ASSUME NEW h \in Hosts, ReadAgain(h) PROVE (\A g \in Hosts : Journaled(g))'
  BY <1>1, <1>6, Gone DEF ReadAgain, Unchanged, Journaled, Place, Places, Before, Generation
<1>7. ASSUME NEW h \in Hosts, AddEntry(h) PROVE (\A g \in Hosts : Journaled(g))'
  BY <1>1, <1>7, Gone DEF AddEntry, SetDacl, Journaled, Place, Places, Before, Generation
<1>8. ASSUME NEW h \in Hosts, ObserveEntry(h) PROVE (\A g \in Hosts : Journaled(g))'
  BY <1>1, <1>8, Gone DEF ObserveEntry, Unchanged, Journaled, Place, Places, Before,
       Generation
<1>9. ASSUME NEW h \in Hosts, JobEnds(h) PROVE (\A g \in Hosts : Journaled(g))'
  BY <1>1, <1>9, JobEndsGoes
     DEF JobEnds, Unchanged, Journaled, Place, Places, Before, Generation
<1>10. ASSUME NEW h \in Hosts, ReadForCleanup(h) PROVE (\A g \in Hosts : Journaled(g))'
  <2>1. /\ \A g \in Hosts \ {h} : host'[g] = host[g]
        /\ host'[h].at \in {"again", "gone"} /\ Place(h) = "cleanup"
        /\ UNCHANGED <<published, temporary>>
    <3>1. CASE h \in dacl
      BY <1>1, <1>10, <3>1, SeenGoes DEF ReadForCleanup, Unchanged, Places
    <3>2. CASE h \notin dacl
      BY <1>1, <1>10, <3>2, Gone DEF ReadForCleanup, Unchanged, Places
    <3> QED
      BY <3>1, <3>2
  <2> QED
    BY <1>1, <2>1 DEF Journaled, Place, Before
<1>11. ASSUME NEW h \in Hosts, ReadAgainForCleanup(h) PROVE (\A g \in Hosts : Journaled(g))'
  BY <1>1, <1>11, Gone DEF ReadAgainForCleanup, Unchanged, Journaled, Place, Places, Before,
       Generation
<1>12. ASSUME NEW h \in Hosts, RemoveEntry(h) PROVE (\A g \in Hosts : Journaled(g))'
  BY <1>1, <1>12, Gone DEF RemoveEntry, SetDacl, Journaled, Place, Places, Before, Generation
<1>13. ASSUME NEW h \in Hosts, VerifyRemoved(h) PROVE (\A g \in Hosts : Journaled(g))'
  BY <1>1, <1>13, Gone DEF VerifyRemoved, Unchanged, Journaled, Place, Places, Before,
       Generation
<1>14. ASSUME NEW h \in Hosts, DeleteJournals(h) PROVE (\A g \in Hosts : Journaled(g))'
  BY <1>1, <1>14, Gone DEF DeleteJournals, Journaled, Place, Places, Before, Generation
<1>15. ASSUME NEW h \in Hosts, HostDies(h) PROVE (\A g \in Hosts : Journaled(g))'
  BY <1>1, <1>15, Gone DEF HostDies, HostAlive, Unchanged, Journaled, Place, Places, Before,
       Generation
<1>16. ASSUME NEW h \in Hosts, StartRecovery(h) PROVE (\A g \in Hosts : Journaled(g))'
  BY <1>1, <1>16, Gone DEF StartRecovery, Idle, NoFiles, Journaled, Place, Places, Before,
       Generation
<1>17. ASSUME NEW h \in Hosts, RecoverGroup(h) PROVE (\A g \in Hosts : Journaled(g))'
  BY <1>1, <1>17, Gone DEF RecoverGroup, Journaled, Place, Places, Before, Generation
<1>18. CASE RecoverRoot
  BY <1>1, <1>18, Gone DEF RecoverRoot, Journaled, Place, Places, Before, Generation
<1>19. CASE RecoverAgain
  BY <1>1, <1>19, Gone DEF RecoverAgain, Journaled, Place, Places, Before, Generation
<1>20. CASE RecoverRemove
  BY <1>1, <1>20, Gone DEF RecoverRemove, SetDacl, Journaled, Place, Places, Before,
       Generation
<1>21. CASE RecoverVerify
  BY <1>1, <1>21, Gone DEF RecoverVerify, Journaled, Place, Places, Before, Generation
<1>22. CASE RecoverDelete
  <2>1. /\ recovery.now \in Hosts /\ Place(recovery.now) = "gone" /\ UNCHANGED host
        /\ \A g \in Hosts \ {recovery.now} :
              published'[g] = published[g] /\ temporary'[g] = temporary[g]
    BY <1>1, <1>22 DEF RecoverDelete, Recovering, RecoveryRecord
  <2> QED
    BY <1>1, <2>1 DEF Journaled, Place, Before
<1>23. CASE Refuse
  BY <1>1, <1>23, Gone DEF Refuse, Idle, NoFiles, Journaled, Place, Places, Before, Generation
<1>24. CASE Recovered
  <2>1. /\ recovery.for \in Hosts /\ Place(recovery.for) = "none"
        /\ host'[recovery.for].at = "leased"
        /\ \A g \in Hosts \ {recovery.for} : host'[g] = host[g]
        /\ UNCHANGED <<published, temporary>>
    BY <1>1, <1>24, RecoveredGoes DEF Recovered, Recovering
  <2> QED
    BY <1>1, <2>1 DEF Journaled, Place, Before
<1> QED
  BY <1>2, <1>3, <1>4, <1>5, <1>6, <1>7, <1>8, <1>9, <1>10, <1>11, <1>12, <1>13, <1>14, <1>15,
       <1>16, <1>17, <1>18, <1>19, <1>20, <1>21, <1>22, <1>23, <1>24 DEF AclNext

\* A host does not disturb what another has put on the root.
LEMMA AccountedElsewhere ==
  ASSUME AclTypeOK, Accounted, NEW h \in Hosts,
         \A g \in Hosts \ {h} : /\ host'[g] = host[g]
                                /\ published'[g] = published[g] /\ temporary'[g] = temporary[g],
         ~overwritten' => ~overwritten /\ dacl' \subseteq dacl \cup {h},
         ~overwritten' /\ h \in dacl' => Entered(h)'
  PROVE  Accounted'
<1>1. dacl \subseteq Hosts
  BY DEF AclTypeOK
<1>2. ASSUME ~overwritten', NEW g \in dacl', g # h PROVE Entered(g)'
  <2>1. g \in dacl /\ g \in Hosts /\ Entered(g)
    BY <1>1, <1>2 DEF Accounted
  <2> QED
    BY <1>2, <2>1 DEF Entered, Place
<1> QED
  BY <1>2 DEF Accounted

\* ... what is on the root is accounted for ...
LEMMA AccountedKept ==
  ASSUME AclInv, AclNext
  PROVE  Accounted'
<1>1. /\ AclTypeOK /\ Recovering /\ \A h \in Hosts : Journaled(h)
      /\ published \in [Hosts -> SUBSET Numbers] /\ temporary \in [Hosts -> SUBSET Numbers]
      /\ host \in [Hosts -> HostRecord] /\ recovery \in RecoveryRecord
      /\ Accounted /\ Taken
  BY AclTypes DEF AclInv
<1>2. ASSUME NEW h \in Hosts, CreateTemporary(h) PROVE Accounted'
  <2>1. \A g \in Hosts \ {h} : /\ host'[g] = host[g]
                               /\ published'[g] = published[g] /\ temporary'[g] = temporary[g]
    BY <1>1, <1>2, Gone DEF CreateTemporary, Unchanged, Places, Before, Generation
  <2>2. ~overwritten' => ~overwritten /\ dacl' \subseteq dacl \cup {h}
    BY <1>1, <1>2 DEF CreateTemporary, Unchanged, SetDacl
  <2>3. ASSUME ~overwritten', h \in dacl' PROVE Entered(h)'
    BY <1>1, <1>2, <2>2, <2>3, Gone
       DEF CreateTemporary, SetDacl, Unchanged, Accounted, Entered, Sound, Journaled, Place,
           Places, Before,
           Generation
  <2> QED
    BY <1>1, <2>1, <2>2, <2>3, AccountedElsewhere
<1>3. ASSUME NEW h \in Hosts, Publish(h) PROVE Accounted'
  <2>1. \A g \in Hosts \ {h} : /\ host'[g] = host[g]
                               /\ published'[g] = published[g] /\ temporary'[g] = temporary[g]
    BY <1>1, <1>3, WrittenGoes DEF Publish, Unchanged, Places, Before, Generation
  <2>2. ~overwritten' => ~overwritten /\ dacl' \subseteq dacl \cup {h}
    BY <1>1, <1>3 DEF Publish, Unchanged, SetDacl
  <2>3. ASSUME ~overwritten', h \in dacl' PROVE Entered(h)'
    BY <1>1, <1>3, <2>2, <2>3, WrittenGoes
       DEF Publish, SetDacl, Unchanged, Accounted, Entered, Sound, Journaled, Place, Places,
           Before,
           Generation
  <2> QED
    BY <1>1, <2>1, <2>2, <2>3, AccountedElsewhere
<1>4. ASSUME NEW h \in Hosts, WriteFails(h) PROVE Accounted'
  <2>1. \A g \in Hosts \ {h} : /\ host'[g] = host[g]
                               /\ published'[g] = published[g] /\ temporary'[g] = temporary[g]
    BY <1>1, <1>4, WrittenGoes DEF WriteFails, Unchanged, Places, Before, Generation
  <2>2. ~overwritten' => ~overwritten /\ dacl' \subseteq dacl \cup {h}
    BY <1>1, <1>4 DEF WriteFails, Unchanged, SetDacl
  <2>3. ASSUME ~overwritten', h \in dacl' PROVE Entered(h)'
    BY <1>1, <1>4, <2>2, <2>3, WrittenGoes
       DEF WriteFails, SetDacl, Unchanged, Accounted, Entered, Sound, Journaled, Place,
           Places, Before,
           Generation
  <2> QED
    BY <1>1, <2>1, <2>2, <2>3, AccountedElsewhere
<1>5. ASSUME NEW h \in Hosts, ReadRoot(h) PROVE Accounted'
  <2>1. \A g \in Hosts \ {h} : /\ host'[g] = host[g]
                               /\ published'[g] = published[g] /\ temporary'[g] = temporary[g]
    BY <1>1, <1>5, SeenGoes DEF ReadRoot, Unchanged, Places, Before, Generation
  <2>2. ~overwritten' => ~overwritten /\ dacl' \subseteq dacl \cup {h}
    BY <1>1, <1>5 DEF ReadRoot, Unchanged, SetDacl
  <2>3. ASSUME ~overwritten', h \in dacl' PROVE Entered(h)'
    BY <1>1, <1>5, <2>2, <2>3, SeenGoes
       DEF ReadRoot, SetDacl, Unchanged, Accounted, Entered, Sound, Journaled, Place, Places,
           Before,
           Generation
  <2> QED
    BY <1>1, <2>1, <2>2, <2>3, AccountedElsewhere
<1>6. ASSUME NEW h \in Hosts, ReadAgain(h) PROVE Accounted'
  <2>1. \A g \in Hosts \ {h} : /\ host'[g] = host[g]
                               /\ published'[g] = published[g] /\ temporary'[g] = temporary[g]
    BY <1>1, <1>6, Gone DEF ReadAgain, Unchanged, Places, Before, Generation
  <2>2. ~overwritten' => ~overwritten /\ dacl' \subseteq dacl \cup {h}
    BY <1>1, <1>6 DEF ReadAgain, Unchanged, SetDacl
  <2>3. ASSUME ~overwritten', h \in dacl' PROVE Entered(h)'
    BY <1>1, <1>6, <2>2, <2>3, Gone
       DEF ReadAgain, SetDacl, Unchanged, Accounted, Entered, Sound, Journaled, Place, Places,
           Before,
           Generation
  <2> QED
    BY <1>1, <2>1, <2>2, <2>3, AccountedElsewhere
<1>7. ASSUME NEW h \in Hosts, AddEntry(h) PROVE Accounted'
  <2>1. \A g \in Hosts \ {h} : /\ host'[g] = host[g]
                               /\ published'[g] = published[g] /\ temporary'[g] = temporary[g]
    BY <1>1, <1>7, Gone DEF AddEntry, Unchanged, Places, Before, Generation
  <2>2. ~overwritten' => ~overwritten /\ dacl' \subseteq dacl \cup {h}
    BY <1>1, <1>7 DEF AddEntry, Unchanged, SetDacl
  <2>3. ASSUME ~overwritten', h \in dacl' PROVE Entered(h)'
    BY <1>1, <1>7, <2>2, <2>3, Gone
       DEF AddEntry, SetDacl, Unchanged, Accounted, Entered, Sound, Journaled, Place, Places,
           Before,
           Generation
  <2> QED
    BY <1>1, <2>1, <2>2, <2>3, AccountedElsewhere
<1>8. ASSUME NEW h \in Hosts, ObserveEntry(h) PROVE Accounted'
  <2>1. \A g \in Hosts \ {h} : /\ host'[g] = host[g]
                               /\ published'[g] = published[g] /\ temporary'[g] = temporary[g]
    BY <1>1, <1>8, Gone DEF ObserveEntry, Unchanged, Places, Before, Generation
  <2>2. ~overwritten' => ~overwritten /\ dacl' \subseteq dacl \cup {h}
    BY <1>1, <1>8 DEF ObserveEntry, Unchanged, SetDacl
  <2>3. ASSUME ~overwritten', h \in dacl' PROVE Entered(h)'
    <3>1. /\ host'[h].at \in {"applied", "cleanup"} /\ Place(h) = "observe"
          /\ UNCHANGED <<published, temporary, dacl>>
      BY <1>1, <1>8, Gone DEF ObserveEntry, Unchanged, Places, Generation
    <3>2. Entered(h) /\ Journaled(h)
      BY <1>1, <2>2, <2>3, <3>1 DEF Accounted
    <3> QED
      BY <1>1, <3>1, <3>2 DEF Entered, Journaled, Sound, Place, Places, Before, Generation
  <2> QED
    BY <1>1, <2>1, <2>2, <2>3, AccountedElsewhere
<1>9. ASSUME NEW h \in Hosts, JobEnds(h) PROVE Accounted'
  <2>1. \A g \in Hosts \ {h} : /\ host'[g] = host[g]
                               /\ published'[g] = published[g] /\ temporary'[g] = temporary[g]
    BY <1>1, <1>9, JobEndsGoes DEF JobEnds, Unchanged, Places, Before, Generation
  <2>2. ~overwritten' => ~overwritten /\ dacl' \subseteq dacl \cup {h}
    BY <1>1, <1>9 DEF JobEnds, Unchanged, SetDacl
  <2>3. ASSUME ~overwritten', h \in dacl' PROVE Entered(h)'
    BY <1>1, <1>9, <2>2, <2>3, JobEndsGoes
       DEF JobEnds, SetDacl, Unchanged, Accounted, Entered, Sound, Journaled, Place, Places,
           Before,
           Generation
  <2> QED
    BY <1>1, <2>1, <2>2, <2>3, AccountedElsewhere
<1>10. ASSUME NEW h \in Hosts, ReadForCleanup(h) PROVE Accounted'
  <2>1. \A g \in Hosts \ {h} : /\ host'[g] = host[g]
                               /\ published'[g] = published[g] /\ temporary'[g] = temporary[g]
    BY <1>1, <1>10, Gone, SeenGoes DEF ReadForCleanup, Unchanged, Places, Before, Generation
  <2>2. ~overwritten' => ~overwritten /\ dacl' \subseteq dacl \cup {h}
    BY <1>1, <1>10 DEF ReadForCleanup, Unchanged, SetDacl
  <2>3. ASSUME ~overwritten', h \in dacl' PROVE Entered(h)'
    <3>1. /\ host'[h].at \in {"again"} /\ Place(h) = "cleanup" /\ h \in dacl
          /\ UNCHANGED <<published, temporary, dacl>>
      BY <1>1, <1>10, <2>3, SeenGoes DEF ReadForCleanup, Unchanged, Places
    <3>2. Entered(h) /\ Journaled(h)
      BY <1>1, <2>2, <2>3, <3>1 DEF Accounted
    <3> QED
      BY <1>1, <3>1, <3>2 DEF Entered, Journaled, Sound, Place, Places, Before, Generation
  <2> QED
    BY <1>1, <2>1, <2>2, <2>3, AccountedElsewhere
<1>11. ASSUME NEW h \in Hosts, ReadAgainForCleanup(h) PROVE Accounted'
  <2>1. \A g \in Hosts \ {h} : /\ host'[g] = host[g]
                               /\ published'[g] = published[g] /\ temporary'[g] = temporary[g]
    BY <1>1, <1>11, Gone DEF ReadAgainForCleanup, Unchanged, Places, Before, Generation
  <2>2. ~overwritten' => ~overwritten /\ dacl' \subseteq dacl \cup {h}
    BY <1>1, <1>11 DEF ReadAgainForCleanup, Unchanged, SetDacl
  <2>3. ASSUME ~overwritten', h \in dacl' PROVE Entered(h)'
    BY <1>1, <1>11, <2>2, <2>3, Gone
       DEF ReadAgainForCleanup, SetDacl, Unchanged, Accounted, Entered, Sound, Journaled,
           Place, Places, Before,
           Generation
  <2> QED
    BY <1>1, <2>1, <2>2, <2>3, AccountedElsewhere
<1>12. ASSUME NEW h \in Hosts, RemoveEntry(h) PROVE Accounted'
  <2>1. \A g \in Hosts \ {h} : /\ host'[g] = host[g]
                               /\ published'[g] = published[g] /\ temporary'[g] = temporary[g]
    BY <1>1, <1>12, Gone DEF RemoveEntry, Unchanged, Places, Before, Generation
  <2>2. ~overwritten' => ~overwritten /\ dacl' \subseteq dacl \cup {h}
    BY <1>1, <1>12 DEF RemoveEntry, Unchanged, SetDacl
  <2>3. ASSUME ~overwritten', h \in dacl' PROVE Entered(h)'
    BY <1>1, <1>12, <2>2, <2>3, Gone
       DEF RemoveEntry, SetDacl, Unchanged, Accounted, Entered, Sound, Journaled, Place,
           Places, Before,
           Generation
  <2> QED
    BY <1>1, <2>1, <2>2, <2>3, AccountedElsewhere
<1>13. ASSUME NEW h \in Hosts, VerifyRemoved(h) PROVE Accounted'
  <2>1. \A g \in Hosts \ {h} : /\ host'[g] = host[g]
                               /\ published'[g] = published[g] /\ temporary'[g] = temporary[g]
    BY <1>1, <1>13, Gone DEF VerifyRemoved, Unchanged, Places, Before, Generation
  <2>2. ~overwritten' => ~overwritten /\ dacl' \subseteq dacl \cup {h}
    BY <1>1, <1>13 DEF VerifyRemoved, Unchanged, SetDacl
  <2>3. ASSUME ~overwritten', h \in dacl' PROVE Entered(h)'
    BY <1>1, <1>13, <2>2, <2>3, Gone
       DEF VerifyRemoved, SetDacl, Unchanged, Accounted, Entered, Sound, Journaled, Place,
           Places, Before,
           Generation
  <2> QED
    BY <1>1, <2>1, <2>2, <2>3, AccountedElsewhere
<1>14. ASSUME NEW h \in Hosts, DeleteJournals(h) PROVE Accounted'
  <2>1. \A g \in Hosts \ {h} : /\ host'[g] = host[g]
                               /\ published'[g] = published[g] /\ temporary'[g] = temporary[g]
    BY <1>1, <1>14, Gone DEF DeleteJournals, Unchanged, Places, Before, Generation
  <2>2. ~overwritten' => ~overwritten /\ dacl' \subseteq dacl \cup {h}
    BY <1>1, <1>14 DEF DeleteJournals, Unchanged, SetDacl
  <2>3. ASSUME ~overwritten', h \in dacl' PROVE Entered(h)'
    BY <1>1, <1>14, <2>2, <2>3, Gone
       DEF DeleteJournals, SetDacl, Unchanged, Accounted, Entered, Sound, Journaled, Place,
           Places, Before,
           Generation
  <2> QED
    BY <1>1, <2>1, <2>2, <2>3, AccountedElsewhere
<1>15. ASSUME NEW h \in Hosts, HostDies(h) PROVE Accounted'
  <2>1. \A g \in Hosts \ {h} : /\ host'[g] = host[g]
                               /\ published'[g] = published[g] /\ temporary'[g] = temporary[g]
    BY <1>1, <1>15, Gone DEF HostDies, Unchanged, Places, Before, Generation
  <2>2. ~overwritten' => ~overwritten /\ dacl' \subseteq dacl \cup {h}
    BY <1>1, <1>15 DEF HostDies, Unchanged, SetDacl
  <2>3. ASSUME ~overwritten', h \in dacl' PROVE Entered(h)'
    <3>1. /\ host'[h].at \in {"gone"} /\ Place(h) \in Places \ {"none", "gone"}
          /\ UNCHANGED <<published, temporary, dacl>>
      BY <1>1, <1>15, Gone
         DEF HostDies, HostAlive, HostRecord, Place, Unchanged, Places, Generation
    <3>2. Entered(h) /\ Journaled(h)
      BY <1>1, <2>2, <2>3, <3>1 DEF Accounted
    <3> QED
      BY <1>1, <3>1, <3>2 DEF Entered, Journaled, Sound, Place, Places, Before, Generation
  <2> QED
    BY <1>1, <2>1, <2>2, <2>3, AccountedElsewhere
<1>16. ASSUME NEW h \in Hosts, StartRecovery(h) PROVE Accounted'
  BY <1>1, <1>16 DEF StartRecovery, Idle, NoFiles, Accounted, Entered, Place
<1>17. ASSUME NEW h \in Hosts, RecoverGroup(h) PROVE Accounted'
  BY <1>1, <1>17 DEF RecoverGroup, Accounted, Entered, Place
<1>18. CASE RecoverRoot
  BY <1>1, <1>18 DEF RecoverRoot, Accounted, Entered, Place
<1>19. CASE RecoverAgain
  BY <1>1, <1>19 DEF RecoverAgain, Accounted, Entered, Place
<1>20. CASE RecoverRemove
  BY <1>1, <1>20 DEF RecoverRemove, SetDacl, Accounted, Entered, Place
<1>21. CASE RecoverVerify
  BY <1>1, <1>21 DEF RecoverVerify, Accounted, Entered, Place
<1>22. CASE RecoverDelete
  <2>1. /\ recovery.now \in Hosts /\ UNCHANGED <<host, dacl, overwritten>>
        /\ recovery.at = "delete"
        /\ \A g \in Hosts \ {recovery.now} :
              published'[g] = published[g] /\ temporary'[g] = temporary[g]
    BY <1>1, <1>22 DEF RecoverDelete, RecoveryRecord
  <2>2. ~overwritten => recovery.now \notin dacl
    BY <1>1, <2>1 DEF Taken
  <2> QED
    BY <1>1, <2>1, <2>2, AccountedElsewhere
<1>23. CASE Refuse
  BY <1>1, <1>23 DEF Refuse, Idle, NoFiles, Accounted, Entered, Place
<1>24. CASE Recovered
  <2>1. /\ recovery.for \in Hosts /\ Place(recovery.for) = "none"
        /\ \A g \in Hosts \ {recovery.for} : host'[g] = host[g]
        /\ UNCHANGED <<published, temporary, dacl, overwritten>>
    BY <1>1, <1>24, RecoveredGoes DEF Recovered, Recovering
  <2>2. ~overwritten => recovery.for \notin dacl
    BY <1>1, <2>1 DEF Accounted, Entered, Before
  <2> QED
    BY <1>1, <2>1, <2>2, AccountedElsewhere
<1> QED
  BY <1>2, <1>3, <1>4, <1>5, <1>6, <1>7, <1>8, <1>9, <1>10, <1>11, <1>12, <1>13, <1>14, <1>15,
       <1>16, <1>17, <1>18, <1>19, <1>20, <1>21, <1>22, <1>23, <1>24 DEF AclNext

\* ... and files are deleted once the entry is away.
LEMMA TakenKept ==
  ASSUME AclInv, AclNext
  PROVE  Taken'
<1>1. /\ AclTypeOK /\ Recovering /\ \A h \in Hosts : Journaled(h)
      /\ published \in [Hosts -> SUBSET Numbers] /\ temporary \in [Hosts -> SUBSET Numbers]
      /\ host \in [Hosts -> HostRecord] /\ recovery \in RecoveryRecord
      /\ Accounted /\ Taken
  BY AclTypes DEF AclInv
<1>2. ASSUME NEW h \in Hosts, CreateTemporary(h) PROVE Taken'
  BY <1>1, <1>2 DEF CreateTemporary, Taken, Accounted, RecoveryRecord
<1>3. ASSUME NEW h \in Hosts, Publish(h) PROVE Taken'
  BY <1>1, <1>3 DEF Publish, Taken, Accounted, RecoveryRecord, Written
<1>4. ASSUME NEW h \in Hosts, WriteFails(h) PROVE Taken'
  BY <1>1, <1>4 DEF WriteFails, Taken, Accounted, RecoveryRecord, Written
<1>5. ASSUME NEW h \in Hosts, ReadRoot(h) PROVE Taken'
  BY <1>1, <1>5 DEF ReadRoot, Unchanged, Taken, Accounted, RecoveryRecord
<1>6. ASSUME NEW h \in Hosts, ReadAgain(h) PROVE Taken'
  BY <1>1, <1>6 DEF ReadAgain, Unchanged, Taken, Accounted, RecoveryRecord
<1>7. ASSUME NEW h \in Hosts, AddEntry(h) PROVE Taken'
  <2>1. recovery.at = "delete" => Place(recovery.now) = "gone"
    BY <1>1 DEF Recovering
  <2>2. recovery.at = "delete" => recovery.now # h
    BY <1>7, <2>1 DEF AddEntry
  <2> QED
    BY <1>1, <1>7, <2>2 DEF AddEntry, SetDacl, Taken
<1>8. ASSUME NEW h \in Hosts, ObserveEntry(h) PROVE Taken'
  BY <1>1, <1>8 DEF ObserveEntry, Unchanged, Taken, Accounted, RecoveryRecord
<1>9. ASSUME NEW h \in Hosts, JobEnds(h) PROVE Taken'
  BY <1>1, <1>9 DEF JobEnds, Unchanged, Taken, Accounted, RecoveryRecord
<1>10. ASSUME NEW h \in Hosts, ReadForCleanup(h) PROVE Taken'
  BY <1>1, <1>10 DEF ReadForCleanup, Unchanged, Taken, Accounted, RecoveryRecord
<1>11. ASSUME NEW h \in Hosts, ReadAgainForCleanup(h) PROVE Taken'
  BY <1>1, <1>11 DEF ReadAgainForCleanup, Unchanged, Taken, Accounted, RecoveryRecord
<1>12. ASSUME NEW h \in Hosts, RemoveEntry(h) PROVE Taken'
  BY <1>1, <1>12 DEF RemoveEntry, SetDacl, Taken, Accounted, RecoveryRecord
<1>13. ASSUME NEW h \in Hosts, VerifyRemoved(h) PROVE Taken'
  BY <1>1, <1>13 DEF VerifyRemoved, Unchanged, Taken, Accounted, RecoveryRecord
<1>14. ASSUME NEW h \in Hosts, DeleteJournals(h) PROVE Taken'
  BY <1>1, <1>14 DEF DeleteJournals, Taken, Accounted, RecoveryRecord
<1>15. ASSUME NEW h \in Hosts, HostDies(h) PROVE Taken'
  BY <1>1, <1>15 DEF HostDies, HostAlive, Unchanged, Taken, Accounted, RecoveryRecord
<1>16. ASSUME NEW h \in Hosts, StartRecovery(h) PROVE Taken'
  BY <1>1, <1>16 DEF StartRecovery, Idle, NoFiles, Taken, Accounted, RecoveryRecord
<1>17. ASSUME NEW h \in Hosts, RecoverGroup(h) PROVE Taken'
  BY <1>1, <1>17 DEF RecoverGroup, Taken, Accounted, RecoveryRecord
<1>18. CASE RecoverRoot
  BY <1>1, <1>18 DEF RecoverRoot, Taken, Accounted, RecoveryRecord
<1>19. CASE RecoverAgain
  BY <1>1, <1>19 DEF RecoverAgain, Taken, Accounted, RecoveryRecord
<1>20. CASE RecoverRemove
  BY <1>1, <1>20 DEF RecoverRemove, SetDacl, Taken, Accounted, RecoveryRecord
<1>21. CASE RecoverVerify
  BY <1>1, <1>21 DEF RecoverVerify, Taken, Accounted, RecoveryRecord
<1>22. CASE RecoverDelete
  <2>1. /\ recovery'.at \in {"delete", "group"} /\ recovery'.for = recovery.for
        /\ recovery'.now = recovery.now /\ recovery.at = "delete"
    BY <1>1, <1>22 DEF RecoverDelete, RecoveryRecord
  <2> QED
    BY <1>1, <1>22, <2>1 DEF RecoverDelete, Taken
<1>23. CASE Refuse
  BY <1>1, <1>23, IdleTyped, FirstHostTyped DEF Refuse, Taken
<1>24. CASE Recovered
  BY <1>1, <1>24, IdleTyped, FirstHostTyped DEF Recovered, Taken
<1> QED
  BY <1>2, <1>3, <1>4, <1>5, <1>6, <1>7, <1>8, <1>9, <1>10, <1>11, <1>12, <1>13, <1>14, <1>15,
       <1>16, <1>17, <1>18, <1>19, <1>20, <1>21, <1>22, <1>23, <1>24 DEF AclNext

\* Nothing else changes them, and they hold at first.
LEMMA AclInvariance == AclSpec => []AclInv
<1>1. AclInit => AclInv
  <2>1. ASSUME AclInit PROVE AclTypeOK
    <3>1. /\ recovery \in RecoveryRecord
          /\ [at |-> "none", seen |-> {}, end |-> "failed"] \in HostRecord
      BY <2>1, IdleTyped, FirstHostTyped DEF AclInit, HostRecord, Places, Before
    <3> QED
      BY <2>1, <3>1, AclTypes DEF AclInit
  <2>2. ASSUME AclInit PROVE Recovering /\ (\A h \in Hosts : Journaled(h)) /\ Accounted /\ Taken
    BY <2>2, IdleTyped, FirstHostTyped
       DEF AclInit, Recovering, Journaled, Accounted, Taken, Place, Before
  <2> QED
    BY <2>1, <2>2 DEF AclInv
<1>2. AclInv /\ [AclNext]_aclVars => AclInv'
  <2>1. CASE AclInv /\ AclNext
    BY <2>1, AclTypesKept, RecoveringKept, JournaledKept, AccountedKept, TakenKept DEF AclInv
  <2>2. CASE AclInv /\ UNCHANGED aclVars
    BY <2>2
       DEF aclVars, AclInv, AclTypeOK, Recovering, Journaled, Accounted, Taken, Entered, Place
  <2> QED
    BY <2>1, <2>2
<1> QED
  BY <1>1, <1>2, PTL DEF AclSpec

\* The root, the journals, the hosts and recovery have their types.
THEOREM AclTypeCorrect == AclSpec => []AclTypeOK
<1>1. AclInv => AclTypeOK
  BY DEF AclInv
<1> QED
  BY <1>1, AclInvariance, PTL

\* However many hosts share the root, an entry on it is that of a living host or has a journal
\* from which recovery takes it away (sandbox-host.cpp:230-263, sandbox-launcher.cpp:2251-2275).
THEOREM AceAccountedHolds == AclSpec => []AceAccounted
<1>1. AclInv => AceAccounted
  <2>1. ASSUME AclInv, ~overwritten, NEW h \in dacl
        PROVE  HostAlive(h)
                 \/ Recoverable([published |-> published[h], temporary |-> temporary[h]])
    <3>1. Entered(h)
      BY <2>1 DEF AclInv, Accounted
    <3>2. CASE Place(h) = "gone"
      BY <3>1, <3>2, SoundRecoverable DEF Entered
    <3>3. CASE Place(h) # "gone"
      BY <3>1, <3>3 DEF Entered, HostAlive, Before
    <3> QED
      BY <3>2, <3>3
  <2> QED
    BY <2>1 DEF AceAccounted
<1> QED
  BY <1>1, AclInvariance, PTL
=============================================================================
