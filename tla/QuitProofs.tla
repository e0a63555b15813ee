------------------------------ MODULE QuitProofs ------------------------------
(* For any set of resources: the safety of a resource owner's retirement,   *)
(* and its refinement of OwnerLifecycle.  For any number of loads: quitting *)
(* uses the owner as its own module allows, and the application ends only   *)
(* when everything is closed.                                               *)
EXTENDS Quit, TLAPS

-----------------------------------------------------------------------------
(* The resource owner.                                                      *)

\* How the three flags of an owner move together: before retirement, during
\* the race, and after one side has won it.
Flags ==
  /\ active <=> retirement = "none"
  /\ retirement = "none" => ~retiring
  /\ retirement = "pending" => retiring
  /\ retirement = "resolved" => ~retiring

\* The inductive invariant.
Inv == TypeOK /\ Flags /\ NothingLeftOpen /\ CleanupWindowOpen

\* Closers run only inside a retirement, and nothing is still registered then.
LEMMA InvInit == Init => Inv
  BY DEF Init, Inv, TypeOK, Flags, NothingLeftOpen, CleanupWindowOpen

\* Every step of the owner preserves the invariant.
LEMMA InvNext == Inv /\ [Next]_vars => Inv'
<1> SUFFICES ASSUME Inv, [Next]_vars PROVE Inv'
  OBVIOUS
<1> USE DEF Inv, TypeOK, Flags, NothingLeftOpen, CleanupWindowOpen
<1>1. CASE Retire
  BY <1>1 DEF Retire
<1>2. CASE DrainSettles
  BY <1>2 DEF DrainSettles, Outcome
<1>3. CASE Deadline
  BY <1>3 DEF Deadline
<1>4. ASSUME NEW r \in Resources, Register(r) PROVE Inv'
  BY <1>4 DEF Register
<1>5. ASSUME NEW r \in Resources, Withdraw(r) PROVE Inv'
  BY <1>5 DEF Withdraw
<1>6. ASSUME NEW r \in Resources, CloserSettles(r) PROVE Inv'
  BY <1>6 DEF CloserSettles
<1>7. CASE UNCHANGED vars
  BY <1>7 DEF vars
<1> QED
  BY <1>1, <1>2, <1>3, <1>4, <1>5, <1>6, <1>7 DEF Next

\* The invariant holds in every reachable state.
LEMMA Invariance == Spec => []Inv
  BY InvInit, InvNext, PTL DEF Spec

\* Type correctness of the owner's state.
THEOREM TypeCorrect == Spec => []TypeOK
<1>1. Inv => TypeOK
  BY DEF Inv
<1> QED
  BY <1>1, Invariance, PTL

\* A resolved retirement leaves nothing open, whatever the order in which
\* resources come, go and close.
THEOREM NothingLeftOpenHolds == Spec => []NothingLeftOpen
<1>1. Inv => NothingLeftOpen
  BY DEF Inv
<1> QED
  BY <1>1, Invariance, PTL

\* The cleanup window stays open for every running closer.
THEOREM CleanupWindowHolds == Spec => []CleanupWindowOpen
<1>1. Inv => CleanupWindowOpen
  BY DEF Inv
<1> QED
  BY <1>1, Invariance, PTL

\* Each step of the owner is a step of the lifecycle or leaves the phase alone.
LEMMA StepRefines == Inv /\ [Next]_vars => [Lifecycle!Next]_PhaseNow
<1> SUFFICES ASSUME Inv, [Next]_vars PROVE [Lifecycle!Next]_PhaseNow
  OBVIOUS
<1> USE DEF Inv, TypeOK, Flags, PhaseNow, Lifecycle!Next, Lifecycle!Retire,
        Lifecycle!Release, Lifecycle!Fail, Lifecycle!Overrun, Lifecycle!LateEnd
<1>1. CASE Retire
  BY <1>1 DEF Retire
<1>2. CASE DrainSettles
  BY <1>2 DEF DrainSettles, Outcome
<1>3. CASE Deadline
  BY <1>3 DEF Deadline
<1>4. CASE UNCHANGED <<active, retiring, retirement>>
  BY <1>4
<1>5. ASSUME NEW r \in Resources, Register(r) \/ Withdraw(r) \/ CloserSettles(r)
      PROVE UNCHANGED <<active, retiring, retirement>>
  BY <1>5 DEF Register, Withdraw, CloserSettles
<1> QED
  BY <1>1, <1>2, <1>3, <1>4, <1>5 DEF Next, vars

\* The resource owner implements the lifecycle that the broker relies on.
THEOREM Refinement == Spec => ImplementsLifecycle
<1>1. Init => Lifecycle!Init
  BY DEF Init, Lifecycle!Init, PhaseNow
<1> QED
  BY <1>1, StepRefines, Invariance, PTL
  DEF Spec, ImplementsLifecycle, Lifecycle!Spec

-----------------------------------------------------------------------------
(* Quitting.                                                                *)

\* A quit and the server's shutdown retire the owner, and otherwise leave it to
\* its own steps.
LEMMA OwnerOrNothing == [QuitNext]_allVars => [Next]_vars
<1> SUFFICES ASSUME [QuitNext]_allVars PROVE [Next]_vars
  OBVIOUS
<1>1. CASE QuitPackaged
  BY <1>1 DEF QuitPackaged, Next
<1>2. CASE QuitDevelopment \/ TaskkillEnds \/ ChildExits \/ QuitRefused \/ QuitFinally
  BY <1>2 DEF QuitDevelopment, TaskkillEnds, ChildExits, QuitRefused, QuitFinally
<1>3. ASSUME NEW c, Connect(c) \/ Disconnect(c) PROVE UNCHANGED vars
  BY <1>3 DEF Connect, Disconnect
<1>4. CASE ShutdownStep
  BY <1>4 DEF ShutdownStep, AuthorityRetired, ServicesDisposed, ServerClosed,
              EmbeddingClosed, DatabaseClosed, StoreClosed, Step
<1>5. ASSUME NEW l, TreeScanned(l) \/ ModelLoaded(l) \/ LoadFails(l) PROVE UNCHANGED vars
  BY <1>5 DEF TreeScanned, ModelLoaded, LoadFails
<1>6. ASSUME NEW c, Embed(c) \/ EmbedFails(c) \/ ModelAnswers(c) \/ PipelineAnswers(c)
      PROVE UNCHANGED vars
  BY <1>6 DEF Embed, EmbedFails, ModelAnswers, PipelineAnswers
<1>7. CASE OwnerStep
  BY <1>7 DEF OwnerStep, Next
<1>8. CASE UNCHANGED allVars
  BY <1>8 DEF allVars
<1> QED
  BY <1>1, <1>2, <1>3, <1>4, <1>5, <1>6, <1>7, <1>8 DEF QuitNext

\* The owner that a shutdown retires behaves as a resource owner: what is proved
\* of one holds of it (src/index.ts:1729, src/resource-owner.ts).
THEOREM QuitUsesOwner == QuitSpec => Spec
<1>1. QuitInit => Init
  BY DEF QuitInit
<1> QED
  BY <1>1, OwnerOrNothing, PTL DEF QuitSpec, Spec

\* When the runtime's owner has been retired without error nothing of it is open.
THEOREM QuitLeavesNothingOpen == QuitSpec => []NothingLeftOpen
  BY QuitUsesOwner, NothingLeftOpenHolds, PTL

-----------------------------------------------------------------------------
\* What a stage of the shutdown leaves open, and what has been awaited before it.
Stages ==
  /\ "cron" \in open => stage \in {"none", "owner", "failed"}
  /\ "wire" \in open => stage \in {"none", "owner", "wire", "failed"}
  /\ "terminals" \in open => stage \in {"none", "owner", "wire", "terminals", "failed"}
  /\ "execution" \in open =>
       stage \in {"none", "owner", "wire", "terminals", "execution", "failed"}
  /\ "server" \in open =>
       stage \in {"none", "owner", "wire", "terminals", "execution", "server", "failed"}
  /\ "embedding" \in open => stage \notin {"database", "store", "done"}
  /\ "database" \in open => stage \notin {"store", "done"}
  /\ "store" \in open => stage # "done"
  /\ connections # {} => stage \notin {"embedding", "database", "store", "done"}
  /\ stage \notin {"none", "owner", "failed"} => retirement = "resolved"
  /\ stage = "done" => \A l \in Loads : ~Held(l)

\* The server in the shell's process.
Packaged ==
  /\ stage # "killing" /\ "child" \notin open
  /\ isShuttingDown <=> stage # "none"
  /\ quit = "none" /\ ~refused => ~isShuttingDown
  /\ quit = "final" /\ ~refused => stage = "done"
  /\ Stages

\* The server in a child process.
Development ==
  /\ open \subseteq {"child"}
  /\ stage \in {"none", "killing", "done", "failed"}
  /\ connections = {}
  /\ \A l \in Loads : load[l] = "none"
  /\ \A c \in Callers : caller[c].at = "idle"
  /\ quit = "none" /\ ~refused => serverProcess
  /\ stage = "done" => open = {}
  /\ quit = "final" /\ ~refused => open = {}

\* The inductive invariant of quitting.
QuitInv ==
  /\ QuitTypeOK
  /\ packaged => Packaged
  /\ ~packaged => Development

\* A server that has started has everything open and nothing loaded.
LEMMA QuitInvInit == QuitInit => QuitInv
<1> SUFFICES ASSUME QuitInit PROVE QuitInv
  OBVIOUS
<1>1. QuitTypeOK
  <2>1. caller \in [Callers -> [at : {"idle", "waiting", "using"}, of : Loads \union {None}]]
    BY DEF QuitInit
  <2>2. load \in [Loads -> {"none", "scanning", "creating", "ready", "closed", "failed"}]
    BY DEF QuitInit
  <2> QED
    BY <2>1, <2>2 DEF QuitInit, QuitTypeOK
<1>2. ASSUME packaged PROVE Packaged
  BY <1>2 DEF QuitInit, Packaged, Stages, Shared
<1>3. ASSUME ~packaged PROVE Development
  BY <1>3 DEF QuitInit, Development
<1> QED
  BY <1>1, <1>2, <1>3 DEF QuitInv

\* The shell ends the application only when the shutdown is over or was refused.
LEMMA ShellKeeps ==
  QuitInv /\ (QuitPackaged \/ QuitDevelopment \/ TaskkillEnds \/ ChildExits \/ QuitRefused
               \/ QuitFinally)
    => QuitInv'
<1> SUFFICES ASSUME QuitInv PROVE
      (QuitPackaged \/ QuitDevelopment \/ TaskkillEnds \/ ChildExits \/ QuitRefused
        \/ QuitFinally) => QuitInv'
  OBVIOUS
<1> USE DEF QuitInv, QuitTypeOK, Packaged, Development, Stages, Held, Shared,
            shellVars, serverVars, modelVars, vars
<1>1. CASE QuitPackaged
  BY <1>1 DEF QuitPackaged, Retire
<1>2. CASE QuitDevelopment
  BY <1>2 DEF QuitDevelopment
<1>3. CASE TaskkillEnds
  BY <1>3 DEF TaskkillEnds
<1>4. CASE ChildExits
  BY <1>4 DEF ChildExits
<1>5. CASE QuitRefused
  BY <1>5 DEF QuitRefused
<1>6. CASE QuitFinally
  BY <1>6 DEF QuitFinally
<1> QED
  BY <1>1, <1>2, <1>3, <1>4, <1>5, <1>6

\* No request is accepted once the shutdown has begun.
LEMMA ConnectionsKeep ==
  ASSUME QuitInv, NEW c \in {"chat", "events"}, Connect(c) \/ Disconnect(c)
  PROVE  QuitInv'
<1> USE DEF QuitInv, QuitTypeOK, Packaged, Development, Stages, Held, Shared,
            shellVars, serverVars, modelVars, vars
<1>1. CASE Connect(c)
  BY <1>1 DEF Connect
<1>2. CASE Disconnect(c)
  BY <1>2 DEF Disconnect
<1> QED
  BY <1>1, <1>2

\* Each step of the shutdown closes what its stage is named for.
LEMMA ShutdownKeeps == QuitInv /\ ShutdownStep => QuitInv'
<1> SUFFICES ASSUME QuitInv, ShutdownStep PROVE QuitInv'
  OBVIOUS
<1> USE DEF QuitInv, QuitTypeOK, Packaged, Development, Stages, Held, Shared, Step,
            shellVars, serverVars, modelVars, vars
<1>1. CASE AuthorityRetired
  BY <1>1 DEF AuthorityRetired
<1>2. CASE ServicesDisposed
  BY <1>2 DEF ServicesDisposed
<1>3. CASE ServerClosed
  BY <1>3 DEF ServerClosed
<1>4. CASE EmbeddingClosed
  BY <1>4 DEF EmbeddingClosed, LeaseClosed
<1>5. CASE DatabaseClosed
  BY <1>5 DEF DatabaseClosed
<1>6. CASE StoreClosed
  BY <1>6, ZenonT(60) DEF StoreClosed
<1> QED
  BY <1>1, <1>2, <1>3, <1>4, <1>5, <1>6 DEF ShutdownStep

\* A load takes a lease only as long as the store is open.
LEMMA LoadsKeep ==
  ASSUME QuitInv, NEW l \in Loads, TreeScanned(l) \/ ModelLoaded(l) \/ LoadFails(l)
  PROVE  QuitInv'
<1> USE DEF QuitInv, QuitTypeOK, Packaged, Development, Stages, Held, Shared,
            shellVars, serverVars, modelVars, vars
<1>1. CASE TreeScanned(l)
  BY <1>1 DEF TreeScanned
<1>2. CASE ModelLoaded(l)
  BY <1>2 DEF ModelLoaded
<1>3. CASE LoadFails(l)
  BY <1>3 DEF LoadFails
<1> QED
  BY <1>1, <1>2, <1>3

\* Who waits for the model can begin a load, but takes no lease.
LEMMA CallersKeep ==
  ASSUME QuitInv, NEW c \in Callers,
         Embed(c) \/ EmbedFails(c) \/ ModelAnswers(c) \/ PipelineAnswers(c)
  PROVE  QuitInv'
<1> USE DEF QuitInv, QuitTypeOK, Packaged, Development, Stages, Held, Shared,
            shellVars, serverVars, modelVars, vars
<1>1. CASE Embed(c)
  BY <1>1 DEF Embed
<1>2. CASE EmbedFails(c)
  <2>1. UNCHANGED <<shellVars, serverVars, retirement, modelLoading, pipeline>>
    BY <1>2 DEF EmbedFails
  <2>2. embeddingAvailable' = FALSE /\ modelTreeLease' = None
    BY <1>2 DEF EmbedFails, LeaseClosed
  <2>3. /\ load' \in [Loads -> {"none", "scanning", "creating", "ready", "closed", "failed"}]
        /\ \A l \in Loads : load'[l] = IF l = modelTreeLease THEN "closed" ELSE load[l]
    BY <1>2 DEF EmbedFails, LeaseClosed
  <2>4. caller' \in [Callers -> [at : {"idle", "waiting", "using"}, of : Loads \union {None}]]
    BY <1>2 DEF EmbedFails
  <2>5. packaged
    BY <1>2 DEF EmbedFails, Callers
  <2>6. QuitTypeOK'
    <3>1. {modelLoading, pipeline, modelTreeLease}' \subseteq Loads \union {None}
      BY <2>1, <2>2
    <3>2. packaged' = packaged /\ serverProcess' = serverProcess /\ quit' = quit
          /\ refused' = refused /\ isShuttingDown' = isShuttingDown /\ stage' = stage
          /\ open' = open /\ connections' = connections
      BY <2>1
    <3> QED
      BY <2>2, <2>3, <2>4, <3>1, <3>2
  <2>7. stage = "done" => \A l \in Loads : ~Held(l)'
    BY <2>3, <2>5
  <2>8. Packaged'
    BY <2>1, <2>5, <2>7
  <2> QED
    BY <2>1, <2>5, <2>6, <2>8
<1>3. CASE ModelAnswers(c)
  BY <1>3 DEF ModelAnswers
<1>4. CASE PipelineAnswers(c)
  BY <1>4 DEF PipelineAnswers
<1> QED
  BY <1>1, <1>2, <1>3, <1>4

\* The owner keeps a promise that has been resolved.
LEMMA OwnerKeeps == QuitInv /\ OwnerStep => QuitInv'
<1> SUFFICES ASSUME QuitInv, OwnerStep PROVE QuitInv'
  OBVIOUS
<1>1. UNCHANGED quitVars /\ packaged
  BY DEF OwnerStep
<1>2. retirement = "resolved" => retirement' = "resolved"
  BY DEF OwnerStep, DrainSettles, Deadline, Register, Withdraw, CloserSettles
<1> QED
  BY <1>1, <1>2 DEF QuitInv, QuitTypeOK, Packaged, Stages, Held, quitVars, shellVars,
                    serverVars, modelVars

\* Every step keeps the invariant.
LEMMA QuitInvNext == QuitInv /\ [QuitNext]_allVars => QuitInv'
<1> SUFFICES ASSUME QuitInv, [QuitNext]_allVars PROVE QuitInv'
  OBVIOUS
<1>1. CASE UNCHANGED allVars
  BY <1>1 DEF QuitInv, QuitTypeOK, Packaged, Development, Stages, Held, allVars, quitVars,
              shellVars, serverVars, modelVars, vars
<1> QED
  BY <1>1, ShellKeeps, ConnectionsKeep, ShutdownKeeps, LoadsKeep, CallersKeep, OwnerKeeps
  DEF QuitNext

\* The invariant holds in every reachable state.
LEMMA QuitInvariance == QuitSpec => []QuitInv
  BY QuitInvInit, QuitInvNext, PTL DEF QuitSpec

\* Type correctness of quitting.
THEOREM QuitTypeCorrect == QuitSpec => []QuitTypeOK
<1>1. QuitInv => QuitTypeOK
  BY DEF QuitInv
<1> QED
  BY <1>1, QuitInvariance, PTL

\* The first quit that is not refused finds everything closed, whatever fails,
\* however many loads of the model there are (before-quit and shutdown()).
THEOREM QuitOnlyWhenClosedHolds == QuitSpec => []QuitOnlyWhenClosed
<1>1. QuitInv /\ NothingLeftOpen => QuitOnlyWhenClosed
  <2> SUFFICES ASSUME QuitInv, NothingLeftOpen, quit = "final", ~refused
               PROVE  /\ open = {} /\ connections = {}
                      /\ \A l \in Loads : load[l] # "ready"
                      /\ packaged => \A r \in Resources :
                                       resource[r] \in {"none", "withdrawn", "closed"}
    BY DEF QuitOnlyWhenClosed
  <2>1. CASE packaged
    <3>1. stage = "done" /\ "child" \notin open /\ Stages
      BY <2>1 DEF QuitInv, Packaged
    <3>2. open = {}
      BY <3>1 DEF Stages, QuitInv, QuitTypeOK, Shared
    <3>3. connections = {} /\ retirement = "resolved" /\ \A l \in Loads : ~Held(l)
      BY <3>1 DEF Stages
    <3> QED
      BY <3>2, <3>3 DEF NothingLeftOpen, Held
  <2>2. CASE ~packaged
    BY <2>2 DEF QuitInv, Development
  <2> QED
    BY <2>1, <2>2
<1> QED
  BY <1>1, QuitInvariance, QuitLeavesNothingOpen, PTL
=============================================================================
