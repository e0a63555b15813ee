-------------------------------- MODULE Quit --------------------------------
(***************************************************************************)
(* Quitting the application: Electron's before-quit (electron/main.cjs)    *)
(* waits for the server's shutdown (src/index.ts), which retires the       *)
(* runtime's resource owner (ResourceOwner) and then closes what runtimes  *)
(* share, one after the other, each only if the one before it closed.  The *)
(* last, the bootstrap path store, refuses while a lease on a runtime file *)
(* is held, and the embedding model (src/embedding.ts) takes one whenever  *)
(* its load gets that far.  In development the server is a child process   *)
(* that the shell kills.                                                   *)
(***************************************************************************)
EXTENDS ResourceOwner

CONSTANTS
  Loads,          \* one id per load of the embedding model
  None

VARIABLES
  packaged,       \* the server runs in the shell's process
  serverProcess,  \* the shell's handle on the child that runs it otherwise
  quit,           \* "none", "cleanup" (quitCleanupPromise) or "final"
  refused,        \* history: a cleanup was rejected
  isShuttingDown,
  stage,          \* what shutdown() waits for
  open,           \* what is still running or open
  connections,    \* of the HTTP server
  load,           \* the loads and the leases they take
  modelLoading, pipeline, modelTreeLease, embeddingAvailable,
  caller          \* who waits in embed(), and for which load

shellVars == <<packaged, serverProcess, quit, refused>>
serverVars == <<isShuttingDown, stage, open, connections>>
modelVars == <<load, modelLoading, pipeline, modelTreeLease, embeddingAvailable, caller>>
quitVars == <<shellVars, serverVars, modelVars>>

Shared == {"cron", "wire", "terminals", "execution", "server", "embedding", "database", "store"}

\* migrateMissingEmbeddings, started with the server, and a tool of a run.
Callers == {"migration", "tool"}

\* What openModelsTreeLease has counted in #runtimeFileLeases.
Held(l) == load[l] \in {"creating", "ready"}

QuitTypeOK ==
  /\ packaged \in BOOLEAN /\ serverProcess \in BOOLEAN
  /\ quit \in {"none", "cleanup", "final"} /\ refused \in BOOLEAN
  /\ isShuttingDown \in BOOLEAN
  /\ stage \in {"none", "owner", "wire", "terminals", "execution", "server",
                "embedding", "database", "store", "killing", "done", "failed"}
  /\ open \subseteq Shared \union {"child"}
  /\ connections \subseteq {"chat", "events"}
  /\ load \in [Loads -> {"none", "scanning", "creating", "ready", "closed", "failed"}]
  /\ {modelLoading, pipeline, modelTreeLease} \subseteq Loads \union {None}
  /\ embeddingAvailable \in BOOLEAN
  /\ caller \in [Callers -> [at : {"idle", "waiting", "using"}, of : Loads \union {None}]]

QuitInit ==
  /\ Init
  /\ packaged \in BOOLEAN
  /\ serverProcess = ~packaged
  /\ quit = "none" /\ refused = FALSE
  /\ isShuttingDown = FALSE /\ stage = "none"
  /\ open = IF packaged THEN Shared ELSE {"child"}
  /\ connections = {}
  /\ load = [l \in Loads |-> "none"]
  /\ modelLoading = None /\ pipeline = None /\ modelTreeLease = None
  /\ embeddingAvailable = TRUE
  /\ caller = [c \in Callers |-> [at |-> "idle", of |-> None]]

-----------------------------------------------------------------------------
(* The shell. *)

\* before-quit and cleanupBeforeFinalQuit up to their first await, packaged:
\* shutdown() retires the current authority, and returns at once when it has
\* been called before.
QuitPackaged ==
  /\ quit = "none" /\ packaged
  /\ IF isShuttingDown
     THEN quit' = "final" /\ UNCHANGED <<vars, isShuttingDown, stage>>
     ELSE /\ Retire
          /\ quit' = "cleanup" /\ isShuttingDown' = TRUE /\ stage' = "owner"
  /\ UNCHANGED <<packaged, serverProcess, refused, open, connections, modelVars>>

\* The same in development: stopDevelopmentServer forgets the child it kills.
QuitDevelopment ==
  /\ quit = "none" /\ ~packaged
  /\ IF serverProcess /\ "child" \in open
     THEN quit' = "cleanup" /\ stage' = "killing"
     ELSE quit' = "final" /\ UNCHANGED stage
  /\ serverProcess' = FALSE
  /\ UNCHANGED <<vars, packaged, refused, isShuttingDown, open, connections, modelVars>>

\* taskkill ends, or cannot be started; its success waits for the exit.
TaskkillEnds ==
  /\ stage = "killing"
  /\ \/ open' = open \ {"child"} /\ stage' = "done"
     \/ "child" \in open /\ stage' = "failed" /\ UNCHANGED open
  /\ UNCHANGED <<vars, shellVars, isShuttingDown, connections, modelVars>>

\* The child exits by itself.
ChildExits ==
  /\ "child" \in open /\ stage # "killing"
  /\ open' = {}
  /\ UNCHANGED <<vars, shellVars, isShuttingDown, stage, connections, modelVars>>

\* Fault: the promise of a failed cleanup is kept.
RefusedForGood ==
  /\ quit = "cleanup" /\ stage = "failed"
  /\ refused' = TRUE
  /\ UNCHANGED <<vars, packaged, serverProcess, quit, serverVars, modelVars>>

\* The catch of before-quit: the user is told and may quit again.
QuitRefused ==
  /\ quit = "cleanup" /\ stage = "failed"
  /\ quit' = "none" /\ refused' = TRUE
  /\ UNCHANGED <<vars, packaged, serverProcess, serverVars, modelVars>>

QuitFinally ==
  /\ quit = "cleanup" /\ stage = "done"
  /\ quit' = "final"
  /\ UNCHANGED <<vars, packaged, serverProcess, refused, serverVars, modelVars>>

-----------------------------------------------------------------------------
(* The server's shutdown. *)

\* Requests are served until the server closes.  The page's event stream ends
\* when its client leaves, any other request by itself.
Connect(c) ==
  /\ packaged /\ ~isShuttingDown
  /\ connections' = connections \union {c}
  /\ UNCHANGED <<vars, shellVars, isShuttingDown, stage, open, modelVars>>

Disconnect(c) ==
  /\ c \in connections
  /\ connections' = connections \ {c}
  /\ UNCHANGED <<vars, shellVars, isShuttingDown, stage, open, modelVars>>

\* One awaited step of shutdown(): what it closes, and what it waits for next.
\* A step that rejects ends the shutdown there.
Step(from, closed, to) ==
  /\ stage = from
  /\ stage' = to
  /\ open' = open \ closed
  /\ UNCHANGED <<vars, shellVars, isShuttingDown, connections>>

\* await retireAuthority, then cronManager.dispose.
AuthorityRetired ==
  /\ \/ retirement = "resolved" /\ Step("owner", {"cron"}, "wire")
     \/ retirement = "rejected" /\ Step("owner", {}, "failed")
  /\ UNCHANGED modelVars

\* disposeWire and disposeAllForShutdown reject when one of their closings does;
\* shutdownExecutionRuntime waits for its processes and does not.
ServicesDisposed ==
  /\ \/ \E to \in {"terminals", "failed"} : Step("wire", {"wire"}, to)
     \/ \E to \in {"execution", "failed"} : Step("terminals", {"terminals"}, to)
     \/ Step("execution", {"execution"}, "server")
  /\ UNCHANGED modelVars

\* serverClosed: the last connection has ended.
ServerClosed ==
  /\ connections = {}
  /\ Step("server", {"server"}, "embedding")
  /\ UNCHANGED modelVars

\* closeModelTreeLease
LeaseClosed ==
  /\ load' = [l \in Loads |-> IF l = modelTreeLease THEN "closed" ELSE load[l]]
  /\ modelTreeLease' = None

\* closeEmbedding: a load that is running goes on.
EmbeddingClosed ==
  /\ Step("embedding", {"embedding"}, "database")
  /\ pipeline' = None /\ modelLoading' = None
  /\ LeaseClosed
  /\ UNCHANGED <<embeddingAvailable, caller>>

\* closeDb closes the database and its lease before it reports that the path
\* has changed.
DatabaseClosed ==
  /\ \E to \in {"store", "failed"} : Step("database", {"database"}, to)
  /\ UNCHANGED modelVars

\* Fault: leases on runtime files are not counted.
StoreClosedBlindly ==
  /\ Step("store", {"store"}, "done")
  /\ UNCHANGED modelVars

\* BootstrapPathStore.close.  The authorities it awaits have long been created.
StoreClosed ==
  /\ IF \E l \in Loads : Held(l)
     THEN Step("store", {}, "failed")
     ELSE Step("store", {"store"}, "done")
  /\ UNCHANGED modelVars

-----------------------------------------------------------------------------
(* The embedding model. *)

\* embed and getModel, up to their first await: the migration goes on as long
\* as it can store vectors, a tool calls while its run streams.
Embed(c) ==
  /\ packaged /\ embeddingAvailable /\ caller[c].at = "idle"
  /\ IF c = "migration" THEN "database" \in open ELSE "chat" \in connections
  /\ \/ /\ pipeline # None
        /\ caller' = [caller EXCEPT ![c] = [at |-> "using", of |-> pipeline]]
        /\ UNCHANGED <<load, modelLoading>>
     \/ /\ pipeline = None /\ modelLoading # None
        /\ caller' = [caller EXCEPT ![c] = [at |-> "waiting", of |-> modelLoading]]
        /\ UNCHANGED <<load, modelLoading>>
     \/ /\ pipeline = None /\ modelLoading = None
        /\ \E l \in Loads :
             /\ load[l] = "none"
             /\ load' = [load EXCEPT ![l] = "scanning"]
             /\ modelLoading' = l
             /\ caller' = [caller EXCEPT ![c] = [at |-> "waiting", of |-> l]]
  /\ UNCHANGED <<vars, shellVars, serverVars, pipeline, modelTreeLease, embeddingAvailable>>

\* openModelsTreeLease has read the tree and counts its lease.
TreeScanned(l) ==
  /\ load[l] = "scanning" /\ "store" \in open
  /\ load' = [load EXCEPT ![l] = "creating"]
  /\ UNCHANGED <<vars, shellVars, serverVars, modelLoading, pipeline, modelTreeLease,
                 embeddingAvailable, caller>>

\* The pipeline is created and the tree has not changed; both need the store.
ModelLoaded(l) ==
  /\ load[l] = "creating" /\ "store" \in open
  /\ load' = [load EXCEPT ![l] = "ready"]
  /\ modelTreeLease' = l /\ pipeline' = l
  /\ UNCHANGED <<vars, shellVars, serverVars, modelLoading, embeddingAvailable, caller>>

LoadFails(l) ==
  /\ load[l] \in {"scanning", "creating"}
  /\ load' = [load EXCEPT ![l] = "failed"]
  /\ UNCHANGED <<vars, shellVars, serverVars, modelLoading, pipeline, modelTreeLease,
                 embeddingAvailable, caller>>

\* getModel's promise and the pipeline's call have no result for c: embed gives
\* up embeddings for good.
EmbedFails(c) ==
  /\ caller[c].at # "idle"
  /\ caller[c].at = "waiting" => load[caller[c].of] = "failed"
  /\ caller' = [caller EXCEPT ![c] = [at |-> "idle", of |-> None]]
  /\ embeddingAvailable' = FALSE
  /\ LeaseClosed
  /\ UNCHANGED <<vars, shellVars, serverVars, modelLoading, pipeline>>

ModelAnswers(c) ==
  /\ caller[c].at = "waiting" /\ load[caller[c].of] \in {"ready", "closed"}
  /\ caller' = [caller EXCEPT ![c].at = "using"]
  /\ UNCHANGED <<vars, shellVars, serverVars, load, modelLoading, pipeline, modelTreeLease,
                 embeddingAvailable>>

\* The pipeline's call, between two checks of the lease.
PipelineAnswers(c) ==
  /\ caller[c].at = "using" /\ load[caller[c].of] = "ready"
  /\ caller[c].of = modelTreeLease
  /\ caller' = [caller EXCEPT ![c] = [at |-> "idle", of |-> None]]
  /\ UNCHANGED <<vars, shellVars, serverVars, load, modelLoading, pipeline, modelTreeLease,
                 embeddingAvailable>>

-----------------------------------------------------------------------------
\* The steps of the runtime's owner other than its retirement.
OwnerStep ==
  /\ packaged
  /\ DrainSettles \/ Deadline \/ \E r \in Resources : Register(r) \/ Withdraw(r) \/ CloserSettles(r)
  /\ UNCHANGED quitVars

ShutdownStep ==
  AuthorityRetired \/ ServicesDisposed \/ ServerClosed \/ EmbeddingClosed \/ DatabaseClosed \/ StoreClosed

QuitNext ==
  \/ QuitPackaged \/ QuitDevelopment \/ TaskkillEnds \/ ChildExits \/ QuitRefused \/ QuitFinally
  \/ \E c \in {"chat", "events"} : Connect(c) \/ Disconnect(c)
  \/ ShutdownStep
  \/ \E l \in Loads : TreeScanned(l) \/ ModelLoaded(l) \/ LoadFails(l)
  \/ \E c \in Callers : Embed(c) \/ EmbedFails(c) \/ ModelAnswers(c) \/ PipelineAnswers(c)
  \/ OwnerStep

allVars == <<vars, quitVars>>

\* The deadline's timer fires, a run's stream ends with its run, taskkill and
\* the processes the execution runtime waits for end, and promises settle once
\* what they wait for has.  Nothing makes a closer, a load or the page's event
\* stream end, and nothing makes the user quit.
QuitFairness ==
  /\ WF_allVars(Deadline /\ UNCHANGED quitVars)
  /\ WF_allVars(ShutdownStep)
  /\ WF_allVars(Disconnect("chat"))
  /\ WF_allVars(TaskkillEnds)
  /\ WF_allVars(QuitRefused \/ QuitFinally)

QuitSpec == QuitInit /\ [][QuitNext]_allVars /\ QuitFairness

-----------------------------------------------------------------------------
\* A quit that no earlier quit had been refused before leaves nothing behind:
\* the child process is gone, or everything the server shares is closed, every
\* resource of its last runtime is, and no lease on the model's files is held
\* but by a load that will find the store closed (before-quit and shutdown()).
\* A quit after a refused one does not run the shutdown again.
QuitOnlyWhenClosed ==
  quit = "final" /\ ~refused =>
    /\ open = {}
    /\ connections = {}
    /\ \A l \in Loads : load[l] # "ready"
    /\ packaged => \A r \in Resources : resource[r] \in {"none", "withdrawn", "closed"}

\* A quit gets an answer, whatever closers and model loads do: the application
\* ends, or the user is told and may quit again; unless a client that listens to
\* the scheduler's events stays (nothing ends GET /api/cron/events).
QuitAnswered ==
  quit = "cleanup" ~> quit \in {"none", "final"} \/ "events" \in connections
=============================================================================
