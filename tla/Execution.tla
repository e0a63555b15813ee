------------------------------ MODULE Execution ------------------------------
(***************************************************************************)
(* Sandboxed processes and the terminals made of them.  A launch waits for *)
(* the one execution service (executionService, src/execution-runtime.ts), *)
(* consumes its grant, asks the native bridge for a process and registers  *)
(* its closer with the resource owner (src/execution-isolation.ts,         *)
(* src/execution-native.ts); a persistent one becomes a terminal           *)
(* (src/terminal.ts).  Owners are retired, terminals killed and closed, the*)
(* server shut down while any of that is awaited.                          *)
(*                                                                         *)
(* Abstracted: grants are consumed by the call that issued them, so that   *)
(* their bindings always agree; output is left out but for the limit that  *)
(* terminates a process; a process is alive, told to end (its host was     *)
(* asked to end it, by whatever reason) or dead, and may end by itself at  *)
(* any time, its limits being the host's.                                  *)
(***************************************************************************)
EXTENDS Naturals, FiniteSets

CONSTANTS
  Launches,      \* launches, one process each
  Persistent,    \* those of them that are terminals
  Owners,        \* resource owners
  MaxTerminals   \* MAX_TERMINALS

ASSUME LaunchAssumption == Persistent \subseteq Launches /\ MaxTerminals \in Nat \ {0}

VARIABLES
  service,    \* executionService
  resources,  \* per owner: active, retiring, retired
  launch,     \* per launch: its owner and how far it is
  process,    \* per launch: the native process
  terminal,   \* per terminal: its status, whether it is listed
  asked,      \* persistent records whose "closed" is set
  awaiting    \* operations on a terminal that wait for its process to end

execVars == <<service, resources, launch, process, terminal, asked, awaiting>>

LaunchStates ==
  {"none", "loading", "launching", "running", "terminating", "failing", "closed", "failed"}

Statuses == {"none", "starting", "running", "killed", "exited", "error"}

Operations == {"kill", "close", "retire"}

ExecTypeOK ==
  /\ service \in {"none", "loading", "ready", "failed", "shutdown"}
  /\ resources \in [Owners -> {"active", "retiring", "retired"}]
  /\ launch \in [Launches -> [owner : Owners, state : LaunchStates]]
  /\ process \in [Launches -> {"none", "alive", "told", "dead"}]
  /\ terminal \in [Persistent -> [status : Statuses, listed : BOOLEAN]]
  /\ asked \in SUBSET Persistent
  /\ awaiting \in SUBSET (Persistent \X Operations)

ExecInit ==
  /\ service = "none"
  /\ resources = [o \in Owners |-> "active"]
  /\ launch \in [Launches -> [owner : Owners, state : {"none"}]]
  /\ process = [s \in Launches |-> "none"]
  /\ terminal = [s \in Persistent |-> [status |-> "none", listed |-> FALSE]]
  /\ asked = {}
  /\ awaiting = {}

OwnerActive(s) == resources[launch[s].owner] = "active"

State(s) == launch[s].state

\* The native processes of S are told to end.
Told(S) == [s \in Launches |-> IF s \in S /\ process[s] = "alive" THEN "told" ELSE process[s]]

\* #terminateSession: only a running session is told, and stays until it closes.
Terminating(S) ==
  [s \in Launches |-> IF s \in S /\ State(s) = "running"
                        THEN [launch[s] EXCEPT !.state = "terminating"] ELSE launch[s]]

\* Terminal statuses from which nothing runs any more.
Stopped == {"killed", "exited", "error"}

-----------------------------------------------------------------------------
(* A launch.                                                               *)

ActiveTerminals == {s \in Persistent : terminal[s].listed /\ terminal[s].status = "running"}

\* launch, startPersistent: up to the wait for the service, which is loaded once;
\* a terminal is not listed before its process has started.
StartLaunch(s) ==
  /\ State(s) = "none" /\ OwnerActive(s)
  /\ s \in Persistent => Cardinality(ActiveTerminals) < MaxTerminals
  /\ launch' = [launch EXCEPT ![s].state = "loading"]
  /\ service' = IF service = "none" THEN "loading" ELSE service
  /\ terminal' = IF s \in Persistent THEN [terminal EXCEPT ![s].status = "starting"] ELSE terminal
  /\ UNCHANGED <<resources, process, asked, awaiting>>

\* A service that could not be loaded is not loaded again.
ServiceLoads ==
  /\ service = "loading"
  /\ service' \in {"ready", "failed"}
  /\ UNCHANGED <<resources, launch, process, terminal, asked, awaiting>>

\* The launch goes on with the grant, which may have expired while the service was
\* loaded, or fails.
ConsumeGrant(s) ==
  /\ State(s) = "loading" /\ service # "loading"
  /\ \/ /\ service = "ready" /\ OwnerActive(s)
        /\ launch' = [launch EXCEPT ![s].state = "launching"]
     \/ launch' = [launch EXCEPT ![s].state = "failed"]
  /\ UNCHANGED <<service, resources, process, terminal, asked, awaiting>>

\* launchHost starts the process before the bridge answers.
HostStarts(s) ==
  /\ State(s) = "launching" /\ process[s] = "none"
  /\ process' = [process EXCEPT ![s] = "alive"]
  /\ UNCHANGED <<service, resources, launch, terminal, asked, awaiting>>

\* There is no process, or one that is terminated for a malformed or excessive
\* answer and whose handle is dropped.
LaunchFails(s) ==
  /\ State(s) = "launching"
  /\ launch' = [launch EXCEPT ![s].state = "failed"]
  /\ process' = Told({s})
  /\ UNCHANGED <<service, resources, terminal, asked, awaiting>>

\* Fault: that the owner was retired during the launch is taken for success.
RegisteredUnseen(s) ==
  /\ launch' = [launch EXCEPT ![s].state = "running"]
  /\ UNCHANGED process

\* registerOwnedResource succeeds or throws; then the process is terminated.
Registered(s) ==
  IF OwnerActive(s)
    THEN /\ launch' = [launch EXCEPT ![s].state = "running"]
         /\ process' \in {process, Told({s})}
    ELSE /\ launch' = [launch EXCEPT ![s].state = "failing"]
         /\ process' = Told({s})

\* The bridge answers; too much output terminates the process already.
LaunchReturns(s) ==
  /\ State(s) = "launching" /\ process[s] # "none"
  /\ Registered(s)
  /\ UNCHANGED <<service, resources, terminal, asked, awaiting>>

\* The process has ended: its session is closed, what waited for it goes on.
SessionCloses(s) ==
  /\ process[s] = "dead"
  /\ \/ /\ State(s) \in {"running", "terminating"}
        /\ launch' = [launch EXCEPT ![s].state = "closed"]
     \/ /\ State(s) = "failing"
        /\ launch' = [launch EXCEPT ![s].state = "failed"]
  /\ UNCHANGED <<service, resources, process, terminal, asked, awaiting>>

ProcessEnds(s) ==
  /\ process[s] \in {"alive", "told"}
  /\ process' = [process EXCEPT ![s] = "dead"]
  /\ UNCHANGED <<service, resources, launch, terminal, asked, awaiting>>

\* More output than the limit.
OutputLimit(s) ==
  /\ State(s) = "running" /\ process[s] = "alive"
  /\ process' = Told({s})
  /\ UNCHANGED <<service, resources, launch, terminal, asked, awaiting>>

\* Input that the host does not take ends the session.
InputFails(s) ==
  /\ s \in Persistent /\ OwnerActive(s) /\ State(s) = "running" /\ service = "ready"
  /\ terminal[s].status = "running" /\ s \notin asked
  /\ launch' = Terminating({s})
  /\ process' = Told({s})
  /\ UNCHANGED <<service, resources, terminal, asked, awaiting>>

-----------------------------------------------------------------------------
(* Terminals.                                                              *)

\* start goes on: the terminal is listed and registered, or its owner was retired
\* between two promises and has told the process already.
TerminalStarts(s) ==
  /\ s \in Persistent /\ terminal[s].status = "starting"
  /\ \/ /\ State(s) \in {"running", "terminating", "closed"}
        /\ terminal' = [terminal EXCEPT ![s] =
             IF OwnerActive(s)
               THEN [status |-> IF State(s) = "running" THEN "running" ELSE "exited",
                     listed |-> TRUE]
               ELSE [status |-> "error", listed |-> FALSE]]
     \/ /\ State(s) = "failed"
        /\ terminal' = [terminal EXCEPT ![s].status = "error"]
  /\ UNCHANGED <<service, resources, launch, process, asked, awaiting>>

\* #refresh by the poller or a request.
Refresh(s) ==
  /\ terminal[s].listed /\ terminal[s].status = "running"
  /\ \/ /\ ~OwnerActive(s)
        /\ terminal' = [terminal EXCEPT ![s].status = "error"]
     \/ /\ OwnerActive(s) /\ State(s) # "running"
        /\ terminal' = [terminal EXCEPT ![s].status = "exited"]
  /\ UNCHANGED <<service, resources, launch, process, asked, awaiting>>

\* The status of a terminal whose termination does not have to be awaited: the
\* first caller terminates the session, all others return at once.
KilledAtOnce(s) == s \in asked \/ State(s) = "closed"

AfterOperation(s, operation) ==
  [terminal EXCEPT ![s] =
     [status |-> IF @.status = "running" THEN "killed" ELSE @.status,
      listed |-> operation = "kill"]]

\* Fault: a terminal is closed without its process.
CloseOnly(s, operation) ==
  /\ terminal' = AfterOperation(s, operation)
  /\ UNCHANGED <<launch, process, asked, awaiting>>

\* kill and close of a running terminal.
Terminate(s, operation) ==
  /\ asked' = asked \cup {s}
  /\ IF KilledAtOnce(s)
       THEN /\ terminal' = AfterOperation(s, operation)
            /\ UNCHANGED <<launch, process, awaiting>>
       ELSE /\ launch' = Terminating({s})
            /\ process' = Told({s})
            /\ awaiting' = awaiting \cup {<<s, operation>>}
            /\ UNCHANGED terminal

Kill(s) ==
  /\ terminal[s].listed /\ OwnerActive(s) /\ terminal[s].status = "running"
  /\ Terminate(s, "kill")
  /\ UNCHANGED <<service, resources>>

Close(s) ==
  /\ terminal[s].listed /\ OwnerActive(s)
  /\ \/ terminal[s].status = "running" /\ Terminate(s, "close")
     \/ /\ terminal[s].status \in Stopped
        /\ terminal' = [terminal EXCEPT ![s].listed = FALSE]
        /\ UNCHANGED <<launch, process, asked, awaiting>>
  /\ UNCHANGED <<service, resources>>

\* The session has closed; an operation that fails changes nothing.
OperationReturns(s, operation) ==
  /\ <<s, operation>> \in awaiting /\ State(s) = "closed"
  /\ awaiting' = awaiting \ {<<s, operation>>}
  /\ \/ terminal' = AfterOperation(s, operation)
     \/ UNCHANGED terminal
  /\ UNCHANGED <<service, resources, launch, process, asked>>

-----------------------------------------------------------------------------
(* Owners and the end of the server.                                       *)

\* retireResourceOwner calls every closer: of the processes, which are told, and
\* of the terminals that still run, which wait for them.
RetireOwner(o) ==
  LET mine   == {s \in Launches : launch[s].owner = o /\ State(s) \in {"running", "terminating"}}
      listed == {s \in Persistent : launch[s].owner = o /\ terminal[s].listed}
      first  == {s \in listed : terminal[s].status = "running" /\ ~KilledAtOnce(s)}
  IN  /\ resources[o] = "active"
      /\ resources' = [resources EXCEPT ![o] = "retiring"]
      /\ launch' = Terminating(mine)
      /\ process' = Told(mine)
      /\ asked' = asked \cup {s \in listed : terminal[s].status = "running"}
      /\ awaiting' = awaiting \cup {<<s, "retire">> : s \in first}
      /\ terminal' = [s \in Persistent |->
           IF s \in listed \ first THEN AfterOperation(s, "retire")[s] ELSE terminal[s]]
      /\ UNCHANGED service

OwnerDrained(o) ==
  /\ resources[o] = "retiring"
  /\ \A s \in Launches : launch[s].owner = o => State(s) # "terminating"
  /\ \A s \in Persistent : launch[s].owner = o => <<s, "retire">> \notin awaiting
  /\ resources' = [resources EXCEPT ![o] = "retired"]
  /\ UNCHANGED <<service, launch, process, terminal, asked, awaiting>>

\* shutdownExecutionRuntime, after the authority and with it its owners are retired:
\* a launch that is under way is in neither of its snapshots.
ShutdownService ==
  /\ service = "ready" /\ \A o \in Owners : resources[o] = "retired"
  /\ service' = "shutdown"
  /\ launch' = Terminating(Persistent)
  /\ process' = Told({s \in Launches : State(s) \in {"running", "terminating", "failing"}})
  /\ UNCHANGED <<resources, terminal, asked, awaiting>>

ExecNext ==
  \/ \E s \in Launches :
       \/ StartLaunch(s)
       \/ ConsumeGrant(s)
       \/ HostStarts(s)
       \/ LaunchFails(s)
       \/ LaunchReturns(s)
       \/ SessionCloses(s)
       \/ ProcessEnds(s)
       \/ OutputLimit(s)
       \/ InputFails(s)
  \/ \E s \in Persistent :
       \/ TerminalStarts(s)
       \/ Refresh(s)
       \/ Kill(s)
       \/ Close(s)
       \/ \E operation \in Operations : OperationReturns(s, operation)
  \/ \E o \in Owners : RetireOwner(o) \/ OwnerDrained(o)
  \/ ServiceLoads
  \/ ShutdownService

ExecSpec == ExecInit /\ [][ExecNext]_execVars

-----------------------------------------------------------------------------

\* The process of an owner that is not active has been told to end, unless its
\* launch has not answered yet, and a terminal that is shown as stopped, or not
\* shown any more, has no process that nobody told to end: through launches that
\* outlast their owner, double kills and closes, exits and shutdown
\* (execution-isolation.ts:401-450, 780-809, terminal.ts:237-278).
NoProcessUnattended ==
  \A s \in Launches : process[s] = "alive" =>
    /\ OwnerActive(s) \/ State(s) = "launching"
    /\ s \in Persistent => terminal[s].status \notin Stopped
=============================================================================
