---------------------------- MODULE HostProtocol ----------------------------
(***************************************************************************)
(* One sandboxed execution: the bridge and launcher in the app             *)
(* (src/execution-native.ts, native/sandbox-host/sandbox-launcher.cpp),    *)
(* the host process with its main loop, its control thread and its output  *)
(* thread (native/sandbox-host/sandbox-host.cpp), and the processes in the *)
(* host's job object.  Two pipes join app and host; both may die at any    *)
(* point, and the processes end when they like.                            *)
(*                                                                         *)
(* Abstracted: output but for passing its limit; frames are well formed,   *)
(* their secret is the launcher's own; what is done to the roots is        *)
(* AclJournal's.  The job object kills all its processes at once, also     *)
(* when its only handle, the host's, is closed, and posts what it did.     *)
(***************************************************************************)
EXTENDS Naturals, Sequences

CONSTANTS
  Terminations,  \* reasons the app gives for a termination
  Limits,        \* limits that end the job, but for that of its output
  MaxFrames      \* frames that the control pipe holds

\* Exit code of the host for what stopped the job.
ExitCode ==
  [completed |-> 0, protocol |-> 71, cleanup |-> 75, wall |-> 80, idle |-> 81,
   output |-> 82, cancelled |-> 83, cpu |-> 84, processes |-> 85, memory |-> 86,
   jobMemory |-> 87, owner |-> 88, session |-> 89, service |-> 90]

\* A termination has a reason of its own, whatever the app says (ControlMain).
ASSUME HostAssumption ==
  MaxFrames \in Nat \ {0} /\ Terminations \cup Limits \subseteq DOMAIN ExitCode \ {"completed"}

VARIABLES
  app,      \* whether the app lives, its bridge, its launch, terminate_sent
  pipe,     \* frames in the control pipe
  main,     \* the host's main thread and what its threads share
  thread,   \* the host's control thread and output thread
  tree,     \* the processes, and whether the root is in the job
  report    \* what the launcher's reader has: the proof, the exit code

hostVars == <<app, pipe, main, thread, tree, report>>

\* Codes of a launch that is refused, and of a host that is killed.
Refusals == {71, 72, 73, 74, 76}

Crashed == 1

NoCode == 999

Frames == {"launch", "input"} \cup Terminations

HostTypeOK ==
  /\ app \in [up : BOOLEAN, stopped : BOOLEAN, told : BOOLEAN,
              launch : {"none", "loading", "leased", "created", "sent", "handed", "returned",
                        "failed"}]
  /\ pipe \in Seq(Frames) /\ Len(pipe) <= MaxFrames
  /\ main \in [at : {"none", "reading", "preparing", "suspended", "assigned", "resumed",
                     "watching", "leaving", "joining", "draining", "cleaning", "proving",
                     "exiting", "gone"},
               accepting : BOOLEAN, reason : DOMAIN ExitCode, rootSeen : BOOLEAN,
               clean : BOOLEAN, code : Nat]
  /\ thread \in [control : {"none", "top", "entering", "reading", "writing", "cancelled",
                            "failing", "ended"},
                 why : DOMAIN ExitCode, output : {"none", "reading", "ended"}]
  /\ tree \in [root : {"none", "suspended", "running", "exited", "killed"},
               child : {"none", "running", "exited", "killed"}, inJob : BOOLEAN]
  /\ report \in [reader : {"none", "reading", "done"}, proof : DOMAIN ExitCode \cup {"none"},
                 code : Nat]

HostInit ==
  /\ app = [up |-> TRUE, stopped |-> FALSE, told |-> FALSE, launch |-> "none"]
  /\ pipe = <<>>
  /\ main = [at |-> "none", accepting |-> TRUE, reason |-> "completed", rootSeen |-> FALSE,
             clean |-> TRUE, code |-> NoCode]
  /\ thread = [control |-> "none", why |-> "completed", output |-> "none"]
  /\ tree = [root |-> "none", child |-> "none", inJob |-> FALSE]
  /\ report = [reader |-> "none", proof |-> "none", code |-> NoCode]

MainAt(step) == main.at = step

HostLives == main.at \notin {"none", "gone"}

Running == {p \in {"root", "child"} : tree[p] = "running"}

Living == {"suspended", "running"}

\* TerminateJobObject, or the end of the job's handle.
Killed ==
  [tree EXCEPT
     !.root = IF tree.inJob /\ @ \in Living THEN "killed" ELSE @,
     !.child = IF @ \in Living THEN "killed" ELSE @]

\* The host process ends: its threads with it, its end of the pipes, its job.
HostEnds(code) ==
  /\ main' = [main EXCEPT !.at = "gone", !.code = code]
  /\ thread' = [thread EXCEPT !.control = "ended", !.output = "ended"]
  /\ pipe' = <<>>

-----------------------------------------------------------------------------
(* The app: launch, write, terminate, shutdown.                            *)

Sends(frame) == pipe' = IF HostLives THEN Append(pipe, frame) ELSE pipe

\* launch looks whether the bridge was stopped, then loads the addon.
BeginLaunch ==
  /\ app.up /\ app.launch = "none" /\ ~app.stopped
  /\ app' = [app EXCEPT !.launch = "loading"]
  /\ UNCHANGED <<pipe, main, thread, tree, report>>

\* openExclusiveHostLease; journals that cannot be recovered refuse it.
OpenLease ==
  /\ app.up /\ app.launch = "loading"
  /\ app' \in {[app EXCEPT !.launch = to] : to \in {"leased", "failed"}}
  /\ UNCHANGED <<pipe, main, thread, tree, report>>

\* launchHost consumes the lease's attempt, opens the roots, starts the host.
CreateHost ==
  /\ app.up /\ app.launch = "leased"
  /\ \/ /\ app' = [app EXCEPT !.launch = "created"]
        /\ main' = [main EXCEPT !.at = "reading"]
     \/ /\ app' = [app EXCEPT !.launch = "failed"]
        /\ UNCHANGED main
  /\ UNCHANGED <<pipe, thread, tree, report>>

\* A failure of launchHost once the host runs: the host is killed.
LaunchHostFails ==
  /\ app.up /\ app.launch \in {"created", "sent"}
  /\ app' = [app EXCEPT !.launch = "failed"]
  /\ tree' = Killed
  /\ IF HostLives THEN HostEnds(Crashed) ELSE UNCHANGED <<main, thread, pipe>>
  /\ UNCHANGED report

SendLaunch ==
  /\ app.up /\ app.launch = "created" /\ HostLives
  /\ app' = [app EXCEPT !.launch = "sent"]
  /\ Sends("launch")
  /\ UNCHANGED <<main, thread, tree, report>>

\* The reader thread is started and the handle made.
HandOver ==
  /\ app.up /\ app.launch = "sent"
  /\ app' = [app EXCEPT !.launch = "handed"]
  /\ report' = [report EXCEPT !.reader = "reading"]
  /\ UNCHANGED <<pipe, main, thread, tree>>

\* The lease is closed; only now shutdown knows the handle.
LaunchHandled ==
  /\ app.up /\ app.launch = "handed"
  /\ app' = [app EXCEPT !.launch = "returned"]
  /\ UNCHANGED <<pipe, main, thread, tree, report>>

\* Input after terminate is dropped; a write waits for room in the pipe.
WriteFrame ==
  /\ app.up /\ app.launch = "returned" /\ ~app.told /\ Len(pipe) < MaxFrames
  /\ Sends("input")
  /\ UNCHANGED <<app, main, thread, tree, report>>

\* terminate_sent is set before the write, whether or not that succeeds.
TerminateHost(reason) ==
  /\ app.up /\ app.launch = "returned" /\ ~app.told /\ Len(pipe) < MaxFrames
  /\ app' = [app EXCEPT !.told = TRUE]
  /\ Sends(reason)
  /\ UNCHANGED <<main, thread, tree, report>>

\* The bridge stops and terminates the handles it knows and that have not completed.
ShutdownBridge(reason) ==
  LET tells == app.launch = "returned" /\ report.reader # "done" /\ ~app.told
  IN  /\ app.up /\ ~app.stopped /\ (tells => Len(pipe) < MaxFrames)
      /\ app' = [app EXCEPT !.stopped = TRUE, !.told = @ \/ tells]
      /\ IF tells THEN Sends(reason) ELSE UNCHANGED pipe
      /\ UNCHANGED <<main, thread, tree, report>>

\* The app dies; what it wrote stays in the pipe.
AppDies ==
  /\ app.up
  /\ app' = [app EXCEPT !.up = FALSE]
  /\ report' = [report EXCEPT !.reader = "none"]
  /\ UNCHANGED <<pipe, main, thread, tree>>

\* ReaderMain: the end of the events, then the host's exit.
ReaderEnds ==
  /\ app.up /\ report.reader = "reading" /\ MainAt("gone")
  /\ report' = [report EXCEPT !.reader = "done", !.code = main.code]
  /\ UNCHANGED <<app, pipe, main, thread, tree>>

-----------------------------------------------------------------------------
(* The host up to the start of its threads.                                *)

\* The first frame, or the end of a pipe that never held one.
ReadLaunch ==
  /\ MainAt("reading")
  /\ \/ /\ pipe # <<>>
        /\ main' = [main EXCEPT !.at = "preparing"]
        /\ pipe' = Tail(pipe)
        /\ UNCHANGED thread
     \/ pipe = <<>> /\ ~app.up /\ HostEnds(71)
  /\ UNCHANGED <<app, tree, report>>

\* The roots, the job, the pipes and the suspended process.
CreateSuspended ==
  /\ MainAt("preparing")
  /\ main' = [main EXCEPT !.at = "suspended"]
  /\ tree' = [tree EXCEPT !.root = "suspended"]
  /\ UNCHANGED <<app, pipe, thread, report>>

AssignToJob ==
  /\ MainAt("suspended")
  /\ main' = [main EXCEPT !.at = "assigned"]
  /\ tree' = [tree EXCEPT !.inJob = TRUE]
  /\ UNCHANGED <<app, pipe, thread, report>>

\* Fault: the process runs before it is known to be in the job.
ResumeUnassigned ==
  /\ MainAt("suspended")
  /\ main' = [main EXCEPT !.at = "resumed"]
  /\ tree' = [tree EXCEPT !.root = "running"]
  /\ UNCHANGED <<app, pipe, thread, report>>

\* Token, job, handles, roots and executable are as they should be.
ResumeRoot ==
  /\ MainAt("assigned")
  /\ main' = [main EXCEPT !.at = "resumed"]
  /\ tree' = [tree EXCEPT !.root = "running"]
  /\ UNCHANGED <<app, pipe, thread, report>>

\* What was created is terminated, the roots are cleaned.
RefuseLaunch ==
  /\ main.at \in {"preparing", "suspended", "assigned"}
  /\ tree' = [tree EXCEPT !.root = IF @ \in Living THEN "killed" ELSE @]
  /\ \E code \in Refusals : HostEnds(code)
  /\ UNCHANGED <<app, report>>

\* A script is written to the process first; when it does not take it, it is killed.
StartThreads ==
  /\ MainAt("resumed")
  /\ \E taken \in BOOLEAN :
       /\ main' = [main EXCEPT !.at = "watching", !.clean = taken]
       /\ tree' = IF taken THEN tree ELSE Killed
  /\ thread' = [thread EXCEPT !.control = "top", !.output = "reading"]
  /\ UNCHANGED <<app, pipe, report>>

-----------------------------------------------------------------------------
(* The threads.                                                            *)

\* FailJob: the first reason stays.
FailJob(reason, step) ==
  /\ main' = [main EXCEPT !.at = step, !.accepting = FALSE,
                          !.reason = IF @ = "completed" THEN reason ELSE @]
  /\ tree' = Killed

\* The loop's condition; what follows is a read that a cancel may precede.
ControlTop ==
  /\ thread.control = "top"
  /\ thread' = [thread EXCEPT !.control = IF main.accepting THEN "entering" ELSE "ended"]
  /\ UNCHANGED <<app, pipe, main, tree, report>>

ControlEnters ==
  /\ thread.control = "entering"
  /\ thread' = [thread EXCEPT !.control = "reading"]
  /\ UNCHANGED <<app, pipe, main, tree, report>>

\* A frame is obeyed although accepting may be unset by now.
ControlReads ==
  /\ thread.control = "reading" /\ pipe # <<>>
  /\ pipe' = Tail(pipe)
  /\ thread' = IF Head(pipe) = "input"
                 THEN [thread EXCEPT !.control = "writing"]
                 ELSE [thread EXCEPT !.control = "failing", !.why = Head(pipe)]
  /\ UNCHANGED <<app, main, tree, report>>

\* The read fails: cancelled, or the app is gone.
ControlReadFails ==
  /\ \/ thread.control = "cancelled"
     \/ thread.control = "reading" /\ pipe = <<>> /\ ~app.up
  /\ thread' = IF main.accepting
                 THEN [thread EXCEPT !.control = "failing", !.why = "protocol"]
                 ELSE [thread EXCEPT !.control = "ended"]
  /\ UNCHANGED <<app, pipe, main, tree, report>>

\* Input is delivered, or the process does not take it.
ControlWrites ==
  /\ thread.control = "writing"
  /\ \/ thread' = [thread EXCEPT !.control = "top"]
     \/ thread' = [thread EXCEPT !.control = "failing", !.why = "protocol"]
  /\ UNCHANGED <<app, pipe, main, tree, report>>

ControlFails ==
  /\ thread.control = "failing"
  /\ FailJob(thread.why, main.at)
  /\ thread' = [thread EXCEPT !.control = "ended"]
  /\ UNCHANGED <<app, pipe, report>>

\* Drain: too much output, or the end of all writers.
OutputExceeds ==
  /\ thread.output = "reading"
  /\ FailJob("output", main.at)
  /\ thread' = [thread EXCEPT !.output = "ended"]
  /\ UNCHANGED <<app, pipe, report>>

OutputEnds ==
  /\ thread.output = "reading" /\ Running = {}
  /\ thread' = [thread EXCEPT !.output = "ended"]
  /\ UNCHANGED <<app, pipe, main, tree, report>>

-----------------------------------------------------------------------------
(* The main loop of the host and its end.                                  *)

\* Messages of the job and the clock; the clock counts while the root lives and
\* nothing has failed.
LimitPassed(limit) ==
  /\ MainAt("watching")
  /\ limit \in {"wall", "idle"} => ~main.rootSeen /\ main.reason = "completed"
  /\ FailJob(limit, "watching")
  /\ UNCHANGED <<app, pipe, thread, report>>

\* Whatever the root leaves behind is killed.
RootExitSeen ==
  /\ MainAt("watching") /\ ~main.rootSeen /\ tree.root \notin Living
  /\ main' = [main EXCEPT !.rootSeen = TRUE]
  /\ tree' = Killed
  /\ UNCHANGED <<app, pipe, thread, report>>

\* The job is empty.
ActiveProcessZero ==
  /\ MainAt("watching") /\ Running = {}
  /\ main' = [main EXCEPT !.at = "leaving"]
  /\ UNCHANGED <<app, pipe, thread, tree, report>>

\* The control thread is told to end; CancelSynchronousIo finds it in a read or a
\* write, or does nothing.
StopControl ==
  /\ MainAt("leaving")
  /\ main' = [main EXCEPT !.at = "joining", !.accepting = FALSE]
  /\ thread' = CASE thread.control = "reading" -> [thread EXCEPT !.control = "cancelled"]
                 [] thread.control = "writing" ->
                      [thread EXCEPT !.control = "failing", !.why = "protocol"]
                 [] OTHER -> thread
  /\ UNCHANGED <<app, pipe, tree, report>>

JoinControl ==
  /\ MainAt("joining") /\ thread.control = "ended"
  /\ main' = [main EXCEPT !.at = "draining"]
  /\ UNCHANGED <<app, pipe, thread, tree, report>>

JoinOutput ==
  /\ MainAt("draining") /\ thread.output = "ended"
  /\ main' = [main EXCEPT !.at = "cleaning"]
  /\ UNCHANGED <<app, pipe, thread, tree, report>>

\* Journals, roots and the container's profile.
Cleanup ==
  /\ MainAt("cleaning")
  /\ \E done \in BOOLEAN : main' = [main EXCEPT !.at = "proving", !.clean = @ /\ done]
  /\ UNCHANGED <<app, pipe, thread, tree, report>>

Outcome == IF main.clean THEN main.reason ELSE "cleanup"

\* The proof, when there is a key and somebody who reads.
EmitProof ==
  /\ MainAt("proving")
  /\ main' = [main EXCEPT !.at = "exiting"]
  /\ \/ report' = [report EXCEPT !.proof = IF report.reader = "reading" THEN Outcome ELSE @]
     \/ UNCHANGED report
  /\ UNCHANGED <<app, pipe, thread, tree>>

HostExits ==
  /\ MainAt("exiting")
  /\ HostEnds(ExitCode[Outcome])
  /\ tree' = Killed
  /\ UNCHANGED <<app, report>>

\* Fault: the job does not end with its handle.
HostIsKilledAlone ==
  /\ HostLives
  /\ HostEnds(Crashed)
  /\ UNCHANGED <<app, tree, report>>

\* The host is killed at any point of its life.
HostIsKilled ==
  /\ HostLives
  /\ HostEnds(Crashed)
  /\ tree' = Killed
  /\ UNCHANGED <<app, report>>

-----------------------------------------------------------------------------
(* The processes.                                                          *)

RootSpawns ==
  /\ tree.root = "running" /\ tree.child = "none"
  /\ tree' = [tree EXCEPT !.child = "running"]
  /\ UNCHANGED <<app, pipe, main, thread, report>>

ProcessExits(p) ==
  /\ p \in Running
  /\ tree' = [tree EXCEPT ![p] = "exited"]
  /\ UNCHANGED <<app, pipe, main, thread, report>>

HostNext ==
  \/ BeginLaunch \/ OpenLease \/ CreateHost \/ LaunchHostFails \/ SendLaunch \/ HandOver
  \/ LaunchHandled \/ WriteFrame \/ AppDies \/ ReaderEnds
  \/ \E reason \in Terminations : TerminateHost(reason) \/ ShutdownBridge(reason)
  \/ ReadLaunch \/ CreateSuspended \/ AssignToJob \/ ResumeRoot \/ RefuseLaunch \/ StartThreads
  \/ ControlTop \/ ControlEnters \/ ControlReads \/ ControlReadFails \/ ControlWrites
  \/ ControlFails \/ OutputExceeds \/ OutputEnds
  \/ \E limit \in Limits : LimitPassed(limit)
  \/ RootExitSeen \/ ActiveProcessZero \/ StopControl \/ JoinControl \/ JoinOutput
  \/ Cleanup \/ EmitProof \/ HostExits \/ HostIsKilled
  \/ RootSpawns \/ \E p \in {"root", "child"} : ProcessExits(p)

HostSpec == HostInit /\ [][HostNext]_hostVars

-----------------------------------------------------------------------------

\* A process runs only inside the job of a host that lives and watches it, and while
\* nothing has stopped the job its control thread has not ended: a dead app, a dead
\* host or a termination reach every process (sandbox-host.cpp:371-379, 395-420,
\* 543-593, sandbox-launcher.cpp:2340-2381).
SupervisedRun ==
  Running # {} =>
    /\ tree.inJob /\ main.at \in {"resumed", "watching"}
    /\ MainAt("watching") /\ main.reason = "completed" => thread.control # "ended"

\* What the app is told of an execution is true: no process is left, code 0 means that
\* the root ended and no limit, failure or obeyed termination did it, and a proof of a
\* host that was not killed gives the reason of the exit code, so that the verifier
\* accepts it (sandbox-host.cpp:428-432, 592-618, sandbox-launcher.cpp:393-396,
\* 449-465).
CompletionTruthful ==
  report.reader = "done" =>
    /\ Running = {}
    /\ report.code = 0 => tree.root = "exited" /\ main.reason = "completed" /\ main.clean
    /\ report.proof # "none" /\ report.code # Crashed => report.code = ExitCode[report.proof]
=============================================================================
