------------------------------ MODULE AgentRun ------------------------------
(***************************************************************************)
(* A conversation turn of the agent (src/agent.ts): ask the model, execute *)
(* the tool calls of its answer one after the other, store the results, ask*)
(* again, until the model answers in text.  Around it: the conversation    *)
(* memory and its compaction (src/memory.ts), the streamed requests and    *)
(* their retries (src/llm.ts), the approval of a call by the supervisor    *)
(* (src/supervisor.ts) and by the user, who is asked through the page      *)
(* (src/tools/ask-user-tool.ts) or by the dialog of NativeConsent, and the *)
(* time limit of a tool (src/tools/index.ts).                              *)
(*                                                                         *)
(* A step runs from one await to the next; the phases "iterating" and      *)
(* "calling" only join pieces of such a step, and nothing outside the run  *)
(* happens in them.  The consumer of the events (POST /api/chat) never     *)
(* abandons the run, and a new agent starts no run before this one has     *)
(* ended: RuntimeLifecycle shows what happens when it does.  Rows are not  *)
(* deleted (rollback, DELETE of a session).                                *)
(*                                                                         *)
(* Abstracted: a message is its role, its exchange (an answer with tool    *)
(* calls and their results) and its place in it; whether the messages are  *)
(* over the token budget, and how many a fallback must delete, are free    *)
(* choices; there are two sessions; the text that is streamed, and shown   *)
(* at once, is left out; the tasks are none, open or done, and are the same*)
(* in both sessions.                                                       *)
(***************************************************************************)
EXTENDS NativeConsent, FiniteSets, SequencesExt

CONSTANTS
  MaxCalls,        \* bound of the model: tool calls of one answer
  MaxExchanges,    \* bound of the model: answers with tool calls
  Scenes,          \* bound of the model: what one behaviour is about, see Scene
  MaxIterations,   \* MAX_ITERATIONS
  MaxRetries,      \* MAX_RETRIES
  MaxMessages,     \* ConversationMemory.maxMessages
  KeepRecent       \* KEEP_RECENT

ASSUME CallsAssumption == Calls = (1..MaxExchanges) \X (1..MaxCalls)
ASSUME BoundsAssumption ==
  /\ {MaxCalls, MaxIterations, KeepRecent} \subseteq Nat \ {0}
  /\ {MaxExchanges, MaxRetries} \subseteq Nat
\* The prompt, a summary and the guidance of every iteration leave room for an exchange.
ASSUME MessagesAssumption ==
  /\ MaxMessages \in Nat
  /\ MaxMessages >= MaxIterations + 2 + MaxCalls + 1

VARIABLES
  scene,       \* the scene of the behaviour; it does not change
  run,         \* the run and its local variables
  attempt,     \* chatStream: which attempt it is
  request,     \* the messages of the request in flight
  memory,      \* ConversationMemory.messages
  stored,      \* the rows of ConversationMemory.sessionId
  aside,       \* the rows of the other session
  bound,       \* the agent has a session
  replaced,    \* replacements of the runtime so far
  exchanges,   \* answers with tool calls so far, which number them
  tasks,       \* the tasks of the session
  question,    \* pendingQuestions
  lingering,   \* calls whose tool goes on after its time limit
  alive,       \* the authority of the agent and the context of the run
  approved,    \* history: calls the user approved
  withdrawn,   \* history: calls whose approval was withdrawn while it was asked for
  executed,    \* history: calls executed that need the user's approval
  interrupted, \* history: exchanges during which memory was cleared, lost or switched
  mixed        \* history: a summary of another session may be in memory

\* What a message more changes, and what the sessions are beside it.
messages == <<request, memory, stored>>

sessions == <<aside, bound, replaced, mixed>>

conversation == <<messages, exchanges, sessions>>

history == <<approved, withdrawn, executed, interrupted>>

vars == <<scene, run, attempt, conversation, tasks, question, lingering, alive, history,
          consentVars>>

Kinds == {"invalid", "plain", "ask", "create_tasks", "update_task", "grant", "process"}

\* How the server runs, the kinds of tool calls the model makes, how many messages
\* the user sends and exchanges they lead to, how often the runtime is replaced
\* (for the same session, a rebuild, or to switch it), and what else comes in between.
Scene ==
  [mode : {"packaged", "child"}, kinds : SUBSET Kinds, turns : Nat, exchanges : Nat,
   replacements : Nat,
   events : SUBSET {"escalate", "withdraw", "rebuild", "switch", "clear", "crash"}]

ASSUME ScenesAssumption == \A s \in Scenes : s \in Scene /\ s.exchanges <= MaxExchanges

Phases ==
  {"idle", "iterating", "compacting", "streaming", "backoff", "calling",
   "supervising", "asking", "consenting", "executing", "retiring"}

\* call and from: the call a tool message answers, and whose result it holds;
\* calls: how many calls an answer makes.
Message(role, exchange, calls, call, from) ==
  [role |-> role, exchange |-> exchange, calls |-> calls, call |-> call, from |-> from]

Plain(role) == Message(role, 0, 0, 0, 0)

\* The summary is a system message, known by its marker.
SystemRoles == {"system", "summary"}

Roles == SystemRoles \cup {"user", "assistant", "tool"}

Messages ==
  [role : Roles,
   exchange : 0..MaxExchanges, calls : 0..MaxCalls, call : 0..MaxCalls,
   from : 0..MaxCalls]

Idle ==
  [phase |-> "idle", iteration |-> 0, taskMode |-> FALSE, exchange |-> 0,
   calls |-> 0, next |-> 0, kind |-> "plain", results |-> <<>>]

TypeOK ==
  /\ ConsentTypeOK
  /\ scene \in Scenes
  /\ run \in [phase : Phases, iteration : 0..MaxIterations, taskMode : BOOLEAN,
              exchange : 0..MaxExchanges, calls : 0..MaxCalls,
              next : 0..(MaxCalls + 1), kind : Kinds, results : Seq(1..MaxCalls)]
  /\ attempt \in 0..MaxRetries
  /\ request \in Seq(Messages)
  /\ memory \in Seq(Messages)
  /\ stored \in Seq(Messages)
  /\ aside \in Seq(Messages)
  /\ bound \in BOOLEAN
  /\ replaced \in 0..scene.replacements
  /\ exchanges \in 0..MaxExchanges
  /\ tasks \in {"none", "open", "done"}
  /\ question \in [Calls -> {"none", "open", "late"}]
  /\ lingering \in SUBSET Calls
  /\ alive \in BOOLEAN
  /\ approved \in SUBSET Calls
  /\ withdrawn \in SUBSET Calls
  /\ executed \in SUBSET Calls
  /\ interrupted \in SUBSET (1..MaxExchanges)
  /\ mixed \in BOOLEAN

Init ==
  /\ scene \in Scenes
  /\ ConsentInit
  /\ gate.mode = scene.mode
  /\ run = Idle
  /\ attempt = 0
  /\ request = <<>>
  /\ memory = <<Plain("system")>>
  /\ stored = <<>>
  /\ aside = <<>>
  /\ bound = TRUE
  /\ replaced = 0
  /\ exchanges = 0
  /\ tasks = "none"
  /\ question = [c \in Calls |-> "none"]
  /\ lingering = {}
  /\ alive = TRUE
  /\ approved = {}
  /\ withdrawn = {}
  /\ executed = {}
  /\ interrupted = {}
  /\ mixed = FALSE

-----------------------------------------------------------------------------
(* The conversation memory.                                                *)

\* The messages that have one of some roles.
OfRoles(ms, roles) ==
  LET selected[s \in Seq(Messages)] ==
        IF s = <<>> THEN <<>>
          ELSE IF Last(s).role \in roles THEN Append(selected[Front(s)], Last(s))
          ELSE selected[Front(s)]
  IN  selected[ms]

Systems(ms) == OfRoles(ms, SystemRoles)

Others(ms) == OfRoles(ms, Roles \ SystemRoles)

Prompts(ms) == OfRoles(ms, {"system"})

LastOf(ms, k) == SubSeq(ms, IF Len(ms) > k THEN Len(ms) - k + 1 ELSE 1, Len(ms))

\* Results whose call is gone are dropped from the front.
WithoutOrphans(ms) ==
  LET first == SelectInSeq(ms, LAMBDA m : m.role # "tool")
  IN  IF first = 0 THEN <<>> ELSE SubSeq(ms, first, Len(ms))

\* enforceMessageLimit
Limited(ms) ==
  IF Len(ms) <= MaxMessages THEN ms
    ELSE Systems(ms)
           \o WithoutOrphans(LastOf(Others(ms), MaxMessages - Len(Systems(ms))))

\* add
Added(ms, m) == Limited(Append(ms, m))

\* setSystemPrompt: the prompt comes first, other system messages but the
\* summary go.
Prompted(ms) == <<Plain("system")>> \o OfRoles(ms, Roles \ {"system"})

\* compact: there is something to summarise.
Compactable(ms) == Len(Others(ms)) > KeepRecent

\* What is kept beside the summary.  A call at the end of what is summarised
\* takes one result with it, and the results left in front are dropped.
Recent(ms) == WithoutOrphans(LastOf(Others(ms), KeepRecent))

Summarised(ms) == Prompts(ms) \o <<Plain("summary")>> \o Recent(ms)

\* fallbackDelete may stop in front of the message at i: every round deletes
\* the oldest message and the results after it, and runs only while more than
\* KEEP_RECENT are left.
StopsAt(ms, i) ==
  LET starts == {1, Len(ms) + 1} \cup {k \in 2..Len(ms) : ms[k].role # "tool"}
  IN  /\ i \in starts
      /\ \A k \in starts : k < i => Len(ms) - k + 1 > KeepRecent

Fallbacks(ms) ==
  LET others == Others(ms)
  IN  {Prompts(ms) \o SubSeq(others, i, Len(others)) :
         i \in {k \in 1..(Len(others) + 1) : StopsAt(others, k)}}

\* How the tasks are going, or that they are done, as a system message.
Guided(ms) ==
  IF run.taskMode /\ tasks # "none" THEN Added(ms, Plain("system")) ELSE ms

-----------------------------------------------------------------------------
(* The run: one iteration after the other.                                 *)

\* Messages of the user so far, in either session.
Turns ==
  Cardinality({i \in DOMAIN stored : stored[i].role = "user"})
    + Cardinality({i \in DOMAIN aside : aside[i].role = "user"})

\* The finally of run: it is not running any more and retires its resources.
Ended == [run EXCEPT !.phase = "retiring"]

\* The next iteration, whose local variables are new.
NextIteration ==
  [Idle EXCEPT !.phase = "iterating", !.iteration = run.iteration + 1,
               !.taskMode = run.taskMode]

\* A message of the user.
StartRun ==
  /\ run.phase = "idle" /\ bound
  /\ Turns < scene.turns
  /\ run' = [Idle EXCEPT !.phase = "iterating"]
  /\ memory' = Prompted(Added(memory, Plain("user")))
  /\ stored' = Append(stored, Plain("user"))
  /\ UNCHANGED <<scene, attempt, request, exchanges, sessions, tasks, question, lingering,
                 alive, history, consentVars>>

\* The messages are handed to the model; the answer is streamed.
Requested(ms) ==
  /\ memory' = ms
  /\ request' = ms
  /\ attempt' = 0
  /\ run' = [run EXCEPT !.phase = "streaming",
                        !.taskMode = @ /\ tasks # "done"]
  /\ UNCHANGED stored

Iterate ==
  /\ run.phase = "iterating"
  /\ \/ /\ run.iteration = MaxIterations
        /\ run' = Ended
        /\ UNCHANGED <<attempt, messages>>
     \/ /\ run.iteration < MaxIterations /\ Compactable(memory)
        /\ run' = [run EXCEPT !.phase = "compacting"]
        /\ request' = memory
        /\ UNCHANGED <<attempt, memory, stored>>
     \/ /\ run.iteration < MaxIterations
        /\ Requested(Guided(memory))
  /\ UNCHANGED <<scene, exchanges, sessions, tasks, question, lingering, alive, history,
                 consentVars>>

\* The summary has come or not; the messages are made from those read before.
Compacted ==
  /\ run.phase = "compacting"
  /\ \E ms \in {Summarised(request)} \cup Fallbacks(request) : Requested(Guided(ms))
  /\ UNCHANGED <<scene, exchanges, sessions, tasks, question, lingering, alive, history,
                 consentVars>>

-----------------------------------------------------------------------------
(* The streamed request.                                                   *)

\* The request is a local variable that is gone.
StreamOver == attempt' = 0 /\ request' = <<>>

\* Fault: one attempt more.
OneMoreAttempt == attempt <= MaxRetries

AnotherAttempt == attempt < MaxRetries

\* Creating the stream fails, or reading it does, with some of the text shown
\* already: either may be tried again.
StreamFails ==
  /\ run.phase = "streaming"
  /\ \/ /\ AnotherAttempt
        /\ run' = [run EXCEPT !.phase = "backoff"]
        /\ UNCHANGED <<attempt, request>>
     \/ run' = Ended /\ StreamOver
  /\ UNCHANGED <<scene, memory, stored, exchanges, sessions, tasks, question, lingering,
                 alive, history, consentVars>>

StreamRetries ==
  /\ run.phase = "backoff"
  /\ run' = [run EXCEPT !.phase = "streaming"]
  /\ attempt' = attempt + 1
  /\ UNCHANGED <<scene, conversation, tasks, question, lingering, alive, history,
                 consentVars>>

\* A final text is stored and ends the run, unless tasks are left.
StreamAnswers ==
  /\ run.phase = "streaming"
  /\ memory' = Added(memory, Plain("assistant"))
  /\ stored' = Append(stored, Plain("assistant"))
  /\ run' = IF run.taskMode /\ tasks = "open" THEN NextIteration ELSE Ended
  /\ StreamOver
  /\ UNCHANGED <<scene, exchanges, sessions, tasks, question, lingering, alive, history,
                 consentVars>>

\* An answer that calls tools is stored before the first of them is executed.
StreamCalls(n) ==
  /\ run.phase = "streaming" /\ exchanges < scene.exchanges
  /\ exchanges' = exchanges + 1
  /\ LET answer == Message("assistant", exchanges', n, 0, 0) IN
       /\ memory' = Added(memory, answer)
       /\ stored' = Append(stored, answer)
       /\ run' = [run EXCEPT !.phase = "calling", !.exchange = answer.exchange,
                             !.calls = n, !.next = 1]
  /\ StreamOver
  /\ UNCHANGED <<scene, sessions, tasks, question, lingering, alive, history, consentVars>>

-----------------------------------------------------------------------------
(* The tool calls.                                                         *)

This == <<run.exchange, run.next>>

\* Fault: a call whose arguments do not parse has no result.
SkippedSilently == [run EXCEPT !.phase = "calling", !.next = @ + 1, !.kind = "plain"]

\* A result without execution: the arguments do not parse or do not fit, the
\* context is not active, the supervisor or the user refuses.
Skipped ==
  [run EXCEPT !.phase = "calling", !.next = @ + 1, !.kind = "plain",
              !.results = Append(@, run.next)]

\* The tool's result, or that of its time limit.
Answered(kind) ==
  [run EXCEPT !.phase = "calling", !.next = @ + 1, !.kind = "plain",
              !.results = Append(@, run.next),
              !.taskMode = @ \/ kind = "create_tasks"]

\* The policy of the tool asks for the user's approval.
Approvable == {"grant", "process"}

\* executeInspectedTool up to its await; ask_user asks at once.
Execute(kind) ==
  /\ run' = [run EXCEPT !.phase = "executing", !.kind = kind]
  /\ executed' = IF kind \in Approvable THEN executed \cup {This} ELSE executed
  /\ question' = [question EXCEPT ![This] = IF kind = "ask" THEN "open" ELSE "none"]

\* The user is asked, by the page or by the dialog.
AskUser(kind) ==
  \/ /\ kind # "process"
     /\ run' = [run EXCEPT !.phase = "asking", !.kind = kind]
     /\ question' = [question EXCEPT ![This] = "open"]
     /\ UNCHANGED consentVars
  \/ /\ kind = "process"
     /\ RequestConsent(This)
     /\ run' = IF entry'[This].state = "refused" THEN Skipped
                 ELSE [run EXCEPT !.phase = "consenting", !.kind = kind]
     /\ UNCHANGED question

Calling == run.phase = "calling" /\ run.next <= run.calls

SkipCall ==
  /\ Calling
  /\ ~alive \/ "invalid" \in scene.kinds
  /\ run' = Skipped
  /\ UNCHANGED <<scene, attempt, conversation, tasks, question, lingering, alive, history,
                 consentVars>>

\* Every call is shown to the supervisor, which may ask the model.
CallTool(kind) ==
  /\ Calling /\ alive
  /\ kind \in scene.kinds \ {"invalid"}
  /\ run' = [run EXCEPT !.phase = "supervising", !.kind = kind]
  /\ UNCHANGED <<scene, attempt, conversation, tasks, question, lingering, alive, history,
                 consentVars>>

\* It denies the call, or leaves it to the user, or lets it be executed unless
\* the policy of the tool asks for the user.  The broker refuses a challenge, and
\* an execution, under an authority that has been revoked meanwhile.
Supervised ==
  /\ run.phase = "supervising"
  /\ \/ run' = Skipped /\ UNCHANGED <<executed, question, consentVars>>
     \/ /\ run.kind \in Approvable => alive
        /\ run.kind \in Approvable \/ "escalate" \in scene.events
        /\ AskUser(run.kind) /\ UNCHANGED executed
     \/ /\ run.kind \notin Approvable /\ alive
        /\ Execute(run.kind) /\ UNCHANGED consentVars
  /\ UNCHANGED <<scene, attempt, conversation, tasks, lingering, alive, approved, withdrawn,
                 interrupted>>

\* The context must be active to execute a call.  resolveApprovalChallenge: the
\* challenge of a call that needs approval lives for one minute.
Usable(c) == alive /\ (run.kind \in Approvable => question[c] = "open")

\* The question of a call is over: the run or the tool that asked goes on.
QuestionOver(c, yes) ==
  /\ \/ /\ run.phase = "asking" /\ c = This /\ yes /\ Usable(c)
        /\ Execute(run.kind)
        /\ UNCHANGED lingering
     \/ /\ question' = [question EXCEPT ![c] = "none"]
        /\ UNCHANGED executed
        /\ \/ /\ run.phase = "asking" /\ c = This /\ ~(yes /\ Usable(c))
              /\ run' = Skipped
              /\ UNCHANGED lingering
           \/ /\ run.phase = "executing" /\ c = This
              /\ run' = Answered(run.kind)
              /\ UNCHANGED lingering
           \/ /\ ~(run.phase \in {"asking", "executing"} /\ c = This)
              /\ lingering' = lingering \ {c}
              /\ UNCHANGED run
  /\ UNCHANGED <<scene, attempt, conversation, tasks, alive, withdrawn, interrupted,
                 consentVars>>

\* POST /api/ask-user/answer
SubmitAnswer(c, yes) ==
  /\ question[c] \in {"open", "late"}
  /\ QuestionOver(c, yes)
  /\ approved' = IF yes THEN approved \cup {c} ELSE approved

\* Five minutes without an answer.
QuestionExpires(c) ==
  /\ question[c] = "late"
  /\ QuestionOver(c, FALSE)
  /\ UNCHANGED approved

\* One minute without an answer; a tool that asked has reached its limit before.
QuestionAges(c) ==
  /\ question[c] = "open"
  /\ (run.phase = "asking" /\ c = This) \/ c \in lingering
  /\ question' = [question EXCEPT ![c] = "late"]
  /\ UNCHANGED <<scene, run, attempt, conversation, tasks, lingering, alive, history,
                 consentVars>>

TasksAfter(kind) ==
  IF kind = "create_tasks" THEN {tasks, "open"}
    ELSE IF kind = "update_task" /\ tasks = "open" THEN {"open", "done"} ELSE {tasks}

ToolEnds ==
  /\ run.phase = "executing" /\ run.kind # "ask"
  /\ run' = Answered(run.kind)
  /\ tasks' \in TasksAfter(run.kind)
  /\ UNCHANGED <<scene, attempt, conversation, question, lingering, alive, history, consentVars>>

\* The race is lost to the limit; the tool goes on.
ToolTimesOut ==
  /\ run.phase = "executing"
  /\ run' = Answered(run.kind)
  /\ lingering' = lingering \cup {This}
  /\ UNCHANGED <<scene, attempt, conversation, tasks, question, alive, history, consentVars>>

ToolLingers(c) ==
  /\ c \in lingering /\ question[c] \notin {"open", "late"}
  /\ lingering' = lingering \ {c}
  /\ UNCHANGED <<scene, run, attempt, conversation, tasks, question, alive, history,
                 consentVars>>

\* The results are stored by their place in the list.
ToolMessages ==
  [i \in 1..Len(run.results) |-> Message("tool", run.exchange, 0, i, run.results[i])]

\* The memory as each of them is added in turn.
Remembering[n \in 0..Len(run.results)] ==
  IF n = 0 THEN memory ELSE Added(Remembering[n - 1], ToolMessages[n])

StoreResults ==
  /\ run.phase = "calling" /\ run.next > run.calls
  /\ memory' = Remembering[Len(run.results)]
  /\ stored' = stored \o ToolMessages
  /\ run' = NextIteration
  /\ UNCHANGED <<scene, attempt, request, exchanges, sessions, tasks, question, lingering,
                 alive, history, consentVars>>

\* retireSessionResources settles, and the context is finished.  The next message
\* is for the agent that is published then.
Retired ==
  /\ run.phase = "retiring"
  /\ run' = Idle
  /\ alive' = TRUE
  /\ UNCHANGED <<scene, attempt, conversation, tasks, question, lingering, history,
                 consentVars>>

-----------------------------------------------------------------------------
(* Around the run.  None of it happens between two pieces of one step.     *)

AtAwait == run.phase \notin {"iterating", "calling"}

\* validateCurrent
Current == alive /\ run.phase = "consenting"

\* Consent goes on, and the run with it when its request is answered.
Consent ==
  /\ AtAwait
  /\ \/ /\ ConsentStep(Current)
        /\ UNCHANGED approved
     \/ /\ "withdraw" \in scene.events
        /\ Invalidate \/ Unregister
        /\ UNCHANGED approved
     \/ \E decision \in Decisions :
          /\ DialogCloses(decision, Current)
          /\ approved' = IF decision = "approve" THEN approved \cup {dialog} ELSE approved
  /\ withdrawn' = IF gate'.generation = gate.generation THEN withdrawn
                    ELSE withdrawn \cup {c \in Calls : entry[c].state = "pending"}
  /\ \/ /\ run.phase = "consenting" /\ entry'[This].state = "granted"
        /\ run' = [run EXCEPT !.phase = "executing"]
        /\ executed' = executed \cup {This}
     \/ /\ run.phase = "consenting" /\ entry'[This].state = "refused"
        /\ run' = Skipped
        /\ UNCHANGED executed
     \/ /\ ~(run.phase = "consenting" /\ entry'[This].state \in {"granted", "refused"})
        /\ UNCHANGED <<run, executed>>
  /\ UNCHANGED <<scene, attempt, conversation, tasks, question, lingering, alive, interrupted>>

Interrupts ==
  interrupted' = IF run.exchange = 0 THEN interrupted ELSE interrupted \cup {run.exchange}

\* Fault: the memory keeps the messages of the session before.
SetSessionOnly(other) ==
  /\ bound' = TRUE
  /\ IF other THEN stored' = aside /\ aside' = stored ELSE UNCHANGED <<stored, aside>>
  /\ memory' = Prompted(memory)

\* Agent.setSession, of the session the memory is bound to or of another.
SetSession(other) ==
  /\ bound' = TRUE
  /\ IF other THEN stored' = aside /\ aside' = stored ELSE UNCHANGED <<stored, aside>>
  /\ memory' = Prompted(Limited(stored'))

\* The runtime is replaced: the new agent has the same memory, and a session or
\* none.  The run that began while the new agent was prepared, or that goes on
\* beside one that is idle, stores its messages as before, under an authority
\* that is revoked unless the replacement is given up.
ReplaceRuntime ==
  /\ AtAwait /\ replaced < scene.replacements
  /\ replaced' = replaced + 1
  /\ \/ \E other \in BOOLEAN :
          /\ (IF other THEN "switch" ELSE "rebuild") \in scene.events
          /\ SetSession(other)
          /\ IF other THEN Interrupts ELSE UNCHANGED interrupted
          /\ mixed' = (run.phase = "compacting" /\ (mixed \/ other))
     \/ /\ "switch" \in scene.events
        /\ bound' = FALSE
        /\ memory' = Prompted(memory)
        /\ UNCHANGED <<stored, aside, interrupted, mixed>>
  /\ alive' \in IF run.phase = "idle" THEN {TRUE} ELSE {alive, FALSE}
  /\ withdrawn' = IF ~alive' /\ run.phase \in {"asking", "consenting"}
                    THEN withdrawn \cup {This} ELSE withdrawn
  /\ UNCHANGED <<scene, run, attempt, request, exchanges, tasks, question, lingering,
                 approved, executed, consentVars>>

\* POST /api/clear, which does not look whether a run is under way.
Clear ==
  /\ AtAwait /\ "clear" \in scene.events
  /\ memory' = <<Plain("system")>>
  /\ Interrupts
  /\ UNCHANGED <<scene, run, attempt, request, stored, exchanges, sessions, tasks, question,
                 lingering, alive, approved, withdrawn, executed, consentVars>>

\* The application stops and is started again, with the session that was used
\* last: memory comes from the database.
Crash ==
  /\ AtAwait /\ "crash" \in scene.events
  /\ \E other \in BOOLEAN : SetSession(other)
  /\ Interrupts
  /\ mixed' = FALSE
  /\ UNCHANGED replaced
  /\ run' = Idle
  /\ StreamOver
  /\ question' = [c \in Calls |-> "none"]
  /\ lingering' = {}
  /\ alive' = TRUE
  /\ gate' = [mode |-> gate.mode, handler |-> gate.mode = "packaged", generation |-> 0]
  /\ entry' = [c \in Calls |-> Over("none")]
  /\ child' = Fresh
  /\ parent' = Fresh
  /\ toChild' = IF gate.mode = "child" THEN <<Frame("hello", None, None)>> ELSE <<>>
  /\ toParent' = <<>>
  /\ dialog' = None
  /\ UNCHANGED <<scene, exchanges, tasks, approved, withdrawn, executed>>

Next ==
  \/ StartRun
  \/ Iterate
  \/ Compacted
  \/ StreamFails
  \/ StreamRetries
  \/ StreamAnswers
  \/ \E n \in 1..MaxCalls : StreamCalls(n)
  \/ SkipCall
  \/ \E kind \in Kinds : CallTool(kind)
  \/ Supervised
  \/ \E c \in Calls : AtAwait /\ \E yes \in BOOLEAN : SubmitAnswer(c, yes)
  \/ \E c \in Calls : AtAwait /\ QuestionExpires(c)
  \/ \E c \in Calls : AtAwait /\ QuestionAges(c)
  \/ ToolEnds
  \/ ToolTimesOut
  \/ \E c \in Calls : AtAwait /\ ToolLingers(c)
  \/ StoreResults
  \/ Retired
  \/ Consent
  \/ ReplaceRuntime
  \/ Clear
  \/ Crash

\* What the program does by itself, given that requests to the model end: its
\* timers fire and retirement settles.  The user need not answer, a tool need not
\* end.  Only the dialog of a packaged application waits without a timer.
Progress ==
  \/ Iterate
  \/ Compacted
  \/ StreamFails
  \/ StreamAnswers
  \/ StreamRetries
  \/ SkipCall
  \/ \E kind \in Kinds : CallTool(kind)
  \/ Supervised
  \/ run.phase = "asking" /\ (QuestionAges(This) \/ QuestionExpires(This))
  \/ ToolTimesOut
  \/ StoreResults
  \/ Retired
  \/ /\ run.phase = "consenting"
     /\ Consent
     /\ dialog' = dialog
     /\ run' # run \/ entry'[This].late # entry[This].late

Spec == Init /\ [][Next]_vars /\ WF_vars(Progress)

-----------------------------------------------------------------------------
(* Properties.                                                             *)

\* In ms, the call of an answer and its results stand together, every call has
\* its own result, and no result stands without its call.
Whole(ms) ==
  \A i \in DOMAIN ms : ms[i].exchange \notin interrupted =>
    /\ ms[i].role = "tool" =>
         /\ ms[i].from = ms[i].call
         /\ i > ms[i].call
         /\ LET answer == ms[i - ms[i].call] IN
              answer.exchange = ms[i].exchange /\ answer.calls >= ms[i].call
    /\ \A k \in 1..ms[i].calls :
         /\ i + k <= Len(ms)
         /\ ms[i + k].exchange = ms[i].exchange /\ ms[i + k].call = k

\* What the model is sent are whole exchanges, through refusals, time-outs,
\* compaction, the message limit, restarts and a runtime that is replaced under
\* the run: only an exchange during which the memory was cleared, lost or given
\* another session may be torn (agent.ts:209-364, memory.ts:144-343, index.ts:505-541).
ExchangesWhole == run.phase = "streaming" => Whole(request)

\* The memory invents, repeats and loses nothing: what it holds of a conversation
\* is the end of the rows of the session it is bound to, so that a restart and a
\* replaced runtime go on from what the model has seen.  Not so once the memory was
\* given another session while a summary was written, which overwrites it, until it
\* is loaded again (memory.ts:192-343, agent.ts:39-46).
RememberedAsStored == mixed \/ IsSuffix(Others(memory), stored)

\* A call that needs the user's approval is executed only after the user
\* approved that very call, and not when consent was withdrawn or the runtime
\* replaced while the user was asked (agent.ts:260-312, native-process-consent.ts:167-177).
ExecutedAsApproved ==
  /\ executed \subseteq approved
  /\ executed \cap withdrawn = {}

\* A run ends, whatever the model, the tools, the pipes and the user do: only
\* the dialog of a packaged application has no time limit (agent.ts:122-411).
RunEnds ==
  run.phase # "idle" ~> (run.phase = "idle" \/ (gate.mode = "packaged" /\ dialog # None))
=============================================================================
