--------------------------- MODULE AgentRunProofs ---------------------------
(***************************************************************************)
(* For any number of calls, exchanges, attempts and iterations: a tool     *)
(* call that needs the user's approval is executed as approved, the model  *)
(* is sent whole exchanges, and the memory is the end of the session's     *)
(* rows.  The first part is about the run and the approval of its calls,   *)
(* the others about the memory and the messages of a request: what a       *)
(* selection by role, the message limit, a compaction, the results of an   *)
(* exchange and another session make of a conversation.                    *)
(***************************************************************************)
EXTENDS AgentRun, FiniteSetTheorems, SequenceTheorems, WellFoundedInduction, TLAPS

RunRecord ==
  [phase : Phases, iteration : 0..MaxIterations, taskMode : BOOLEAN,
   exchange : 0..MaxExchanges, calls : 0..MaxCalls,
   next : 0..(MaxCalls + 1), kind : Kinds, results : Seq(1..MaxCalls)]

Gates ==
  [mode : {"packaged", "child"}, handler : BOOLEAN, generation : 0..MaxGeneration]

\* The phases in which the answer's calls are executed, and those in which one
\* of them is under way.
CallPhases == {"supervising", "asking", "consenting", "executing"}

ToolPhases == CallPhases \cup {"calling"}

\* The part of the type invariant the proofs need.
ControlTypes ==
  /\ ConsentTypeOK
  /\ scene \in Scenes
  /\ run \in RunRecord
  /\ attempt \in 0..MaxRetries
  /\ exchanges \in 0..MaxExchanges
  /\ alive \in BOOLEAN
  /\ approved \subseteq Calls
  /\ withdrawn \subseteq Calls
  /\ executed \subseteq Calls

\* The local variables of a run fit its phase: an exchange is under way only
\* while its calls are executed, it is the last of the session, and every call
\* before the next has its result.
RunFormed ==
  /\ run.phase \notin {"idle", "iterating", "retiring"} => run.iteration < MaxIterations
  /\ run.phase \in ToolPhases =>
       /\ run.exchange = exchanges /\ run.exchange >= 1
       /\ Len(run.results) + 1 = run.next
       /\ run.next <= run.calls + 1
  /\ run.phase \in CallPhases => run.next <= run.calls
  /\ run.phase \notin ToolPhases => run.exchange = 0 /\ run.results = <<>>
  /\ run.phase = "backoff" => AnotherAttempt

\* A decision that approves, on its way to the server, is the user's.
FramesApproved ==
  \A i \in 1..Len(toChild) :
    toChild[i].kind = "decision" /\ toChild[i].decision = "approve"
      => toChild[i].call \in approved

Unanswered(c) == entry[c].state \in {"pending", "withdrawn"}

\* The ledger waits for an answer exactly while the run does.
AskedNow ==
  /\ \A c \in Calls : Unanswered(c) => run.phase = "consenting" /\ c = This
  /\ run.phase = "consenting" => Unanswered(This)

\* No call comes twice: what has been executed, or withdrawn while it was asked
\* for, is a call the run has left, or the one it is at, which then is executing,
\* or can not be any more.
Left(c) == c[1] <= exchanges /\ (c[1] = run.exchange => c[2] < run.next)

Barred(c) ==
  \/ run.phase = "asking" /\ ~alive
  \/ run.phase = "consenting" /\ (~alive \/ entry[c].state = "withdrawn")

ExecutedOnce ==
  \A c \in executed : Left(c) \/ (c = This /\ run.phase = "executing")

WithdrawnForGood ==
  \A c \in withdrawn : Left(c) \/ (c = This /\ Barred(c))

Types == ControlTypes /\ RunFormed

ApprovalInv ==
  FramesApproved /\ AskedNow /\ ExecutedOnce /\ WithdrawnForGood /\ ExecutedAsApproved

Inv == Types /\ ApprovalInv

LEMMA ExchangesType == Types => exchanges \in Nat
  BY BoundsAssumption DEF Types, ControlTypes

LEMMA PlainMessages ==
  \A role \in {"system", "summary", "user", "assistant", "tool"} :
    Plain(role) \in Messages /\ Plain(role).calls = 0
<1>1. 0 \in 0..MaxExchanges /\ 0 \in 0..MaxCalls
  BY BoundsAssumption
<1> QED
  BY <1>1 DEF Plain, Message, Messages, Roles, SystemRoles

-----------------------------------------------------------------------------
(* The local variables of the run.                                         *)

\* The fields the proofs are about.
RunIs(phase, iteration, exchange, calls, next, results) ==
  /\ run' \in RunRecord
  /\ run'.phase = phase /\ run'.iteration = iteration /\ run'.exchange = exchange
  /\ run'.calls = calls /\ run'.next = next /\ run'.results = results

\* The run is at another phase, with another kind of call or not.
LEMMA PhaseUpdate ==
  ASSUME run \in RunRecord, NEW phase \in Phases, NEW kind \in Kinds,
         \/ run' = [run EXCEPT !.phase = phase]
         \/ run' = [run EXCEPT !.phase = phase, !.kind = kind]
  PROVE  RunIs(phase, run.iteration, run.exchange, run.calls, run.next, run.results)
<1>1. CASE run' = [run EXCEPT !.phase = phase]
  BY <1>1 DEF RunIs, RunRecord
<1>2. CASE run' = [run EXCEPT !.phase = phase, !.kind = kind]
  <2> DEFINE r == [run EXCEPT !.phase = phase]
  <2>1. r \in RunRecord /\ r.phase = phase
    BY DEF RunRecord
  <2>2. /\ r.iteration = run.iteration /\ r.exchange = run.exchange
        /\ r.calls = run.calls /\ r.next = run.next /\ r.results = run.results
    BY DEF RunRecord
  <2>3. run' = [r EXCEPT !.kind = kind]
    BY <1>2
  <2> HIDE DEF r
  <2>4. run' \in RunRecord
    BY <2>1, <2>3 DEF RunRecord
  <2>5. /\ run'.phase = r.phase /\ run'.iteration = r.iteration
        /\ run'.exchange = r.exchange /\ run'.calls = r.calls
        /\ run'.next = r.next /\ run'.results = r.results
    BY <2>1, <2>3 DEF RunRecord
  <2> QED
    BY <2>1, <2>2, <2>4, <2>5 DEF RunIs
<1> QED
  BY <1>1, <1>2

\* A call has its result, and the run goes on to the next.
LEMMA ResultUpdate ==
  ASSUME run \in RunRecord, run.next \in 1..MaxCalls,
         NEW kind \in Kinds, run' = Skipped \/ run' = Answered(kind)
  PROVE  RunIs("calling", run.iteration, run.exchange, run.calls, run.next + 1,
               Append(run.results, run.next))
<1>0. run.next + 1 \in 0..(MaxCalls + 1) /\ MaxCalls \in Nat
  BY BoundsAssumption
<1>1. Append(run.results, run.next) \in Seq(1..MaxCalls)
  BY DEF RunRecord
<1>2. "calling" \in Phases /\ "plain" \in Kinds
  BY DEF Phases, Kinds
<1>3. PICK mode \in BOOLEAN :
        run' = [phase |-> "calling", iteration |-> run.iteration, taskMode |-> mode,
                exchange |-> run.exchange, calls |-> run.calls, next |-> run.next + 1,
                kind |-> "plain", results |-> Append(run.results, run.next)]
  <2>1. CASE run' = Skipped
    BY <2>1 DEF Skipped, RunRecord
  <2>2. CASE run' = Answered(kind)
    BY <2>2 DEF Answered, RunRecord
  <2> QED
    BY <2>1, <2>2
<1>4. run.iteration \in 0..MaxIterations /\ run.exchange \in 0..MaxExchanges
      /\ run.calls \in 0..MaxCalls
  BY DEF RunRecord
<1>5. run' \in RunRecord
  BY <1>0, <1>1, <1>2, <1>3, <1>4 DEF RunRecord
<1> QED
  BY <1>3, <1>5 DEF RunIs

\* The next iteration.
LEMMA IterationUpdate ==
  ASSUME run \in RunRecord, run.iteration < MaxIterations, run' = NextIteration
  PROVE  RunIs("iterating", run.iteration + 1, 0, 0, 0, <<>>)
<1>1. run.iteration + 1 \in 0..MaxIterations
  BY BoundsAssumption DEF RunRecord
<1>2. run' = [phase |-> "iterating", iteration |-> run.iteration + 1,
              taskMode |-> run.taskMode, exchange |-> 0, calls |-> 0, next |-> 0,
              kind |-> "plain", results |-> <<>>]
  BY DEF NextIteration, Idle
<1>3. run' \in RunRecord
  BY <1>1, <1>2, BoundsAssumption DEF RunRecord, Phases, Kinds
<1> QED
  BY <1>2, <1>3 DEF RunIs

\* The next exchange.
LEMMA CallsUpdate ==
  ASSUME run \in RunRecord, NEW e \in 0..MaxExchanges, NEW n \in 1..MaxCalls,
         run' = [run EXCEPT !.phase = "calling", !.exchange = e, !.calls = n, !.next = 1]
  PROVE  RunIs("calling", run.iteration, e, n, 1, run.results)
<1>1. run' = [phase |-> "calling", iteration |-> run.iteration, taskMode |-> run.taskMode,
              exchange |-> e, calls |-> n, next |-> 1, kind |-> run.kind,
              results |-> run.results]
  BY DEF RunRecord
<1>2. 1 \in 0..(MaxCalls + 1) /\ n \in 0..MaxCalls
  BY BoundsAssumption
<1>3. run' \in RunRecord
  BY <1>1, <1>2 DEF RunRecord, Phases
<1> QED
  BY <1>1, <1>3 DEF RunIs

\* The call a run is at.
LEMMA AtCall ==
  ASSUME Types, run.phase \in CallPhases \/ Calling
  PROVE  /\ This \in Calls /\ run.next \in 1..MaxCalls
         /\ This[1] = run.exchange /\ This[2] = run.next
         /\ \A c \in Calls : c[1] = run.exchange /\ c[2] = run.next <=> c = This
<1>1. run.phase \in ToolPhases /\ run.next <= run.calls
  BY DEF Types, RunFormed, ToolPhases, Calling
<1>2. run.exchange \in 1..MaxExchanges
  BY <1>1, BoundsAssumption DEF Types, ControlTypes, RunFormed, RunRecord
<1>3. run.next \in 1..MaxCalls
  <2>1. run.results \in Seq(1..MaxCalls) /\ Len(run.results) + 1 = run.next
    BY <1>1 DEF Types, ControlTypes, RunFormed, RunRecord
  <2>2. run.next >= 1
    BY <2>1
  <2> QED
    BY <1>1, <2>2, BoundsAssumption DEF Types, ControlTypes, RunRecord
<1>4. \A c \in Calls : c[1] = run.exchange /\ c[2] = run.next <=> c = This
  BY CallsAssumption DEF This
<1> QED
  BY <1>2, <1>3, <1>4, CallsAssumption DEF This

-----------------------------------------------------------------------------
(* Consent.                                                                *)

\* What a step may do to the entry of a call: nothing, answer it, or withdraw it;
\* only a pending call that the user approved is granted.
EntryStep(c) ==
  \/ entry'[c].state = entry[c].state
  \/ entry[c].state = "pending" /\ entry'[c].state = "withdrawn"
  \/ entry'[c].state = "refused"
  \/ /\ entry[c].state = "pending" /\ entry'[c].state = "granted"
     /\ Current /\ c \in approved' /\ gate' = gate

ConsentKept ==
  /\ ConsentTypeOK' /\ FramesApproved'
  /\ \A c \in Calls : EntryStep(c)
  /\ gate'.generation # gate.generation =>
       \A c \in Calls : entry'[c].state # "pending"

\* The answer to one request.
LEMMA SettledStep ==
  ASSUME ConsentTypeOK, NEW c \in Calls, NEW d, NEW current \in BOOLEAN,
         entry' = Settled(c, d, current)
  PROVE  /\ entry' \in [Calls -> Entries]
         /\ \A t \in Calls : t # c => entry'[t] = entry[t]
         /\ \/ entry'[c].state = "refused"
            \/ /\ entry'[c].state = "granted" /\ entry[c].state = "pending"
               /\ d = "approve" /\ current
<1>1. entry \in [Calls -> Entries]
  BY DEF ConsentTypeOK
<1>2. Over("granted") \in Entries /\ Over("refused") \in Entries
  BY MaxGenerationAssumption DEF Over, Entries
<1>3. CASE Granted(c, d, current)
  <2>1. entry' = [entry EXCEPT ![c] = Over("granted")]
    BY <1>3 DEF Settled
  <2>2. entry[c].state = "pending" /\ d = "approve" /\ current
    BY <1>3 DEF Granted
  <2>3. /\ entry' \in [Calls -> Entries] /\ entry'[c].state = "granted"
        /\ \A t \in Calls : t # c => entry'[t] = entry[t]
    BY <1>1, <1>2, <2>1 DEF Over
  <2> QED
    BY <2>2, <2>3
<1>4. CASE ~Granted(c, d, current)
  <2>1. entry' = [entry EXCEPT ![c] = Over("refused")]
    BY <1>4 DEF Settled
  <2> QED
    BY <1>1, <1>2, <2>1 DEF Over
<1> QED
  BY <1>3, <1>4

LEMMA FrameTypes ==
  ASSUME NEW kind \in {"hello", "ready", "prepare", "decision"},
         NEW c \in Calls \cup {None}, NEW d \in Decisions \cup {None}
  PROVE  /\ Frame(kind, c, d) \in Frames
         /\ Frame(kind, c, d).call = c /\ Frame(kind, c, d).decision = d
  BY DEF Frame, Frames

\* The first frame is received.
LEMMA Received ==
  ASSUME NEW s \in Seq(Frames), s # <<>>
  PROVE  /\ Tail(s) \in Seq(Frames) /\ Head(s) \in Frames
         /\ 1 \in 1..Len(s) /\ Head(s) = s[1]
         /\ \A i \in 1..Len(Tail(s)) : i + 1 \in 1..Len(s) /\ Tail(s)[i] = s[i + 1]
  OBVIOUS

\* A step that leaves the entries and the generation.
LEMMA EntriesKept ==
  ASSUME UNCHANGED entry, gate'.generation = gate.generation
  PROVE  /\ \A c \in Calls : EntryStep(c)
         /\ gate'.generation # gate.generation =>
              \A c \in Calls : entry'[c].state # "pending"
  BY DEF EntryStep

LEMMA WithdrawalKept ==
  ASSUME ConsentTypeOK, FramesApproved, approved \subseteq approved',
         Invalidate \/ Unregister
  PROVE  ConsentKept
<1>1. entry \in [Calls -> Entries] /\ gate \in Gates
  BY DEF ConsentTypeOK, Gates
<1>2. /\ Withdrawn \in [Calls -> Entries]
      /\ \A c \in Calls :
           Withdrawn[c].state =
             IF entry[c].state = "pending" THEN "withdrawn" ELSE entry[c].state
  <2>1. ASSUME NEW c \in Calls
        PROVE  /\ Withdrawn[c] \in Entries
               /\ Withdrawn[c].state =
                    IF entry[c].state = "pending" THEN "withdrawn" ELSE entry[c].state
    BY <1>1 DEF Withdrawn, Entries
  <2>2. Withdrawn = [c \in Calls |-> Withdrawn[c]]
    BY DEF Withdrawn
  <2> QED
    BY <2>1, <2>2
<1>3. Over("refused") \in Entries /\ Over("refused").state = "refused"
  BY MaxGenerationAssumption DEF Over, Entries
<1>4. CASE Invalidate
  <2>1. entry' = Withdrawn /\ UNCHANGED <<child, parent, toChild, toParent, dialog>>
    BY <1>4 DEF Invalidate, pipes
  <2>2. gate' \in Gates
    BY <1>1, <1>4, MaxGenerationAssumption DEF Invalidate, Gates
  <2>3. ConsentTypeOK'
    BY <1>2, <2>1, <2>2 DEF ConsentTypeOK, Gates
  <2>4. \A c \in Calls : EntryStep(c) /\ entry'[c].state # "pending"
    BY <1>2, <2>1 DEF EntryStep
  <2>5. FramesApproved'
    BY <2>1 DEF FramesApproved
  <2> QED
    BY <2>3, <2>4, <2>5 DEF ConsentKept
<1>5. CASE Unregister
  <2>1. /\ entry' = [c \in Calls |-> IF c = child.call THEN Over("refused") ELSE Withdrawn[c]]
        /\ UNCHANGED <<parent, toParent, dialog>>
        /\ \/ child' = [state |-> "failed", call |-> None] /\ toChild' = <<>>
           \/ UNCHANGED <<child, toChild>>
    BY <1>5 DEF Unregister
  <2>2. gate' \in Gates
    <3>1. gate.generation + 1 \in 0..MaxGeneration
      BY <1>1, <1>5, MaxGenerationAssumption DEF Unregister, Gates
    <3>2. gate' = [mode |-> gate.mode, handler |-> FALSE,
                   generation |-> gate.generation + 1]
      BY <1>1, <1>5 DEF Unregister, Gates
    <3> QED
      BY <1>1, <3>1, <3>2 DEF Gates
  <2>3. entry' \in [Calls -> Entries]
    BY <1>2, <1>3, <2>1
  <2>4. child' \in Ends /\ toChild' \in Seq(Frames) /\ FramesApproved'
    <3>1. CASE child' = [state |-> "failed", call |-> None] /\ toChild' = <<>>
      BY <3>1 DEF Ends, FramesApproved
    <3>2. CASE UNCHANGED <<child, toChild>>
      BY <3>2 DEF ConsentTypeOK, FramesApproved
    <3> QED
      BY <2>1, <3>1, <3>2
  <2>5. ConsentTypeOK'
    BY <2>1, <2>2, <2>3, <2>4 DEF ConsentTypeOK, Gates
  <2>6. \A c \in Calls : EntryStep(c) /\ entry'[c].state # "pending"
    BY <1>2, <1>3, <2>1 DEF EntryStep
  <2> QED
    BY <2>4, <2>5, <2>6 DEF ConsentKept
<1> QED
  BY <1>4, <1>5

\* The server's end fails.
LEMMA ChildFailsKept ==
  ASSUME ConsentTypeOK, FramesApproved, ChildFails(Current)
  PROVE  ConsentKept
<1>1. /\ child' = [state |-> "failed", call |-> None] /\ toChild' = <<>>
      /\ UNCHANGED <<gate, parent, toParent, dialog>>
  BY DEF ChildFails
<1>2. child' \in Ends /\ toChild' \in Seq(Frames) /\ FramesApproved'
  BY <1>1 DEF Ends, FramesApproved
<1>3. entry' \in [Calls -> Entries] /\ \A c \in Calls : EntryStep(c)
  <2>1. CASE child.call = None
    BY <2>1, NoneIsNoCall DEF ChildFails, ConsentTypeOK, EntryStep
  <2>2. CASE child.call # None
    <3>1. child.call \in Calls
      BY <2>2 DEF ConsentTypeOK, Ends
    <3>2. entry' = Settled(child.call, "deny", Current) /\ Current \in BOOLEAN
      BY <2>2 DEF ChildFails, Current
    <3>3. /\ entry' \in [Calls -> Entries]
          /\ \A t \in Calls : t # child.call => entry'[t] = entry[t]
          /\ entry'[child.call].state = "refused"
      BY <3>1, <3>2, SettledStep
    <3> QED
      BY <3>3 DEF EntryStep
  <2> QED
    BY <2>1, <2>2
<1> QED
  BY <1>1, <1>2, <1>3 DEF ConsentKept, ConsentTypeOK

\* The steps nobody asks for.
LEMMA ConsentStepKept ==
  ASSUME ConsentTypeOK, FramesApproved, approved \subseteq approved',
         ConsentStep(Current)
  PROVE  ConsentKept
<1>0. /\ entry \in [Calls -> Entries] /\ gate \in Gates
      /\ child \in Ends /\ parent \in Ends
      /\ toChild \in Seq(Frames) /\ toParent \in Seq(Frames)
      /\ dialog \in Calls \cup {None}
  BY DEF ConsentTypeOK, Gates
<1>1. ASSUME NEW c \in Calls, TimePasses(c)
      PROVE  ConsentKept
  <2>1. UNCHANGED <<gate, child, parent, toChild, toParent, dialog>>
    BY <1>1 DEF TimePasses, pipes
  <2>2. /\ entry' \in [Calls -> Entries]
        /\ \A t \in Calls : entry'[t].state = entry[t].state
    BY <1>0, <1>1 DEF TimePasses, Entries
  <2> QED
    BY <2>1, <2>2 DEF ConsentKept, ConsentTypeOK, FramesApproved, EntryStep
<1>2. CASE ChildGreets
  <2>1. /\ UNCHANGED <<entry, parent, dialog>> /\ toChild # <<>>
        /\ child' = [child EXCEPT !.state = "ready"] /\ toChild' = Tail(toChild)
        /\ gate' = [gate EXCEPT !.handler = TRUE]
        /\ toParent' \in {toParent, Append(toParent, Frame("ready", None, None))}
    BY <1>2 DEF ChildGreets
  <2>2. child' \in Ends /\ gate' \in Gates /\ gate'.generation = gate.generation
    BY <1>0, <2>1 DEF Ends, Gates
  <2>3. toParent' \in Seq(Frames)
    <3> DEFINE f == Frame("ready", None, None)
    <3>1. f \in Frames /\ toParent' \in {toParent, Append(toParent, f)}
      BY <2>1, FrameTypes
    <3> HIDE DEF f
    <3>2. CASE toParent' = toParent
      BY <1>0, <3>2
    <3>3. CASE toParent' = Append(toParent, f)
      BY <1>0, <3>1, <3>3
    <3> QED
      BY <3>1, <3>2, <3>3
  <2>4. toChild' \in Seq(Frames) /\ FramesApproved'
    BY <1>0, <2>1, Received DEF FramesApproved
  <2> QED
    BY <1>0, <2>1, <2>2, <2>3, <2>4, EntriesKept DEF ConsentKept, ConsentTypeOK, Gates
<1>3. CASE ChildReceives(Current)
  <2> DEFINE frame == Head(toChild)
  <2>1. CASE ChildFails(Current)
    BY <2>1, ChildFailsKept
  <2>2. CASE ~ChildFails(Current)
    <3>1. /\ toChild # <<>> /\ child.call # None
          /\ frame.kind = "decision" /\ frame.call = child.call
          /\ child' = [child EXCEPT !.call = None] /\ toChild' = Tail(toChild)
          /\ entry' = Settled(frame.call, frame.decision, Current)
          /\ UNCHANGED <<gate, parent, toParent, dialog>>
      BY <1>3, <2>2 DEF ChildReceives
    <3>2. frame.call \in Calls
      BY <1>0, <3>1 DEF Ends
    <3>3. child' \in Ends
      BY <1>0, <3>1 DEF Ends
    <3>4. toChild' \in Seq(Frames) /\ FramesApproved'
      BY <1>0, <3>1, Received DEF FramesApproved
    <3>5. frame.decision = "approve" => frame.call \in approved
      BY <1>0, <3>1, Received DEF FramesApproved
    <3>6. Current \in BOOLEAN
      BY DEF Current
    <3> DEFINE c == frame.call
               d == frame.decision
    <3>7. /\ entry' \in [Calls -> Entries]
          /\ \A t \in Calls : t # c => entry'[t] = entry[t]
          /\ \/ entry'[c].state = "refused"
             \/ /\ entry'[c].state = "granted" /\ entry[c].state = "pending"
                /\ d = "approve" /\ Current
      <4>1. c \in Calls /\ entry' = Settled(c, d, Current)
        BY <3>1, <3>2
      <4> HIDE DEF c, d
      <4> QED
        BY <3>6, <4>1, SettledStep
    <3>8. \A t \in Calls : EntryStep(t)
      BY <3>1, <3>2, <3>5, <3>7 DEF EntryStep
    <3> HIDE DEF c, d, frame
    <3> QED
      BY <1>0, <3>1, <3>3, <3>4, <3>7, <3>8 DEF ConsentKept, ConsentTypeOK, Gates
  <2> QED
    BY <2>1, <2>2
<1>4. CASE ParentGreets
  <2>1. /\ UNCHANGED <<gate, entry, child, toChild, dialog>> /\ toParent # <<>>
        /\ parent' = [parent EXCEPT !.state = "ready"] /\ toParent' = Tail(toParent)
    BY <1>4 DEF ParentGreets
  <2>2. parent' \in Ends /\ toParent' \in Seq(Frames)
    BY <1>0, <2>1, Received DEF Ends
  <2> QED
    BY <1>0, <2>1, <2>2, EntriesKept
    DEF ConsentKept, ConsentTypeOK, FramesApproved, Gates
<1>5. CASE ParentReceives
  <2>1. /\ UNCHANGED <<gate, entry, child, toChild>> /\ toParent # <<>>
        /\ parent' = [parent EXCEPT !.call = Head(toParent).call]
        /\ dialog' = Head(toParent).call /\ toParent' = Tail(toParent)
    BY <1>5 DEF ParentReceives
  <2>2. Head(toParent) \in Frames /\ toParent' \in Seq(Frames)
    BY <1>0, <2>1
  <2>3. Head(toParent).call \in Calls \cup {None}
    BY <2>2 DEF Frames
  <2>4. parent' \in Ends /\ dialog' \in Calls \cup {None}
    BY <1>0, <2>1, <2>3 DEF Ends
  <2> QED
    BY <1>0, <2>1, <2>2, <2>4, EntriesKept
    DEF ConsentKept, ConsentTypeOK, FramesApproved, Gates
<1>6. CASE ChildGivesUp(Current)
  BY <1>6, ChildFailsKept DEF ChildGivesUp
<1>7. CASE ParentGivesUp
  <2>1. /\ UNCHANGED <<gate, entry, child, toChild, dialog>>
        /\ parent' = [state |-> "failed", call |-> None] /\ toParent' = <<>>
    BY <1>7 DEF ParentGivesUp, ParentFails
  <2>2. parent' \in Ends /\ toParent' \in Seq(Frames)
    BY <2>1 DEF Ends
  <2> QED
    BY <1>0, <2>1, <2>2, EntriesKept
    DEF ConsentKept, ConsentTypeOK, FramesApproved, Gates
<1> QED
  BY <1>1, <1>2, <1>3, <1>4, <1>5, <1>6, <1>7 DEF ConsentStep

\* The user's decision counts as approved before it is on its way.
LEMMA DialogKept ==
  ASSUME ConsentTypeOK, FramesApproved, NEW d \in Decisions,
         DialogCloses(d, Current),
         approved' = IF d = "approve" THEN approved \cup {dialog} ELSE approved
  PROVE  ConsentKept
<1>0. /\ entry \in [Calls -> Entries] /\ gate \in Gates
      /\ child \in Ends /\ parent \in Ends
      /\ toChild \in Seq(Frames) /\ toParent \in Seq(Frames)
      /\ dialog \in Calls
  BY DEF ConsentTypeOK, Gates, DialogCloses
<1>1. dialog' = None
  BY DEF DialogCloses
<1>2. CASE gate.mode = "packaged"
  <2>1. /\ entry' = Settled(dialog, d, Current) /\ Current \in BOOLEAN
        /\ UNCHANGED <<gate, child, parent, toChild, toParent>>
    BY <1>2 DEF DialogCloses, pipes, Current
  <2>2. /\ entry' \in [Calls -> Entries]
        /\ \A t \in Calls : t # dialog => entry'[t] = entry[t]
        /\ \/ entry'[dialog].state = "refused"
           \/ /\ entry'[dialog].state = "granted" /\ entry[dialog].state = "pending"
              /\ d = "approve" /\ Current
    BY <1>0, <2>1, SettledStep
  <2>3. \A t \in Calls : EntryStep(t)
    BY <2>1, <2>2 DEF EntryStep
  <2>4. FramesApproved'
    BY <2>1 DEF FramesApproved
  <2> QED
    BY <1>0, <1>1, <2>1, <2>2, <2>3, <2>4 DEF ConsentKept, ConsentTypeOK, Gates
<1>3. CASE gate.mode # "packaged"
  <2>1. UNCHANGED <<gate, entry, toParent>>
    BY <1>3 DEF DialogCloses, pipes
  <2>2. child' \in Ends /\ parent' \in Ends
    BY <1>0, <1>3, NoneIsNoCall DEF DialogCloses, pipes, Ends
  <2>3. toChild' \in {toChild, Append(toChild, Frame("decision", dialog, d))}
    BY <1>3 DEF DialogCloses, pipes
  <2>4. /\ Frame("decision", dialog, d) \in Frames
        /\ Frame("decision", dialog, d).call = dialog
        /\ Frame("decision", dialog, d).decision = d
    BY <1>0, FrameTypes
  <2>5. toChild' \in Seq(Frames) /\ FramesApproved'
    <3>1. CASE toChild' = toChild
      BY <1>0, <3>1 DEF FramesApproved
    <3>2. CASE toChild' = Append(toChild, Frame("decision", dialog, d))
      <4> DEFINE f == Frame("decision", dialog, d)
      <4>1. f \in Frames /\ f.call = dialog /\ f.decision = d
        BY <2>4
      <4> HIDE DEF f
      <4>2. toChild' = Append(toChild, f)
        BY <3>2 DEF f
      <4>3. \A i \in 1..Len(toChild') :
              \/ i \in 1..Len(toChild) /\ toChild'[i] = toChild[i]
              \/ toChild'[i] = f
        BY <1>0, <4>1, <4>2
      <4> QED
        BY <1>0, <4>1, <4>2, <4>3 DEF FramesApproved
    <3> QED
      BY <2>3, <3>1, <3>2
  <2> QED
    BY <1>0, <1>1, <2>1, <2>2, <2>5, EntriesKept DEF ConsentKept, ConsentTypeOK, Gates
<1> QED
  BY <1>2, <1>3

\* A request is pending, or refused at once; nobody has approved it yet.
LEMMA RequestKept ==
  ASSUME ConsentTypeOK, FramesApproved, approved' = approved,
         NEW c \in Calls, RequestConsent(c)
  PROVE  /\ ConsentTypeOK' /\ FramesApproved' /\ gate' = gate
         /\ \A t \in Calls : t # c => entry'[t] = entry[t]
         /\ entry'[c].state \in {"pending", "refused"}
<1>0. /\ entry \in [Calls -> Entries] /\ gate \in Gates
      /\ child \in Ends /\ parent \in Ends
      /\ toChild \in Seq(Frames) /\ toParent \in Seq(Frames)
      /\ dialog \in Calls \cup {None}
  BY DEF ConsentTypeOK, Gates
<1> DEFINE asked == [state |-> "pending", generation |-> gate.generation, late |-> FALSE]
<1>1. /\ asked \in Entries /\ asked.state = "pending"
      /\ Over("refused") \in Entries /\ Over("refused").state = "refused"
  BY <1>0, MaxGenerationAssumption DEF Over, Entries, Gates
<1>2. /\ gate' = gate /\ parent' = parent /\ toChild' = toChild
      /\ \/ entry' = [entry EXCEPT ![c] = Over("refused")]
         \/ entry' = [entry EXCEPT ![c] = asked]
  BY DEF RequestConsent, AskThroughPipes, pipes
<1>3. child' \in Ends /\ dialog' \in Calls \cup {None}
  <2>1. child' = child \/ child' = [child EXCEPT !.call = c]
    BY DEF RequestConsent, AskThroughPipes, pipes
  <2>2. dialog' = dialog \/ dialog' = c
    BY DEF RequestConsent, AskThroughPipes, pipes
  <2> QED
    BY <1>0, <2>1, <2>2 DEF Ends
<1>4. toParent' \in Seq(Frames)
  <2> DEFINE f == Frame("prepare", c, None)
  <2>1. f \in Frames
    BY FrameTypes
  <2>2. toParent' = toParent \/ toParent' = Append(toParent, f)
    BY DEF RequestConsent, AskThroughPipes, pipes
  <2> HIDE DEF f
  <2> QED
    BY <1>0, <2>1, <2>2
<1> HIDE DEF asked
<1>5. /\ entry' \in [Calls -> Entries]
      /\ \A t \in Calls : t # c => entry'[t] = entry[t]
      /\ entry'[c].state \in {"pending", "refused"}
  BY <1>0, <1>1, <1>2
<1>6. FramesApproved'
  BY <1>2 DEF FramesApproved
<1> QED
  BY <1>0, <1>2, <1>3, <1>4, <1>5, <1>6 DEF ConsentTypeOK, Gates

-----------------------------------------------------------------------------
(* Approval.                                                               *)

\* What has been executed or withdrawn is a call the run has left, or its own.
LEMMA LeftOrThis ==
  ASSUME Types, ApprovalInv
  PROVE  /\ \A c \in executed \cup withdrawn : Left(c) \/ (c = This /\ run.phase \in CallPhases)
         /\ run.phase \in CallPhases \/ Calling => ~Left(This)
<1>1. \A c \in executed : Left(c) \/ (c = This /\ run.phase = "executing")
  BY DEF ApprovalInv, ExecutedOnce
<1>2. \A c \in withdrawn : Left(c) \/ (c = This /\ run.phase \in {"asking", "consenting"})
  BY DEF ApprovalInv, WithdrawnForGood, Barred
<1>3. ASSUME run.phase \in CallPhases \/ Calling PROVE ~Left(This)
  <2>1. This[1] = run.exchange /\ This[2] = run.next /\ run.next \in 1..MaxCalls
    BY <1>3, AtCall
  <2> QED
    BY <2>1 DEF Left
<1> QED
  BY <1>1, <1>2, <1>3 DEF CallPhases

\* What may be withdrawn in one step: the call that is being asked for.
WithdrawnNow ==
  /\ withdrawn' \subseteq withdrawn \cup {This}
  /\ withdrawn' # withdrawn => run.phase \in {"asking", "consenting"}

LEMMA WithdrawnNowSafe ==
  ASSUME Types, ApprovalInv, WithdrawnNow, executed' = executed, approved \subseteq approved'
  PROVE  ExecutedAsApproved'
<1>1. This \in executed => run.phase = "executing" \/ run.phase \notin CallPhases
  BY LeftOrThis DEF ApprovalInv, ExecutedOnce
<1>2. executed \subseteq approved /\ executed \cap withdrawn = {}
  BY DEF ApprovalInv, ExecutedAsApproved
<1>3. executed \cap withdrawn' = {}
  BY <1>1, <1>2 DEF WithdrawnNow, CallPhases
<1> QED
  BY <1>2, <1>3 DEF ExecutedAsApproved

\* The run leaves its call, if it is at one.
LEMMA CallLeft ==
  ASSUME Types, ApprovalInv,
         \A c \in Calls : Left(c) \/ (c = This /\ run.phase \in CallPhases) => Left(c)',
         executed' = executed, WithdrawnNow, approved \subseteq approved', FramesApproved',
         \A c \in Calls : ~Unanswered(c)', run'.phase # "consenting"
  PROVE  ApprovalInv'
<1>1. executed \subseteq Calls /\ withdrawn \subseteq Calls
  BY DEF Types, ControlTypes
<1>2. \A c \in executed : Left(c)'
  BY <1>1, LeftOrThis
<1>3. \A c \in withdrawn' : Left(c)'
  <2>1. \A c \in withdrawn : Left(c)'
    BY <1>1, LeftOrThis
  <2>2. ASSUME NEW c \in withdrawn', c \notin withdrawn PROVE Left(c)'
    <3>1. c = This /\ run.phase \in CallPhases
      BY <2>2 DEF WithdrawnNow, CallPhases
    <3>2. c \in Calls
      BY <3>1, AtCall
    <3> QED
      BY <3>1, <3>2
  <2> QED
    BY <2>1, <2>2
<1>4. ExecutedAsApproved'
  BY WithdrawnNowSafe
<1>5. ExecutedOnce'
  BY <1>2 DEF ExecutedOnce
<1>6. WithdrawnForGood'
  BY <1>3 DEF WithdrawnForGood
<1>7. AskedNow'
  BY DEF AskedNow
<1> QED
  BY <1>4, <1>5, <1>6, <1>7 DEF ApprovalInv

\* The next call is at hand when this one has its result.
LEMMA NextCall ==
  ASSUME Types, run.phase \in CallPhases \/ Calling, exchanges' = exchanges,
         run'.exchange = run.exchange, run'.next = run.next + 1,
         NEW c \in Calls, Left(c) \/ c = This
  PROVE  Left(c)'
<1>1. /\ This[1] = run.exchange /\ This[2] = run.next /\ run.next \in Nat
      /\ run.exchange = exchanges /\ exchanges \in Nat
  <2>1. run.phase \in ToolPhases
    BY DEF ToolPhases, Calling
  <2> QED
    BY <2>1, AtCall, ExchangesType DEF Types, ControlTypes, RunFormed
<1>2. c[1] \in Nat /\ c[2] \in Nat
  BY CallsAssumption, BoundsAssumption
<1> QED
  BY <1>1, <1>2 DEF Left

\* A call has its result.
LEMMA CallDone ==
  ASSUME Types, ApprovalInv, run.phase \in CallPhases \/ Calling,
         exchanges' = exchanges,
         RunIs("calling", run.iteration, run.exchange, run.calls, run.next + 1,
               Append(run.results, run.next)),
         executed' = executed, WithdrawnNow, approved \subseteq approved', FramesApproved',
         \A c \in Calls : ~Unanswered(c)'
  PROVE  ApprovalInv'
<1>1. \A c \in Calls : Left(c) \/ (c = This /\ run.phase \in CallPhases) => Left(c)'
  BY NextCall DEF RunIs
<1>2. run'.phase # "consenting"
  BY DEF RunIs
<1> QED
  BY <1>1, <1>2, CallLeft

\* The call stays the same.
LEMMA SameCall ==
  ASSUME Types, run.phase \in CallPhases \/ Calling, exchanges' = exchanges,
         run'.exchange = run.exchange, run'.next = run.next
  PROVE  This' = This /\ \A c \in Calls : Left(c)' <=> Left(c)
  BY DEF This, Left

\* A call is executed: it needs no approval, or has been approved and is not
\* withdrawn.
LEMMA CallExecuted ==
  ASSUME Types, ApprovalInv, run.phase \in CallPhases \/ Calling, run.phase # "executing",
         exchanges' = exchanges,
         RunIs("executing", run.iteration, run.exchange, run.calls, run.next, run.results),
         ~Barred(This), withdrawn' = withdrawn, approved \subseteq approved',
         \/ executed' = executed
         \/ executed' = executed \cup {This} /\ This \in approved',
         FramesApproved', \A c \in Calls : ~Unanswered(c)'
  PROVE  ApprovalInv'
<1>1. This' = This /\ \A c \in Calls : Left(c)' <=> Left(c)
  BY SameCall DEF RunIs
<1>2. executed \subseteq Calls /\ withdrawn \subseteq Calls
  BY DEF Types, ControlTypes
<1>3. run'.phase = "executing"
  BY DEF RunIs
<1>4. This \notin withdrawn
  BY LeftOrThis DEF ApprovalInv, WithdrawnForGood
<1>5. ExecutedAsApproved'
  BY <1>4 DEF ApprovalInv, ExecutedAsApproved
<1>6. ExecutedOnce'
  <2>1. \A c \in executed : Left(c) \/ c = This
    BY LeftOrThis
  <2>2. \A c \in executed' : Left(c)' \/ c = This
    BY <1>1, <1>2, <2>1
  <2> QED
    BY <1>1, <1>3, <2>2 DEF ExecutedOnce
<1>7. WithdrawnForGood'
  <2>1. \A c \in withdrawn : Left(c)'
    BY <1>1, <1>2, <1>4, LeftOrThis
  <2> QED
    BY <2>1 DEF WithdrawnForGood
<1>8. AskedNow'
  BY <1>3 DEF AskedNow
<1> QED
  BY <1>5, <1>6, <1>7, <1>8 DEF ApprovalInv

\* A call is going to be asked for.
LEMMA CallEntered ==
  ASSUME Types, ApprovalInv, Calling \/ run.phase = "supervising",
         exchanges' = exchanges, NEW phase \in {"supervising", "asking", "consenting"},
         RunIs(phase, run.iteration, run.exchange, run.calls, run.next, run.results),
         UNCHANGED <<executed, withdrawn, approved>>, FramesApproved', AskedNow'
  PROVE  ApprovalInv'
<1>0. run.phase \in CallPhases \/ Calling
  BY DEF CallPhases
<1>1. This' = This /\ \A c \in Calls : Left(c)' <=> Left(c)
  BY <1>0, SameCall DEF RunIs
<1>2. executed \subseteq Calls /\ withdrawn \subseteq Calls
  BY DEF Types, ControlTypes
<1>3. run.phase \notin {"asking", "consenting", "executing"}
  BY DEF Calling
<1>4. \A c \in executed \cup withdrawn : Left(c)
  BY <1>3 DEF ApprovalInv, ExecutedOnce, WithdrawnForGood, Barred
<1>5. \A c \in executed' \cup withdrawn' : Left(c)'
  BY <1>1, <1>2, <1>4
<1>6. ExecutedOnce' /\ WithdrawnForGood'
  BY <1>5 DEF ExecutedOnce, WithdrawnForGood
<1>7. ExecutedAsApproved'
  BY DEF ApprovalInv, ExecutedAsApproved
<1> QED
  BY <1>6, <1>7 DEF ApprovalInv

\* The run stays where it is.
LEMMA RunStays ==
  ASSUME Types, ApprovalInv, UNCHANGED <<run, executed>>, exchanges' = exchanges,
         WithdrawnNow, approved \subseteq approved', FramesApproved',
         \A c \in Calls : Unanswered(c)' => Unanswered(c),
         run.phase = "consenting" => \A c \in Calls : c = This => Unanswered(c)',
         \A c \in withdrawn' : c = This /\ run.phase \in {"asking", "consenting"}
                                 => Left(c) \/ Barred(c)'
  PROVE  ApprovalInv'
<1>1. This' = This /\ \A c \in Calls : Left(c)' <=> Left(c)
  BY DEF This, Left
<1>2. executed \subseteq Calls /\ withdrawn \subseteq Calls
  BY DEF Types, ControlTypes
<1>3. ExecutedAsApproved'
  BY WithdrawnNowSafe
<1>4. ExecutedOnce'
  BY <1>1, <1>2 DEF ApprovalInv, ExecutedOnce
<1>5. WithdrawnForGood'
  <2>1. ASSUME NEW c \in withdrawn' PROVE Left(c)' \/ (c = This /\ Barred(c)')
    <3>1. Left(c) \/ (c = This /\ run.phase \in {"asking", "consenting"})
      BY <2>1 DEF WithdrawnNow, ApprovalInv, WithdrawnForGood, Barred
    <3>2. c \in Calls
      BY <1>2, <2>1, AtCall DEF WithdrawnNow, CallPhases
    <3> QED
      BY <1>1, <2>1, <3>1, <3>2
  <2> QED
    BY <1>1, <2>1 DEF WithdrawnForGood
<1>6. AskedNow'
  <2>1. \A c \in Calls : Unanswered(c)' => run.phase = "consenting" /\ c = This
    BY DEF ApprovalInv, AskedNow
  <2>2. run.phase = "consenting" => This \in Calls
    BY AtCall DEF CallPhases
  <2>3. run'.phase = "consenting" => Unanswered(This)'
    BY <1>1, <2>2 DEF Unanswered
  <2> QED
    BY <1>1, <2>1, <2>3 DEF AskedNow
<1> QED
  BY <1>3, <1>4, <1>5, <1>6 DEF ApprovalInv

-----------------------------------------------------------------------------
(* Steps between the calls.                                                *)

LEMMA ControlKept ==
  ASSUME ControlTypes, UNCHANGED <<scene, approved, withdrawn, executed, consentVars>>,
         run' \in RunRecord, attempt' \in 0..MaxRetries, exchanges' \in 0..MaxExchanges,
         alive' \in {alive, TRUE}
  PROVE  ControlTypes'
  BY DEF ControlTypes, ConsentTypeOK, consentVars

\* A run outside its calls.
LEMMA FormedOutside ==
  ASSUME NEW phase \in Phases, NEW iteration, NEW calls, NEW next,
         RunIs(phase, iteration, 0, calls, next, <<>>), phase \notin ToolPhases,
         phase \notin {"idle", "iterating", "retiring"} => iteration < MaxIterations,
         phase = "backoff" => AnotherAttempt'
  PROVE  RunFormed'
  BY DEF RunIs, RunFormed, ToolPhases, CallPhases

LEMMA QuietKept ==
  ASSUME Types, ApprovalInv, UNCHANGED <<approved, withdrawn, executed, consentVars>>,
         run.phase \notin CallPhases, run'.phase \notin CallPhases,
         exchanges' \in Nat, exchanges' >= exchanges,
         \/ run'.exchange = 0
         \/ run'.exchange = exchanges + 1
         \/ run'.exchange = run.exchange /\ run'.next = run.next
  PROVE  ApprovalInv'
<1>1. ASSUME NEW c \in Calls, Left(c) \/ (c = This /\ run.phase \in CallPhases)
      PROVE  Left(c)'
  <2>1. Left(c) /\ c[1] \in Nat /\ c[1] >= 1
    BY <1>1, CallsAssumption, BoundsAssumption
  <2>2. exchanges \in Nat
    BY ExchangesType
  <2> QED
    BY <2>1, <2>2 DEF Left
<1>2. \A c \in Calls : ~Unanswered(c)'
  BY DEF ApprovalInv, AskedNow, Unanswered, CallPhases, consentVars
<1>3. FramesApproved'
  BY DEF ApprovalInv, FramesApproved, consentVars
<1>4. WithdrawnNow /\ run'.phase # "consenting"
  BY DEF WithdrawnNow, CallPhases
<1> QED
  BY <1>1, <1>2, <1>3, <1>4, CallLeft

\* A request is made.
LEMMA RequestedKept ==
  ASSUME Inv, NEW ms, Requested(ms), run.phase \in {"iterating", "compacting"},
         run.iteration < MaxIterations,
         UNCHANGED <<scene, exchanges, alive, approved, withdrawn, executed, consentVars>>
  PROVE  Inv'
<1>1. /\ run \in RunRecord /\ run.exchange = 0 /\ run.results = <<>>
      /\ exchanges \in 0..MaxExchanges
  BY DEF Inv, Types, ControlTypes, RunFormed, ToolPhases, CallPhases
<1>2. attempt' = 0 /\ attempt' \in 0..MaxRetries
  BY BoundsAssumption DEF Requested
<1>3. PICK mode \in BOOLEAN : run' = [run EXCEPT !.phase = "streaming", !.taskMode = mode]
  BY <1>1 DEF Requested, RunRecord
<1>4. RunIs("streaming", run.iteration, 0, run.calls, run.next, <<>>)
  BY <1>1, <1>3 DEF RunIs, RunRecord, Phases
<1>5. Types'
  <2>1. run' \in RunRecord /\ attempt' \in 0..MaxRetries /\ exchanges' \in 0..MaxExchanges
    BY <1>1, <1>2, <1>4 DEF RunIs
  <2>2. ControlTypes'
    BY <2>1, ControlKept DEF Inv, Types
  <2>3. "streaming" \in Phases /\ "streaming" \notin ToolPhases
    BY DEF Phases, ToolPhases, CallPhases
  <2>4. RunFormed'
    BY <1>4, <2>3, FormedOutside
  <2> QED
    BY <2>2, <2>4 DEF Types
<1>7. ApprovalInv'
  <2>1. exchanges' = exchanges /\ exchanges \in Nat
    BY ExchangesType DEF Inv
  <2>2. run'.exchange = 0 /\ run.phase \notin CallPhases /\ run'.phase \notin CallPhases
    BY <1>4 DEF RunIs, CallPhases
  <2> QED
    BY <2>1, <2>2, QuietKept DEF Inv
<1> QED
  BY <1>5, <1>7 DEF Inv

\* After the step the run is outside its calls.
LEMMA OutsideReached ==
  ASSUME Inv, run.phase \notin CallPhases, NEW phase \in Phases, phase \notin ToolPhases,
         NEW iteration, NEW calls, NEW next,
         RunIs(phase, iteration, 0, calls, next, <<>>),
         phase \notin {"idle", "iterating", "retiring"} => iteration < MaxIterations,
         phase = "backoff" => AnotherAttempt', attempt' \in 0..MaxRetries,
         exchanges' = exchanges, alive' \in {alive, TRUE},
         UNCHANGED <<scene, approved, withdrawn, executed, consentVars>>
  PROVE  Inv'
<1>1. ControlTypes'
  BY ControlKept DEF RunIs, Inv, Types, ControlTypes
<1>2. RunFormed'
  BY FormedOutside
<1>3. ApprovalInv'
  <2>1. exchanges \in Nat
    BY ExchangesType DEF Inv
  <2>2. run'.exchange = 0 /\ run'.phase \notin CallPhases
    BY DEF RunIs, ToolPhases
  <2> QED
    BY <2>1, <2>2, QuietKept DEF Inv
<1> QED
  BY <1>1, <1>2, <1>3 DEF Inv, Types

\* It was there before, and nothing is stored.
LEMMA OutsideKept ==
  ASSUME Inv, run.phase \notin ToolPhases, NEW phase \in Phases, phase \notin ToolPhases,
         run' = [run EXCEPT !.phase = phase],
         phase \notin {"idle", "iterating", "retiring"} => run.iteration < MaxIterations,
         phase = "backoff" => AnotherAttempt', attempt' \in 0..MaxRetries,
         UNCHANGED <<scene, exchanges, alive, approved, withdrawn, executed, consentVars>>
  PROVE  Inv'
<1>1. /\ run \in RunRecord /\ run.exchange = 0 /\ run.results = <<>>
      /\ run.kind \in Kinds
  BY DEF Inv, Types, ControlTypes, RunFormed, RunRecord
<1>2. RunIs(phase, run.iteration, 0, run.calls, run.next, <<>>)
  BY <1>1, PhaseUpdate
<1>3. run.phase \notin CallPhases
  BY DEF ToolPhases
<1> QED
  BY <1>2, <1>3, OutsideReached

LEMMA StartRunKept ==
  ASSUME Inv, StartRun
  PROVE  Inv'
<1>1. /\ run.phase = "idle" /\ run' = [Idle EXCEPT !.phase = "iterating"]
      /\ UNCHANGED <<scene, attempt, exchanges, alive, approved, withdrawn, executed, consentVars>>
  BY DEF StartRun, history
<1>2. RunIs("iterating", 0, 0, 0, 0, <<>>)
  <2>1. run' = [phase |-> "iterating", iteration |-> 0, taskMode |-> FALSE, exchange |-> 0,
                calls |-> 0, next |-> 0, kind |-> "plain", results |-> <<>>]
    BY <1>1 DEF Idle
  <2>2. run' \in RunRecord
    BY <2>1, BoundsAssumption DEF RunRecord, Phases, Kinds
  <2> QED
    BY <2>1, <2>2 DEF RunIs
<1>4. attempt' \in 0..MaxRetries
  BY <1>1 DEF Inv, Types, ControlTypes
<1>5. /\ "iterating" \in Phases /\ "iterating" \notin ToolPhases
      /\ run.phase \notin CallPhases
  BY <1>1 DEF Phases, ToolPhases, CallPhases
<1> QED
  BY <1>1, <1>2, <1>4, <1>5, OutsideReached

LEMMA IterateKept ==
  ASSUME Inv, Iterate
  PROVE  Inv'
<1>1. /\ run.phase = "iterating" /\ run.phase \notin ToolPhases
      /\ UNCHANGED <<scene, exchanges, alive, approved, withdrawn, executed, consentVars>>
  BY DEF Iterate, history, conversation, ToolPhases, CallPhases
<1>2. "retiring" \in Phases \ ToolPhases /\ "compacting" \in Phases \ ToolPhases
  BY DEF Phases, ToolPhases, CallPhases
<1>3. ASSUME UNCHANGED attempt
      PROVE  attempt' \in 0..MaxRetries
  BY <1>3 DEF Inv, Types, ControlTypes
<1>4. CASE run' = Ended /\ UNCHANGED attempt
  BY <1>1, <1>2, <1>3, <1>4, OutsideKept DEF Ended
<1>5. CASE /\ run.iteration < MaxIterations /\ run' = [run EXCEPT !.phase = "compacting"]
           /\ UNCHANGED attempt
  BY <1>1, <1>2, <1>3, <1>5, OutsideKept
<1>6. CASE run.iteration < MaxIterations /\ Requested(Guided(memory))
  <2> DEFINE ms == Guided(memory)
  <2>1. Requested(ms)
    BY <1>6
  <2> HIDE DEF ms
  <2> QED
    BY <1>1, <1>6, <2>1, RequestedKept
<1> QED
  BY <1>4, <1>5, <1>6 DEF Iterate, messages

LEMMA CompactedKept ==
  ASSUME Inv, Compacted
  PROVE  Inv'
<1>1. /\ run.phase = "compacting" /\ \E ms : Requested(ms)
      /\ UNCHANGED <<scene, exchanges, alive, approved, withdrawn, executed, consentVars>>
  BY DEF Compacted, history
<1>2. PICK ms : Requested(ms)
  BY <1>1
<1>3. run.iteration < MaxIterations
  BY <1>1 DEF Inv, Types, RunFormed
<1> QED
  BY <1>1, <1>2, <1>3, RequestedKept

LEMMA StreamFailsKept ==
  ASSUME Inv, StreamFails
  PROVE  Inv'
<1>1. /\ run.phase = "streaming" /\ run.phase \notin ToolPhases /\ run.iteration < MaxIterations
      /\ UNCHANGED <<scene, exchanges, alive, approved, withdrawn, executed, consentVars>>
  BY DEF StreamFails, history, Inv, Types, RunFormed, ToolPhases, CallPhases
<1>2. "retiring" \in Phases \ ToolPhases /\ "backoff" \in Phases \ ToolPhases
  BY DEF Phases, ToolPhases, CallPhases
<1>3. CASE AnotherAttempt /\ run' = [run EXCEPT !.phase = "backoff"] /\ UNCHANGED attempt
  <2>1. AnotherAttempt' /\ attempt' \in 0..MaxRetries
    BY <1>3 DEF AnotherAttempt, Inv, Types, ControlTypes
  <2> QED
    BY <1>1, <1>2, <1>3, <2>1, OutsideKept
<1>4. CASE run' = Ended /\ StreamOver
  <2>1. attempt' \in 0..MaxRetries
    BY <1>4, BoundsAssumption DEF StreamOver
  <2> QED
    BY <1>1, <1>2, <1>4, <2>1, OutsideKept DEF Ended
<1> QED
  BY <1>3, <1>4 DEF StreamFails

LEMMA StreamRetriesKept ==
  ASSUME Inv, StreamRetries
  PROVE  Inv'
<1>1. /\ run.phase = "backoff" /\ run.phase \notin ToolPhases /\ run.iteration < MaxIterations
      /\ run' = [run EXCEPT !.phase = "streaming"] /\ attempt' = attempt + 1
      /\ UNCHANGED <<scene, exchanges, alive, approved, withdrawn, executed, consentVars>>
  BY DEF StreamRetries, history, conversation, Inv, Types, RunFormed, ToolPhases, CallPhases
<1>2. attempt' \in 0..MaxRetries
  BY <1>1, BoundsAssumption DEF Inv, Types, ControlTypes, RunFormed, AnotherAttempt
<1>3. "streaming" \in Phases \ ToolPhases
  BY DEF Phases, ToolPhases, CallPhases
<1> QED
  BY <1>1, <1>2, <1>3, OutsideKept

LEMMA StreamAnswersKept ==
  ASSUME Inv, StreamAnswers
  PROVE  Inv'
<1>1. /\ run.phase = "streaming" /\ run.phase \notin CallPhases /\ run.iteration < MaxIterations
      /\ run \in RunRecord /\ run.exchange = 0 /\ run.results = <<>> /\ run.kind \in Kinds
      /\ run' = NextIteration \/ run' = Ended
      /\ StreamOver
      /\ UNCHANGED <<scene, exchanges, alive, approved, withdrawn, executed, consentVars>>
  BY DEF StreamAnswers, history, Inv, Types, ControlTypes, RunFormed, RunRecord, ToolPhases,
         CallPhases
<1>3. attempt' \in 0..MaxRetries
  BY <1>1, BoundsAssumption DEF StreamOver
<1>4. "retiring" \in Phases \ ToolPhases /\ "iterating" \in Phases \ ToolPhases
  BY DEF Phases, ToolPhases, CallPhases
<1>5. CASE run' = NextIteration
  <2>1. RunIs("iterating", run.iteration + 1, 0, 0, 0, <<>>)
    BY <1>1, <1>5, IterationUpdate
  <2> QED
    BY <1>1, <1>3, <1>4, <2>1, OutsideReached
<1>6. CASE run' = Ended
  <2>1. RunIs("retiring", run.iteration, 0, run.calls, run.next, <<>>)
    BY <1>1, <1>4, <1>6, PhaseUpdate DEF Ended
  <2> QED
    BY <1>1, <1>3, <1>4, <2>1, OutsideReached
<1> QED
  BY <1>1, <1>5, <1>6

LEMMA StreamCallsKept ==
  ASSUME Inv, NEW n \in 1..MaxCalls, StreamCalls(n)
  PROVE  Inv'
<1> DEFINE e == exchanges + 1
<1>1. /\ run.phase = "streaming" /\ run.phase \notin CallPhases /\ run.iteration < MaxIterations
      /\ run \in RunRecord /\ run.results = <<>> /\ exchanges < scene.exchanges
      /\ scene \in Scenes /\ exchanges' = e
      /\ run' = [run EXCEPT !.phase = "calling", !.exchange = e, !.calls = n, !.next = 1]
      /\ StreamOver
      /\ UNCHANGED <<scene, alive, approved, withdrawn, executed, consentVars>>
  BY DEF StreamCalls, Message, history, Inv, Types, ControlTypes, RunFormed, ToolPhases,
         CallPhases
<1>2. exchanges \in Nat /\ e \in 1..MaxExchanges
  BY <1>1, ExchangesType, ScenesAssumption, BoundsAssumption DEF Scene, Inv
<1> HIDE DEF e
<1>6. RunIs("calling", run.iteration, e, n, 1, <<>>)
  <2>1. e \in 0..MaxExchanges
    BY <1>2
  <2>2. run \in RunRecord /\ run.results = <<>>
    BY <1>1
  <2>3. RunIs("calling", run.iteration, e, n, 1, run.results)
    BY <1>1, <2>1, <2>2, CallsUpdate
  <2> QED
    BY <2>2, <2>3
<1>7. attempt' \in 0..MaxRetries
  BY <1>1, BoundsAssumption DEF StreamOver
<1>8. ControlTypes'
  BY <1>1, <1>2, <1>6, <1>7, ControlKept DEF RunIs, Inv, Types
<1>9. e = exchanges + 1
  BY DEF e
<1>10. RunFormed'
  BY <1>1, <1>2, <1>6, <1>9 DEF RunIs, RunFormed, ToolPhases, CallPhases
<1>11. ApprovalInv'
  <2>1. run'.phase \notin CallPhases /\ run'.exchange = exchanges + 1
    BY <1>6, <1>9 DEF RunIs, CallPhases
  <2>2. exchanges' \in Nat /\ exchanges' >= exchanges
    BY <1>1, <1>2, <1>9
  <2> QED
    BY <1>1, <2>1, <2>2, QuietKept DEF Inv
<1> QED
  BY <1>7, <1>8, <1>10, <1>11 DEF Inv, Types

LEMMA StoreResultsKept ==
  ASSUME Inv, StoreResults
  PROVE  Inv'
<1>1. /\ run.phase = "calling" /\ run.phase \notin CallPhases
      /\ run \in RunRecord /\ run.iteration < MaxIterations /\ run' = NextIteration
      /\ UNCHANGED <<scene, attempt, exchanges, alive, approved, withdrawn, executed,
                     consentVars>>
  BY DEF StoreResults, history, Inv, Types, ControlTypes, RunFormed, ToolPhases, CallPhases
<1>2. RunIs("iterating", run.iteration + 1, 0, 0, 0, <<>>)
  BY <1>1, IterationUpdate
<1>3. attempt' \in 0..MaxRetries
  BY <1>1 DEF Inv, Types, ControlTypes
<1>4. "iterating" \in Phases \ ToolPhases
  BY DEF Phases, ToolPhases, CallPhases
<1> QED
  BY <1>1, <1>2, <1>3, <1>4, OutsideReached

LEMMA RetiredKept ==
  ASSUME Inv, Retired
  PROVE  Inv'
<1>1. /\ run.phase = "retiring" /\ run.phase \notin CallPhases /\ run' = Idle
      /\ alive' = TRUE
      /\ UNCHANGED <<scene, attempt, exchanges, approved, withdrawn, executed, consentVars>>
  BY DEF Retired, history, conversation, CallPhases
<1>2. RunIs("idle", 0, 0, 0, 0, <<>>)
  BY <1>1, BoundsAssumption DEF RunIs, Idle, RunRecord, Phases, Kinds
<1>3. attempt' \in 0..MaxRetries
  BY <1>1 DEF Inv, Types, ControlTypes
<1>4. "idle" \in Phases \ ToolPhases
  BY DEF Phases, ToolPhases, CallPhases
<1> QED
  BY <1>1, <1>2, <1>3, <1>4, OutsideReached

-----------------------------------------------------------------------------
(* Steps of a call.                                                        *)

\* A call has its result, or goes on.
LEMMA CallTypes ==
  ASSUME Inv, run.phase \in CallPhases \/ Calling,
         \/ RunIs("calling", run.iteration, run.exchange, run.calls, run.next + 1,
                  Append(run.results, run.next))
         \/ \E phase \in CallPhases :
              RunIs(phase, run.iteration, run.exchange, run.calls, run.next, run.results),
         UNCHANGED <<scene, attempt, exchanges>>, alive' \in BOOLEAN, ConsentTypeOK',
         approved' \subseteq Calls, withdrawn' \subseteq Calls, executed' \subseteq Calls
  PROVE  Types' /\ exchanges' = exchanges
<1>1. /\ run.phase \in ToolPhases /\ run.phase \notin {"idle", "iterating", "retiring"}
      /\ run.next <= run.calls
  BY DEF Inv, Types, RunFormed, ToolPhases, CallPhases, Calling
<1>2. /\ run.iteration < MaxIterations /\ run.exchange = exchanges /\ run.exchange >= 1
      /\ Len(run.results) + 1 = run.next /\ run.results \in Seq(1..MaxCalls)
      /\ run.next \in 1..MaxCalls /\ run.calls \in 0..MaxCalls
  BY <1>1, AtCall DEF Inv, Types, ControlTypes, RunFormed, RunRecord
<1>4. run' \in RunRecord
  BY DEF RunIs
<1>5. ControlTypes'
  BY <1>4 DEF Inv, Types, ControlTypes
<1>6. RunFormed'
  <2>1. CASE RunIs("calling", run.iteration, run.exchange, run.calls, run.next + 1,
                   Append(run.results, run.next))
    <3>1. Len(Append(run.results, run.next)) = Len(run.results) + 1
      BY <1>2
    <3>2. run.next + 1 <= run.calls + 1
      BY <1>1, <1>2, BoundsAssumption
    <3> QED
      BY <1>2, <2>1, <3>1, <3>2 DEF RunIs, RunFormed, ToolPhases, CallPhases
  <2>2. ASSUME NEW phase \in CallPhases,
               RunIs(phase, run.iteration, run.exchange, run.calls, run.next, run.results)
        PROVE  RunFormed'
    <3>1. run.next <= run.calls + 1
      BY <1>1, <1>2, BoundsAssumption
    <3> QED
      BY <1>1, <1>2, <2>2, <3>1 DEF RunIs, RunFormed, ToolPhases, CallPhases
  <2> QED
    BY <2>1, <2>2
<1> QED
  BY <1>5, <1>6 DEF Types

\* The call has its result.
LEMMA DoneKept ==
  ASSUME Inv, run.phase \in CallPhases \/ Calling, NEW kind \in Kinds,
         run' = Skipped \/ run' = Answered(kind),
         UNCHANGED <<scene, attempt, exchanges, executed>>, alive' \in BOOLEAN, ConsentTypeOK',
         FramesApproved', approved \subseteq approved', approved' \subseteq Calls,
         WithdrawnNow, \A c \in Calls : ~Unanswered(c)'
  PROVE  Inv'
<1>1. /\ This \in Calls /\ run.next \in 1..MaxCalls /\ run \in RunRecord
      /\ withdrawn \subseteq Calls /\ executed \subseteq Calls
  BY AtCall DEF Inv, Types, ControlTypes
<1>2. RunIs("calling", run.iteration, run.exchange, run.calls, run.next + 1,
            Append(run.results, run.next))
  BY <1>1, ResultUpdate
<1>3. withdrawn' \subseteq Calls
  BY <1>1 DEF WithdrawnNow
<1>4. Types' /\ exchanges' = exchanges
  BY <1>1, <1>2, <1>3, CallTypes
<1>5. ApprovalInv'
  BY <1>2, <1>4, CallDone DEF Inv
<1> QED
  BY <1>4, <1>5 DEF Inv

\* The call is asked for.
LEMMA EnteredKept ==
  ASSUME Inv, Calling \/ run.phase = "supervising", NEW kind \in Kinds,
         NEW phase \in {"supervising", "asking", "consenting"},
         run' = [run EXCEPT !.phase = phase, !.kind = kind],
         UNCHANGED <<scene, attempt, exchanges, alive, approved, withdrawn, executed>>,
         ConsentTypeOK', FramesApproved', AskedNow'
  PROVE  Inv'
<1>1. run \in RunRecord /\ phase \in Phases /\ phase \in CallPhases
  BY DEF Inv, Types, ControlTypes, Phases, CallPhases
<1>2. RunIs(phase, run.iteration, run.exchange, run.calls, run.next, run.results)
  BY <1>1, PhaseUpdate
<1>3. run.phase \in CallPhases \/ Calling
  BY DEF CallPhases
<1>4. Types' /\ exchanges' = exchanges
  <2>1. /\ alive' \in BOOLEAN
        /\ approved' \subseteq Calls /\ withdrawn' \subseteq Calls /\ executed' \subseteq Calls
    BY DEF Inv, Types, ControlTypes
  <2> QED
    BY <1>1, <1>2, <1>3, <2>1, CallTypes
<1>5. ApprovalInv'
  BY <1>2, <1>4, CallEntered DEF Inv
<1> QED
  BY <1>4, <1>5 DEF Inv

\* Outside "consenting" the ledger waits for nothing.
LEMMA NothingAsked ==
  ASSUME Inv, run.phase # "consenting"
  PROVE  \A c \in Calls : ~Unanswered(c)
  BY DEF Inv, ApprovalInv, AskedNow

LEMMA ConsentSame ==
  ASSUME Inv, UNCHANGED consentVars, approved \subseteq approved'
  PROVE  ConsentTypeOK' /\ FramesApproved' /\ \A c \in Calls : Unanswered(c)' <=> Unanswered(c)
  BY DEF Inv, Types, ControlTypes, ApprovalInv, ConsentTypeOK, FramesApproved, Unanswered,
         consentVars

LEMMA AskUserKept ==
  ASSUME Inv, Calling \/ run.phase = "supervising", NEW kind \in Kinds, AskUser(kind),
         UNCHANGED <<scene, attempt, exchanges, alive, approved, withdrawn, executed>>
  PROVE  Inv'
<1>1. /\ run.phase \in CallPhases \/ Calling
      /\ run.phase # "consenting" /\ run.phase \in ToolPhases
  BY DEF CallPhases, ToolPhases, Calling
<1>2. This \in Calls /\ run \in RunRecord /\ alive \in BOOLEAN /\ approved \subseteq Calls
  BY <1>1, AtCall DEF Inv, Types, ControlTypes
<1>3. \A c \in Calls : ~Unanswered(c)
  BY <1>1, NothingAsked
<1>4. CASE /\ run' = [run EXCEPT !.phase = "asking", !.kind = kind]
           /\ UNCHANGED consentVars
  <2>1. ConsentTypeOK' /\ FramesApproved' /\ \A c \in Calls : ~Unanswered(c)'
    BY <1>3, <1>4, ConsentSame
  <2>2. run'.phase = "asking"
    BY <1>2, <1>4 DEF RunRecord
  <2>3. AskedNow'
    BY <2>1, <2>2 DEF AskedNow
  <2> QED
    BY <1>4, <2>1, <2>3, EnteredKept
<1>5. CASE /\ RequestConsent(This)
           /\ run' = IF entry'[This].state = "refused" THEN Skipped
                       ELSE [run EXCEPT !.phase = "consenting", !.kind = kind]
  <2> DEFINE t == This
  <2>1. /\ ConsentTypeOK' /\ FramesApproved'
        /\ \A c \in Calls : c # t => entry'[c] = entry[c]
        /\ entry'[t].state \in {"pending", "refused"}
    <3>1. t \in Calls /\ RequestConsent(t)
      BY <1>2, <1>5
    <3> HIDE DEF t
    <3> QED
      BY <3>1, RequestKept DEF Inv, Types, ControlTypes, ApprovalInv
  <2>2. \A c \in Calls : c # t => ~Unanswered(c)'
    BY <1>3, <2>1 DEF Unanswered
  <2>3. CASE entry'[t].state = "refused"
    <3>1. \A c \in Calls : ~Unanswered(c)'
      BY <2>2, <2>3 DEF Unanswered
    <3>2. run' = Skipped
      BY <1>5, <2>3
    <3>3. WithdrawnNow
      BY DEF WithdrawnNow
    <3>4. /\ alive' \in BOOLEAN /\ executed' = executed
          /\ approved \subseteq approved' /\ approved' \subseteq Calls
      BY <1>2
    <3> QED
      BY <1>1, <2>1, <3>1, <3>2, <3>3, <3>4, DoneKept
  <2>4. CASE entry'[t].state = "pending"
    <3>1. run' = [run EXCEPT !.phase = "consenting", !.kind = kind]
      BY <1>5, <2>4
    <3>2. run'.phase = "consenting" /\ This' = t
      BY <1>2, <3>1 DEF RunRecord, This
    <3>3. AskedNow'
      BY <2>2, <2>4, <3>2 DEF AskedNow, Unanswered
    <3> QED
      BY <2>1, <3>1, <3>3, EnteredKept
  <2> QED
    BY <2>1, <2>3, <2>4
<1> QED
  BY <1>4, <1>5 DEF AskUser

\* The call is executed, if it may be.
LEMMA ExecutedKept ==
  ASSUME Inv, run.phase \in CallPhases \/ Calling, run.phase # "executing",
         NEW kind \in Kinds,
         \/ run' = [run EXCEPT !.phase = "executing"]
         \/ run' = [run EXCEPT !.phase = "executing", !.kind = kind],
         UNCHANGED <<scene, attempt, exchanges, alive, withdrawn>>,
         approved \subseteq approved', approved' \subseteq Calls,
         \/ executed' = executed
         \/ executed' = executed \cup {This} /\ This \in approved',
         ~Barred(This), ConsentTypeOK', FramesApproved', \A c \in Calls : ~Unanswered(c)'
  PROVE  Inv'
<1>1. /\ This \in Calls /\ run \in RunRecord /\ executed \subseteq Calls
      /\ withdrawn' \subseteq Calls /\ alive' \in BOOLEAN
  BY AtCall DEF Inv, Types, ControlTypes
<1>2. RunIs("executing", run.iteration, run.exchange, run.calls, run.next, run.results)
  BY <1>1, PhaseUpdate DEF Phases
<1>3. executed' \subseteq Calls /\ "executing" \in CallPhases
  BY <1>1 DEF CallPhases
<1>4. Types' /\ exchanges' = exchanges
  BY <1>1, <1>2, <1>3, CallTypes
<1>5. ApprovalInv'
  BY <1>2, <1>4, CallExecuted DEF Inv
<1> QED
  BY <1>4, <1>5 DEF Inv

LEMMA SkipCallKept ==
  ASSUME Inv, SkipCall
  PROVE  Inv'
<1>1. /\ Calling /\ run' = Skipped /\ "plain" \in Kinds
      /\ UNCHANGED <<scene, attempt, exchanges, alive, approved, withdrawn, executed, consentVars>>
  BY DEF SkipCall, history, conversation, Kinds
<1>2. \A c \in Calls : ~Unanswered(c)
  BY <1>1, NothingAsked DEF Calling
<1>3. ConsentTypeOK' /\ FramesApproved' /\ \A c \in Calls : ~Unanswered(c)'
  BY <1>1, <1>2, ConsentSame
<1>4. WithdrawnNow /\ alive' \in BOOLEAN /\ approved' \subseteq Calls
  BY <1>1 DEF WithdrawnNow, Inv, Types, ControlTypes
<1> QED
  BY <1>1, <1>3, <1>4, DoneKept

LEMMA CallToolKept ==
  ASSUME Inv, NEW kind \in Kinds, CallTool(kind)
  PROVE  Inv'
<1>1. /\ Calling /\ run' = [run EXCEPT !.phase = "supervising", !.kind = kind]
      /\ UNCHANGED <<scene, attempt, exchanges, alive, approved, withdrawn, executed,
                     consentVars>>
  BY DEF CallTool, conversation, history
<1>2. \A c \in Calls : ~Unanswered(c)
  BY <1>1, NothingAsked DEF Calling
<1>3. ConsentTypeOK' /\ FramesApproved' /\ \A c \in Calls : ~Unanswered(c)'
  BY <1>1, <1>2, ConsentSame
<1>4. run'.phase = "supervising"
  BY <1>1 DEF Inv, Types, ControlTypes, RunRecord
<1>5. AskedNow'
  BY <1>3, <1>4 DEF AskedNow
<1> QED
  BY <1>1, <1>3, <1>5, EnteredKept

LEMMA SupervisedKept ==
  ASSUME Inv, Supervised
  PROVE  Inv'
<1> DEFINE kind == run.kind
<1>1. /\ run.phase = "supervising" /\ run.phase \in CallPhases
      /\ run \in RunRecord /\ kind \in Kinds /\ approved' \subseteq Calls
      /\ UNCHANGED <<scene, attempt, exchanges, alive, approved, withdrawn>>
  BY DEF Supervised, conversation, CallPhases, Inv, Types, ControlTypes, RunRecord
<1>2. ASSUME UNCHANGED consentVars
      PROVE  ConsentTypeOK' /\ FramesApproved' /\ \A c \in Calls : ~Unanswered(c)'
  BY <1>1, <1>2, NothingAsked, ConsentSame
<1>3. \/ run' = Skipped /\ UNCHANGED <<executed, consentVars>>
      \/ AskUser(kind) /\ UNCHANGED executed
      \/ kind \notin Approvable /\ Execute(kind) /\ UNCHANGED consentVars
  BY DEF Supervised
<1> HIDE DEF kind
<1>4. CASE run' = Skipped /\ UNCHANGED <<executed, consentVars>>
  <2>1. WithdrawnNow /\ alive' \in BOOLEAN
    BY <1>1 DEF WithdrawnNow, Inv, Types, ControlTypes
  <2> QED
    BY <1>1, <1>2, <1>4, <2>1, DoneKept
<1>5. CASE AskUser(kind) /\ UNCHANGED executed
  BY <1>1, <1>5, AskUserKept
<1>6. CASE kind \notin Approvable /\ Execute(kind) /\ UNCHANGED consentVars
  <2>1. run' = [run EXCEPT !.phase = "executing", !.kind = kind] /\ executed' = executed
    BY <1>6 DEF Execute
  <2>2. ~Barred(This)
    BY <1>1 DEF Barred
  <2> QED
    BY <1>1, <1>2, <1>6, <2>1, <2>2, ExecutedKept
<1> QED
  BY <1>3, <1>4, <1>5, <1>6

\* The run is not disturbed, and consent is not either.
LEMMA ApartKept ==
  ASSUME Inv, UNCHANGED <<run, scene, attempt, exchanges, alive, withdrawn, executed, consentVars>>,
         approved \subseteq approved', approved' \subseteq Calls
  PROVE  Inv'
<1>1. /\ ConsentTypeOK' /\ FramesApproved'
      /\ \A c \in Calls : Unanswered(c)' <=> Unanswered(c)
  BY ConsentSame
<1>3. Types'
  BY <1>1 DEF Inv, Types, ControlTypes, RunFormed, AnotherAttempt
<1>5. ApprovalInv'
  <2>1. run.phase = "consenting" => \A c \in Calls : c = This => Unanswered(c)'
    BY <1>1 DEF Inv, ApprovalInv, AskedNow
  <2>2. \A c \in withdrawn : Left(c) \/ Barred(c)'
    BY DEF Inv, ApprovalInv, WithdrawnForGood, Barred, consentVars
  <2>3. WithdrawnNow
    BY DEF WithdrawnNow
  <2> QED
    BY <1>1, <2>1, <2>2, <2>3, RunStays DEF Inv
<1> QED
  BY <1>3, <1>5 DEF Inv

\* The question of a call is answered, by the user or by the time.
LEMMA QuestionKept ==
  ASSUME Inv, NEW c \in Calls, NEW yes \in BOOLEAN, QuestionOver(c, yes),
         approved' = IF yes THEN approved \cup {c} ELSE approved
  PROVE  Inv'
<1>1. /\ run \in RunRecord /\ run.kind \in Kinds /\ alive' \in BOOLEAN
      /\ approved \subseteq approved' /\ approved' \subseteq Calls
      /\ yes => c \in approved'
      /\ UNCHANGED <<scene, attempt, exchanges, alive, withdrawn, consentVars>>
  BY DEF QuestionOver, conversation, Inv, Types, ControlTypes, RunRecord
<1>2. ASSUME run.phase # "consenting"
      PROVE  ConsentTypeOK' /\ FramesApproved' /\ \A d \in Calls : ~Unanswered(d)'
  <2>1. \A d \in Calls : ~Unanswered(d)
    BY <1>2, NothingAsked
  <2> QED
    BY <1>1, <2>1, ConsentSame
<1>3. WithdrawnNow
  BY <1>1 DEF WithdrawnNow
<1>4. CASE /\ run.phase = "asking" /\ c = This /\ yes /\ Usable(c)
           /\ Execute(run.kind)
  <2> DEFINE kind == run.kind
  <2>0. /\ run' = [run EXCEPT !.phase = "executing", !.kind = kind] /\ kind \in Kinds
        /\ \/ executed' = executed
           \/ executed' = executed \cup {This} /\ This \in approved'
    BY <1>1, <1>4 DEF Execute
  <2> HIDE DEF kind
  <2>1. run.phase \in CallPhases /\ run.phase # "executing" /\ ~Barred(This)
    BY <1>4 DEF CallPhases, Barred, Usable
  <2>2. ConsentTypeOK' /\ FramesApproved' /\ \A d \in Calls : ~Unanswered(d)'
    BY <1>2, <1>4
  <2> QED
    BY <1>1, <1>4, <2>0, <2>1, <2>2, ExecutedKept
<1>5. CASE run.phase = "asking" /\ c = This /\ run' = Skipped /\ executed' = executed
  <2>1. run.phase \in CallPhases
    BY <1>5 DEF CallPhases
  <2>2. ConsentTypeOK' /\ FramesApproved' /\ \A d \in Calls : ~Unanswered(d)'
    BY <1>2, <1>5
  <2> QED
    BY <1>1, <1>3, <1>5, <2>1, <2>2, DoneKept
<1>6. CASE run.phase = "executing" /\ run' = Answered(run.kind) /\ executed' = executed
  <2>1. run.phase \in CallPhases
    BY <1>6 DEF CallPhases
  <2>2. ConsentTypeOK' /\ FramesApproved' /\ \A d \in Calls : ~Unanswered(d)'
    BY <1>2, <1>6
  <2> QED
    BY <1>1, <1>3, <1>6, <2>1, <2>2, DoneKept
<1>7. CASE UNCHANGED <<run, executed>>
  BY <1>1, <1>7, ApartKept
<1> QED
  BY <1>4, <1>5, <1>6, <1>7 DEF QuestionOver

\* The tool's result, or that of its time limit.
LEMMA ToolKept ==
  ASSUME Inv, ToolEnds \/ ToolTimesOut
  PROVE  Inv'
<1>1. /\ run.phase = "executing" /\ run.phase \in CallPhases
      /\ run' = Answered(run.kind) /\ run.kind \in Kinds
      /\ UNCHANGED <<scene, attempt, exchanges, alive, approved, withdrawn, executed, consentVars>>
  BY DEF ToolEnds, ToolTimesOut, conversation, history, CallPhases, Inv, Types, ControlTypes,
         RunRecord
<1>2. \A c \in Calls : ~Unanswered(c)
  BY <1>1, NothingAsked
<1>3. ConsentTypeOK' /\ FramesApproved' /\ \A c \in Calls : ~Unanswered(c)'
  BY <1>1, <1>2, ConsentSame
<1>4. WithdrawnNow /\ alive' \in BOOLEAN /\ approved' \subseteq Calls
  BY <1>1 DEF WithdrawnNow, Inv, Types, ControlTypes
<1> QED
  BY <1>1, <1>3, <1>4, DoneKept

-----------------------------------------------------------------------------
(* Around the run.                                                         *)

\* The types when the run stays.
LEMMA StaysTypes ==
  ASSUME Inv, UNCHANGED <<run, scene, attempt, exchanges>>, alive' \in BOOLEAN,
         ConsentTypeOK',
         approved' \subseteq Calls, withdrawn' \subseteq Calls, executed' \subseteq Calls
  PROVE  Types' /\ exchanges' = exchanges
  BY DEF Inv, Types, ControlTypes, RunFormed, AnotherAttempt

LEMMA ReplaceKept ==
  ASSUME Inv, ReplaceRuntime
  PROVE  Inv'
<1>1. /\ alive' \in IF run.phase = "idle" THEN {TRUE} ELSE {alive, FALSE}
      /\ withdrawn' = IF ~alive' /\ run.phase \in {"asking", "consenting"}
                        THEN withdrawn \cup {This} ELSE withdrawn
      /\ UNCHANGED <<scene, run, attempt, exchanges, approved, executed, consentVars>>
  BY DEF ReplaceRuntime
<1>2. /\ ConsentTypeOK' /\ FramesApproved'
      /\ \A c \in Calls : Unanswered(c)' <=> Unanswered(c)
  BY <1>1, ConsentSame
<1>3. WithdrawnNow
  BY <1>1 DEF WithdrawnNow
<1>4. Types' /\ exchanges' = exchanges
  <2>1. withdrawn' \subseteq Calls
    BY <1>1, AtCall DEF CallPhases, Inv, Types, ControlTypes
  <2>2. alive' \in BOOLEAN /\ approved' \subseteq Calls /\ executed' \subseteq Calls
    BY <1>1 DEF Inv, Types, ControlTypes
  <2> QED
    BY <1>1, <1>2, <2>1, <2>2, StaysTypes
<1>5. ApprovalInv'
  <2>1. run.phase = "consenting" => \A c \in Calls : c = This => Unanswered(c)'
    BY <1>2 DEF Inv, ApprovalInv, AskedNow
  <2>2. ASSUME NEW c \in withdrawn', c = This, run.phase \in {"asking", "consenting"}
        PROVE  Left(c) \/ Barred(c)'
    <3>1. CASE ~alive'
      BY <1>1, <2>2, <3>1 DEF Barred
    <3>2. CASE alive'
      <4>1. c \in withdrawn /\ alive
        BY <1>1, <2>2, <3>2 DEF Inv, Types, ControlTypes
      <4> QED
        BY <1>1, <4>1 DEF Inv, ApprovalInv, WithdrawnForGood, Barred, consentVars
    <3> QED
      BY <3>1, <3>2
  <2> QED
    BY <1>1, <1>2, <1>3, <1>4, <2>1, <2>2, RunStays DEF Inv
<1> QED
  BY <1>4, <1>5 DEF Inv

\* What a step of consent does to the entry of the run's call.
LEMMA ConsentEffect ==
  ASSUME Inv, ConsentKept, approved \subseteq approved'
  PROVE  /\ \A c \in Calls : Unanswered(c)' => Unanswered(c)
         /\ \A c \in Calls : c # This \/ run.phase # "consenting" => ~Unanswered(c)'
         /\ run.phase = "consenting" =>
              /\ This \in Calls
              /\ \/ Unanswered(This) /\ entry'[This].state \in {"pending", "withdrawn"}
                 \/ entry'[This].state = "refused"
                 \/ /\ entry[This].state = "pending" /\ entry'[This].state = "granted"
                    /\ alive /\ This \in approved' /\ gate' = gate
<1>1. \A c \in Calls : EntryStep(c)
  BY DEF ConsentKept
<1>2. /\ \A c \in Calls : Unanswered(c) => run.phase = "consenting" /\ c = This
      /\ run.phase = "consenting" => Unanswered(This)
  BY DEF Inv, ApprovalInv, AskedNow
<1>3. run.phase = "consenting" => This \in Calls
  BY AtCall DEF Inv, CallPhases
<1>4. \A c \in Calls : Unanswered(c)' => Unanswered(c)
  BY <1>1 DEF EntryStep, Unanswered
<1> QED
  BY <1>1, <1>2, <1>3, <1>4 DEF EntryStep, Unanswered, Current

LEMMA ConsentActionKept ==
  ASSUME Inv, Consent
  PROVE  Inv'
<1>1. /\ run \in RunRecord /\ alive' \in BOOLEAN /\ "plain" \in Kinds
      /\ withdrawn \subseteq Calls /\ executed \subseteq Calls /\ approved \subseteq Calls
      /\ ConsentTypeOK /\ FramesApproved
      /\ UNCHANGED <<scene, attempt, exchanges, alive>>
  BY DEF Consent, conversation, Inv, Types, ControlTypes, ApprovalInv, Kinds
<1>2. ConsentKept /\ approved \subseteq approved' /\ approved' \subseteq Calls
  <2>1. CASE ConsentStep(Current) /\ UNCHANGED approved
    BY <1>1, <2>1, ConsentStepKept
  <2>2. CASE (Invalidate \/ Unregister) /\ UNCHANGED approved
    BY <1>1, <2>2, WithdrawalKept
  <2>3. ASSUME NEW d \in Decisions, DialogCloses(d, Current),
               approved' = IF d = "approve" THEN approved \cup {dialog} ELSE approved
        PROVE  ConsentKept /\ approved \subseteq approved' /\ approved' \subseteq Calls
    <3>1. dialog \in Calls
      BY <1>1, <2>3 DEF DialogCloses, ConsentTypeOK
    <3>2. ConsentKept
      BY <1>1, <2>3, DialogKept
    <3> QED
      BY <1>1, <2>3, <3>1, <3>2
  <2> QED
    BY <2>1, <2>2, <2>3 DEF Consent
<1>3. ConsentTypeOK' /\ FramesApproved'
  BY <1>2 DEF ConsentKept
<1>4. /\ withdrawn' = IF gate'.generation = gate.generation THEN withdrawn
                        ELSE withdrawn \cup {c \in Calls : entry[c].state = "pending"}
      /\ \A c \in Calls : entry[c].state = "pending" => run.phase = "consenting" /\ c = This
  BY DEF Consent, Inv, ApprovalInv, AskedNow, Unanswered
<1>5. WithdrawnNow /\ withdrawn' \subseteq Calls
  BY <1>1, <1>4 DEF WithdrawnNow
<1>6. CASE /\ run.phase = "consenting" /\ entry'[This].state = "granted"
           /\ run' = [run EXCEPT !.phase = "executing"] /\ executed' = executed \cup {This}
  <2>1. /\ This \in Calls /\ entry[This].state = "pending" /\ alive /\ This \in approved'
        /\ gate' = gate
    BY <1>2, <1>6, ConsentEffect
  <2>2. withdrawn' = withdrawn
    BY <1>4, <2>1
  <2>3. ~Barred(This)
    BY <1>6, <2>1 DEF Barred
  <2>4. \A c \in Calls : ~Unanswered(c)'
    <3>1. \A c \in Calls : c # This => ~Unanswered(c)'
      BY <1>2, ConsentEffect
    <3>2. \A c \in Calls : c = This => ~Unanswered(c)'
      BY <1>6 DEF Unanswered
    <3> QED
      BY <3>1, <3>2
  <2>5. run.phase \in CallPhases /\ run.phase # "executing"
    BY <1>6 DEF CallPhases
  <2> QED
    BY <1>1, <1>2, <1>3, <1>6, <2>1, <2>2, <2>3, <2>4, <2>5, ExecutedKept
<1>7. CASE /\ run.phase = "consenting" /\ entry'[This].state = "refused"
           /\ run' = Skipped /\ executed' = executed
  <2>1. \A c \in Calls : ~Unanswered(c)'
    <3>1. \A c \in Calls : c # This => ~Unanswered(c)'
      BY <1>2, ConsentEffect
    <3>2. \A c \in Calls : c = This => ~Unanswered(c)'
      BY <1>7 DEF Unanswered
    <3> QED
      BY <3>1, <3>2
  <2>2. run.phase \in CallPhases
    BY <1>7 DEF CallPhases
  <2> QED
    BY <1>1, <1>2, <1>3, <1>5, <1>7, <2>1, <2>2, DoneKept
<1>8. CASE /\ ~(run.phase = "consenting" /\ entry'[This].state \in {"granted", "refused"})
           /\ UNCHANGED <<run, executed>>
  <2>1. Types' /\ exchanges' = exchanges
    <3>1. executed' \subseteq Calls
      BY <1>1, <1>8
    <3> QED
      BY <1>1, <1>2, <1>3, <1>5, <1>8, <3>1, StaysTypes
  <2>2. \A c \in Calls : Unanswered(c)' => Unanswered(c)
    BY <1>2, ConsentEffect
  <2>3. run.phase = "consenting" => entry'[This].state \in {"pending", "withdrawn"}
    BY <1>2, <1>8, ConsentEffect
  <2>4. run.phase = "consenting" => \A c \in Calls : c = This => Unanswered(c)'
    BY <2>3 DEF Unanswered
  <2>5. ASSUME NEW c \in withdrawn', c = This, run.phase \in {"asking", "consenting"}
        PROVE  Left(c) \/ Barred(c)'
    <3>0. c \in Calls /\ EntryStep(c)
      BY <1>2, <1>5 DEF ConsentKept
    <3>1. CASE c \in withdrawn
      <4>1. Left(c) \/ Barred(c)
        BY <3>1 DEF Inv, ApprovalInv, WithdrawnForGood
      <4>2. Barred(c) => Barred(c)'
        BY <1>1, <1>8, <2>3, <2>5, <3>0 DEF Barred, EntryStep
      <4> QED
        BY <4>1, <4>2
    <3>2. CASE c \notin withdrawn
      <4>1. gate'.generation # gate.generation /\ run.phase = "consenting"
        BY <1>4, <2>5, <3>2
      <4>2. entry'[c].state # "pending"
        BY <1>2, <3>0, <4>1 DEF ConsentKept
      <4> QED
        BY <1>8, <2>3, <2>5, <4>1, <4>2 DEF Barred
    <3> QED
      BY <3>1, <3>2
  <2>6. ApprovalInv'
    BY <1>2, <1>3, <1>5, <1>8, <2>1, <2>2, <2>4, <2>5, RunStays DEF Inv
  <2> QED
    BY <2>1, <2>6 DEF Inv
<1> QED
  BY <1>6, <1>7, <1>8 DEF Consent

\* Consent when the application starts, the first time or again.
LEMMA StartTypes ==
  /\ [c \in Calls |-> Over("none")] \in [Calls -> Entries] /\ Over("none").state = "none"
  /\ Fresh \in Ends
  /\ \A frames : frames \in {<<>>, <<Frame("hello", None, None)>>} =>
       frames \in Seq(Frames) /\ \A i \in 1..Len(frames) : frames[i].kind = "hello"
<1>1. Over("none") \in Entries /\ Over("none").state = "none" /\ Fresh \in Ends
  BY MaxGenerationAssumption DEF Over, Entries, Fresh, Ends
<1> DEFINE hello == Frame("hello", None, None)
<1>2. hello \in Frames /\ hello.kind = "hello"
  BY FrameTypes DEF Frame
<1> HIDE DEF hello
<1>3. /\ <<hello>> \in Seq(Frames) /\ <<>> \in Seq(Frames)
      /\ \A i \in 1..Len(<<hello>>) : <<hello>>[i].kind = "hello"
      /\ \A i \in 1..Len(<<>>) : <<>>[i].kind = "hello"
  BY <1>2
<1>4. \A frames : frames \in {<<>>, <<hello>>} =>
        frames \in Seq(Frames) /\ \A i \in 1..Len(frames) : frames[i].kind = "hello"
  BY <1>3
<1> QED
  BY <1>1, <1>4 DEF hello

LEMMA CrashKept ==
  ASSUME Inv, Crash
  PROVE  Inv'
<1>1. /\ run' = Idle /\ StreamOver /\ alive' = TRUE
      /\ UNCHANGED <<scene, exchanges, approved, withdrawn, executed>>
  BY DEF Crash
<1>2. gate' \in Gates
  BY MaxGenerationAssumption
  DEF Crash, Gates, Inv, Types, ControlTypes, ConsentTypeOK
<1>3. /\ entry' = [c \in Calls |-> Over("none")] /\ child' = Fresh /\ parent' = Fresh
      /\ toChild' \in {<<>>, <<Frame("hello", None, None)>>} /\ toParent' = <<>>
      /\ dialog' = None
  BY DEF Crash
<1>4. ConsentTypeOK' /\ FramesApproved' /\ \A c \in Calls : ~Unanswered(c)'
  <2>1. /\ toChild' \in Seq(Frames)
        /\ \A i \in 1..Len(toChild') : toChild'[i].kind = "hello"
    BY <1>3, StartTypes
  <2>2. FramesApproved'
    BY <2>1 DEF FramesApproved
  <2>3. \A c \in Calls : ~Unanswered(c)'
    BY <1>3, StartTypes DEF Unanswered
  <2>4. entry' \in [Calls -> Entries] /\ child' \in Ends /\ parent' \in Ends
    BY <1>3, StartTypes
  <2>5. toParent' \in Seq(Frames) /\ dialog' \in Calls \cup {None}
    BY <1>3
  <2> QED
    BY <1>2, <2>1, <2>2, <2>3, <2>4, <2>5 DEF ConsentTypeOK, Gates
<1>5. RunIs("idle", 0, 0, 0, 0, <<>>)
  BY <1>1, BoundsAssumption DEF RunIs, Idle, RunRecord, Phases, Kinds
<1>6. attempt' \in 0..MaxRetries
  BY <1>1, BoundsAssumption DEF StreamOver
<1>7. exchanges' = exchanges /\ exchanges \in Nat
  BY <1>1, ExchangesType DEF Inv
<1>8. Types'
  <2>1. ControlTypes'
    BY <1>1, <1>4, <1>5, <1>6 DEF RunIs, Inv, Types, ControlTypes
  <2>2. "idle" \in Phases \ ToolPhases
    BY DEF Phases, ToolPhases, CallPhases
  <2>3. RunFormed'
    BY <1>5, <2>2, FormedOutside
  <2> QED
    BY <2>1, <2>3 DEF Types
<1>9. ApprovalInv'
  <2>1. ASSUME NEW c \in Calls, Left(c) \/ (c = This /\ run.phase \in CallPhases)
        PROVE  Left(c)'
    <3>1. run.phase \in CallPhases => This[1] = exchanges
      BY AtCall DEF Inv, Types, RunFormed, ToolPhases
    <3>2. c[1] \in Nat /\ c[1] >= 1 /\ c[1] <= exchanges
      BY <1>7, <2>1, <3>1, CallsAssumption, BoundsAssumption DEF Left
    <3> QED
      BY <1>5, <1>7, <3>2 DEF RunIs, Left
  <2>2. WithdrawnNow /\ run'.phase # "consenting"
    BY <1>1, <1>5 DEF WithdrawnNow, RunIs
  <2> QED
    BY <1>1, <1>4, <2>1, <2>2, CallLeft DEF Inv
<1> QED
  BY <1>6, <1>8, <1>9 DEF Inv

-----------------------------------------------------------------------------
(* The specification.                                                      *)

LEMMA InitInv == Init => Inv
<1> SUFFICES ASSUME Init PROVE Inv
  OBVIOUS
<1>1. gate \in Gates
  <2>1. 0 \in 0..MaxGeneration
    BY MaxGenerationAssumption
  <2>2. CASE gate = [mode |-> "packaged", handler |-> TRUE, generation |-> 0]
    BY <2>1, <2>2 DEF Gates
  <2>3. CASE gate = [mode |-> "child", handler |-> FALSE, generation |-> 0]
    BY <2>1, <2>3 DEF Gates
  <2> QED
    BY <2>2, <2>3 DEF Init, ConsentInit
<1>2. /\ entry = [c \in Calls |-> Over("none")] /\ child = Fresh /\ parent = Fresh
      /\ toChild \in {<<>>, <<Frame("hello", None, None)>>} /\ toParent = <<>>
      /\ dialog = None
  BY DEF Init, ConsentInit
<1>3. ConsentTypeOK /\ FramesApproved /\ \A c \in Calls : ~Unanswered(c)
  <2>1. /\ toChild \in Seq(Frames)
        /\ \A i \in 1..Len(toChild) : toChild[i].kind = "hello"
    BY <1>2, StartTypes
  <2>2. FramesApproved
    BY <2>1 DEF FramesApproved
  <2>3. \A c \in Calls : ~Unanswered(c)
    BY <1>2, StartTypes DEF Unanswered
  <2>4. entry \in [Calls -> Entries] /\ child \in Ends /\ parent \in Ends
    BY <1>2, StartTypes
  <2>5. toParent \in Seq(Frames) /\ dialog \in Calls \cup {None}
    BY <1>2
  <2> QED
    BY <1>1, <2>1, <2>2, <2>3, <2>4, <2>5 DEF ConsentTypeOK, Gates
<1>4. run \in RunRecord /\ run.phase = "idle" /\ run.exchange = 0 /\ run.results = <<>>
  BY BoundsAssumption DEF Init, Idle, RunRecord, Phases, Kinds
<1>5. attempt \in 0..MaxRetries /\ exchanges \in 0..MaxExchanges
  BY BoundsAssumption DEF Init
<1>6. ControlTypes
  BY <1>3, <1>4, <1>5 DEF Init, ControlTypes
<1>7. RunFormed
  BY <1>4 DEF RunFormed, ToolPhases, CallPhases
<1>9. ApprovalInv
  BY <1>3, <1>4 DEF Init, ApprovalInv, AskedNow, ExecutedOnce, WithdrawnForGood,
                    ExecutedAsApproved
<1> QED
  BY <1>6, <1>7, <1>9 DEF Inv, Types

LEMMA NextInv == Inv /\ [Next]_vars => Inv'
<1> SUFFICES ASSUME Inv, [Next]_vars PROVE Inv'
  OBVIOUS
<1>1. CASE StartRun BY <1>1, StartRunKept
<1>2. CASE Iterate BY <1>2, IterateKept
<1>3. CASE Compacted BY <1>3, CompactedKept
<1>5. CASE StreamFails BY <1>5, StreamFailsKept
<1>6. CASE StreamRetries BY <1>6, StreamRetriesKept
<1>7. CASE StreamAnswers BY <1>7, StreamAnswersKept
<1>8. CASE \E n \in 1..MaxCalls : StreamCalls(n) BY <1>8, StreamCallsKept
<1>9. CASE SkipCall BY <1>9, SkipCallKept
<1>10. CASE \E kind \in Kinds : CallTool(kind) BY <1>10, CallToolKept
<1>11. CASE Supervised BY <1>11, SupervisedKept
<1>12. ASSUME NEW c \in Calls, NEW yes \in BOOLEAN, SubmitAnswer(c, yes)
       PROVE  Inv'
  BY <1>12, QuestionKept DEF SubmitAnswer
<1>13. ASSUME NEW c \in Calls, QuestionExpires(c)
       PROVE  Inv'
  <2>1. QuestionOver(c, FALSE) /\ approved' = IF FALSE THEN approved \cup {c} ELSE approved
    BY <1>13 DEF QuestionExpires
  <2> QED
    BY <2>1, QuestionKept
<1>14. CASE (\E c \in Calls : QuestionAges(c) \/ ToolLingers(c)) \/ Clear \/ UNCHANGED vars
  <2>1. UNCHANGED <<run, scene, attempt, exchanges, alive, approved, withdrawn, executed,
                    consentVars>>
    BY <1>14 DEF QuestionAges, ToolLingers, Clear, conversation, history, vars
  <2>2. approved' \subseteq Calls
    BY <2>1 DEF Inv, Types, ControlTypes
  <2> QED
    BY <2>1, <2>2, ApartKept
<1>15. CASE ToolEnds \/ ToolTimesOut BY <1>15, ToolKept
<1>16. CASE StoreResults BY <1>16, StoreResultsKept
<1>17. CASE Retired BY <1>17, RetiredKept
<1>18. CASE Consent BY <1>18, ConsentActionKept
<1>19. CASE ReplaceRuntime BY <1>19, ReplaceKept
<1>20. CASE Crash BY <1>20, CrashKept
<1> QED
  BY <1>1, <1>2, <1>3, <1>5, <1>6, <1>7, <1>8, <1>9, <1>10, <1>11, <1>12, <1>13,
     <1>14, <1>15, <1>16, <1>17, <1>18, <1>19, <1>20 DEF Next

\* A call that needs the user's approval is executed only after the user approved that
\* very call, and not when consent was withdrawn or the runtime replaced while the user
\* was asked (agent.ts:260-312, native-process-consent.ts:167-177).
THEOREM ExecutedAsApprovedHolds == Spec => []ExecutedAsApproved
<1>1. Inv => ExecutedAsApproved
  BY DEF Inv, ApprovalInv
<1> QED
  BY InitInv, NextInv, <1>1, PTL DEF Spec

-----------------------------------------------------------------------------
(* Induction, and the selection of messages by their roles.                *)

LEMMA LeastElement ==
  ASSUME NEW T \in SUBSET Nat, T # {}
  PROVE  \E x \in T : \A y \in T : ~(y < x)
<1>1. IsWellFoundedOn(OpToRel(<, Nat), Nat)
  BY NatLessThanWellFounded
<1>2. PICK x \in T : \A y \in T : ~(<<y, x>> \in OpToRel(<, Nat))
  BY <1>1, WFMin
<1> QED
  BY <1>2 DEF OpToRel

LEMMA SetInduction ==
  ASSUME NEW T, 0 \in T, \A n \in Nat : n \in T => n + 1 \in T
  PROVE  Nat \subseteq T
<1> SUFFICES ASSUME Nat \ T # {} PROVE FALSE
  OBVIOUS
<1>1. PICK x \in Nat \ T : \A y \in Nat \ T : ~(y < x)
  BY LeastElement
<1>2. x # 0 /\ x - 1 \in Nat /\ x - 1 < x
  BY <1>1
<1>3. x - 1 \in T
  BY <1>1, <1>2
<1>4. x - 1 + 1 \in T
  BY <1>2, <1>3
<1> QED
  BY <1>1, <1>2, <1>4

LEMMA Part ==
  ASSUME NEW S, NEW s \in Seq(S), NEW m \in 1..(Len(s) + 1), NEW n \in 0..Len(s)
  PROVE  /\ SubSeq(s, m, n) \in Seq(S)
         /\ Len(SubSeq(s, m, n)) = IF m <= n THEN n - m + 1 ELSE 0
         /\ \A i \in 1..(n - m + 1) : SubSeq(s, m, n)[i] = s[m + i - 1]
<1>1. m \in Int /\ n \in Int /\ \A i \in m..n : s[i] \in S
  OBVIOUS
<1> QED
  BY <1>1, SubSeqProperties

\* A nonempty sequence is what is before its last element, and this element.
LEMMA LastAppended ==
  ASSUME NEW S, NEW s \in Seq(S), s # <<>>
  PROVE  /\ Front(s) \in Seq(S) /\ Last(s) \in S
         /\ Len(Front(s)) = Len(s) - 1 /\ Len(s) >= 1
         /\ s = Append(Front(s), Last(s))
         /\ \A i \in 1..(Len(s) - 1) : Front(s)[i] = s[i]
<1>1. Len(s) \in Nat /\ Len(s) >= 1
  OBVIOUS
<1>2. /\ Front(s) \in Seq(S) /\ Len(Front(s)) = Len(s) - 1
      /\ \A i \in 1..(Len(s) - 1) : Front(s)[i] = s[i]
  <2>1. 1 \in 1..(Len(s) + 1) /\ Len(s) - 1 \in 0..Len(s)
    BY <1>1
  <2>2. /\ Front(s) \in Seq(S)
        /\ Len(Front(s)) = IF 1 <= Len(s) - 1 THEN Len(s) - 1 - 1 + 1 ELSE 0
        /\ \A i \in 1..(Len(s) - 1 - 1 + 1) : Front(s)[i] = s[1 + i - 1]
    BY <2>1, Part DEF Front
  <2>3. ASSUME NEW i \in 1..(Len(s) - 1) PROVE Front(s)[i] = s[i]
    <3>1. i \in 1..(Len(s) - 1 - 1 + 1) /\ 1 + i - 1 = i
      BY <1>1
    <3> QED
      BY <2>2, <3>1
  <2>4. Len(Front(s)) = Len(s) - 1
    <3>1. \A n \in Nat : n >= 1 => (IF 1 <= n - 1 THEN n - 1 - 1 + 1 ELSE 0) = n - 1
      OBVIOUS
    <3> QED
      BY <1>1, <2>2, <3>1
  <2> QED
    BY <2>2, <2>3, <2>4
<1>4. Last(s) = s[Len(s)] /\ Last(s) \in S
  BY <1>1 DEF Last
<1>5. s = Append(Front(s), Last(s))
  BY <1>1, <1>2, <1>4
<1> QED
  BY <1>1, <1>2, <1>4, <1>5

LEMMA AppendedLast ==
  ASSUME NEW S, NEW s \in Seq(S), NEW e \in S
  PROVE  /\ Append(s, e) \in Seq(S) /\ Append(s, e) # <<>>
         /\ Front(Append(s, e)) = s
         /\ Last(Append(s, e)) = e
<1>1. Append(s, e) \in Seq(S) /\ Len(Append(s, e)) = Len(s) + 1 /\ Len(s) \in Nat
  OBVIOUS
<1>2. Last(Append(s, e)) = e
  BY <1>1 DEF Last
<1>3. /\ Front(Append(s, e)) \in Seq(S) /\ Len(Front(Append(s, e))) = Len(s)
      /\ \A i \in 1..Len(s) : Front(Append(s, e))[i] = Append(s, e)[i]
  BY <1>1, Part DEF Front
<1>4. Front(Append(s, e)) = s
  BY <1>1, <1>3
<1> QED
  BY <1>1, <1>2, <1>4

LEMMA SeqInduction ==
  ASSUME NEW S, NEW T, <<>> \in T,
         \A s \in Seq(S) : \A e \in S : s \in T => Append(s, e) \in T
  PROVE  Seq(S) \subseteq T
<1> DEFINE N == {n \in Nat : \A s \in Seq(S) : Len(s) = n => s \in T}
<1>1. 0 \in N
  OBVIOUS
<1>2. ASSUME NEW n \in Nat, n \in N PROVE n + 1 \in N
  <2> SUFFICES ASSUME NEW s \in Seq(S), Len(s) = n + 1 PROVE s \in T
    OBVIOUS
  <2>1. s # <<>>
    OBVIOUS
  <2>2. Front(s) \in Seq(S) /\ Last(s) \in S /\ Len(Front(s)) = n /\ s = Append(Front(s), Last(s))
    BY <2>1, LastAppended
  <2>3. Front(s) \in T
    BY <1>2, <2>2
  <2> QED
    BY <2>2, <2>3
<1> HIDE DEF N
<1>3. Nat \subseteq N
  BY <1>1, <1>2, SetInduction
<1> QED
  BY <1>3 DEF N

\* The selection, one message after the other, as a function of how many are looked at.
Steps(ms, roles) ==
  {f \in [0..Len(ms) -> Seq(Messages)] :
     /\ f[0] = <<>>
     /\ \A n \in 1..Len(ms) :
          f[n] = IF ms[n].role \in roles THEN Append(f[n - 1], ms[n]) ELSE f[n - 1]}

\* What is selected once all are looked at.
SelectedIn(ms, roles) ==
  CHOOSE t \in Seq(Messages) : \E f \in Steps(ms, roles) : t = f[Len(ms)]

\* The recursive function by which OfRoles is defined.
Selection(roles) ==
  CHOOSE selected : selected =
    [s \in Seq(Messages) |->
       IF s = <<>> THEN <<>>
         ELSE IF Last(s).role \in roles THEN Append(selected[Front(s)], Last(s))
         ELSE selected[Front(s)]]

LEMMA OfRolesSelects ==
  ASSUME NEW ms, NEW roles
  PROVE  OfRoles(ms, roles) = Selection(roles)[ms]
  BY DEF OfRoles, Selection

LEMMA OneSelection ==
  ASSUME NEW ms \in Seq(Messages), NEW roles,
         NEW f \in Steps(ms, roles), NEW g \in Steps(ms, roles)
  PROVE  f[Len(ms)] = g[Len(ms)]
<1> DEFINE N == {n \in Nat : n <= Len(ms) => f[n] = g[n]}
<1>1. 0 \in N
  BY DEF Steps
<1>2. ASSUME NEW n \in Nat, n \in N PROVE n + 1 \in N
  <2> SUFFICES ASSUME n + 1 <= Len(ms) PROVE f[n + 1] = g[n + 1]
    OBVIOUS
  <2>1. f[n] = g[n] /\ n + 1 \in 1..Len(ms) /\ n + 1 - 1 = n
    BY <1>2
  <2> QED
    BY <2>1 DEF Steps
<1> HIDE DEF N
<1>3. Nat \subseteq N
  BY <1>1, <1>2, SetInduction
<1> QED
  BY <1>3 DEF N

LEMMA StepsAppended ==
  ASSUME NEW ms \in Seq(Messages), NEW m \in Messages, NEW roles, NEW f \in Steps(ms, roles)
  PROVE  \E g \in Steps(Append(ms, m), roles) :
           g[Len(ms) + 1] = IF m.role \in roles THEN Append(f[Len(ms)], m) ELSE f[Len(ms)]
<1> DEFINE last == IF m.role \in roles THEN Append(f[Len(ms)], m) ELSE f[Len(ms)]
           n == Len(ms)
           g == [i \in 0..(n + 1) |-> IF i <= n THEN f[i] ELSE last]
<1>0. n \in Nat /\ f \in [0..n -> Seq(Messages)]
  BY DEF Steps
<1>1. last \in Seq(Messages)
  BY <1>0
<1>2. g \in [0..(n + 1) -> Seq(Messages)]
  BY <1>0, <1>1
<1>3. Append(ms, m) \in Seq(Messages) /\ Len(Append(ms, m)) = n + 1
  OBVIOUS
<1>4. ASSUME NEW i \in 1..(n + 1)
      PROVE  g[i] = IF Append(ms, m)[i].role \in roles THEN Append(g[i - 1], Append(ms, m)[i])
                      ELSE g[i - 1]
  <2>1. CASE i <= n
    <3>1. Append(ms, m)[i] = ms[i] /\ i \in 1..n
      BY <2>1
    <3>2. g[i] = f[i] /\ g[i - 1] = f[i - 1]
      BY <2>1, <1>0
    <3> QED
      BY <3>1, <3>2 DEF Steps
  <2>2. CASE i = n + 1
    <3>1. Append(ms, m)[i] = m /\ g[i - 1] = f[n] /\ g[i] = last
      BY <2>2, <1>0
    <3> QED
      BY <3>1
  <2> QED
    BY <2>1, <2>2, <1>0
<1>5. g[0] = <<>>
  BY <1>0 DEF Steps
<1> HIDE DEF g
<1>6. g \in Steps(Append(ms, m), roles)
  BY <1>2, <1>3, <1>4, <1>5 DEF Steps
<1>7. g[n + 1] = last
  BY <1>0 DEF g
<1> QED
  BY <1>6, <1>7

LEMMA SelectionSteps ==
  ASSUME NEW ms \in Seq(Messages), NEW roles
  PROVE  /\ \E f \in Steps(ms, roles) : SelectedIn(ms, roles) = f[Len(ms)]
         /\ SelectedIn(ms, roles) \in Seq(Messages)
<1> DEFINE T == {s \in Seq(Messages) : Steps(s, roles) # {}}
<1>1. <<>> \in T
  <2>1. [i \in {0} |-> <<>>] \in Steps(<<>>, roles)
    BY DEF Steps
  <2> QED
    BY <2>1
<1>2. ASSUME NEW s \in Seq(Messages), NEW m \in Messages, s \in T PROVE Append(s, m) \in T
  <2>1. PICK f \in Steps(s, roles) : TRUE
    BY <1>2
  <2>2. Append(s, m) \in Seq(Messages)
    OBVIOUS
  <2> QED
    BY <2>1, <2>2, StepsAppended
<1> HIDE DEF T
<1>3. ms \in T
  BY <1>1, <1>2, SeqInduction
<1>4. PICK f \in Steps(ms, roles) : TRUE
  BY <1>3 DEF T
<1>5. f[Len(ms)] \in Seq(Messages)
  BY DEF Steps
<1> QED
  BY <1>4, <1>5 DEF SelectedIn

LEMMA SelectedAppended ==
  ASSUME NEW ms \in Seq(Messages), NEW m \in Messages, NEW roles
  PROVE  SelectedIn(Append(ms, m), roles) =
           IF m.role \in roles THEN Append(SelectedIn(ms, roles), m) ELSE SelectedIn(ms, roles)
<1>1. Append(ms, m) \in Seq(Messages) /\ Len(Append(ms, m)) = Len(ms) + 1
  OBVIOUS
<1>2. PICK f \in Steps(ms, roles) : SelectedIn(ms, roles) = f[Len(ms)]
  BY SelectionSteps
<1>3. PICK g \in Steps(Append(ms, m), roles) :
        g[Len(ms) + 1] = IF m.role \in roles THEN Append(f[Len(ms)], m) ELSE f[Len(ms)]
  BY StepsAppended
<1>4. PICK h \in Steps(Append(ms, m), roles) :
        SelectedIn(Append(ms, m), roles) = h[Len(Append(ms, m))]
  BY <1>1, SelectionSteps
<1>5. g[Len(Append(ms, m))] = h[Len(Append(ms, m))]
  BY <1>1, OneSelection
<1> QED
  BY <1>1, <1>2, <1>3, <1>4, <1>5

\* The messages of some roles, as the sequence they are taken from grows.
LEMMA OfRolesAppended ==
  ASSUME NEW roles
  PROVE  /\ OfRoles(<<>>, roles) = <<>>
         /\ \A ms \in Seq(Messages) : OfRoles(ms, roles) \in Seq(Messages)
         /\ \A ms \in Seq(Messages) : \A m \in Messages :
              OfRoles(Append(ms, m), roles) =
                IF m.role \in roles THEN Append(OfRoles(ms, roles), m) ELSE OfRoles(ms, roles)
<1> DEFINE F == [s \in Seq(Messages) |-> SelectedIn(s, roles)]
<1>1. F[<<>>] = <<>>
  <2>1. <<>> \in Seq(Messages) /\ Len(<<>>) = 0
    OBVIOUS
  <2>2. PICK f \in Steps(<<>>, roles) : SelectedIn(<<>>, roles) = f[Len(<<>>)]
    BY <2>1, SelectionSteps
  <2> QED
    BY <2>1, <2>2 DEF Steps
<1>2. ASSUME NEW s \in Seq(Messages), s # <<>>
      PROVE  F[s] = IF Last(s).role \in roles THEN Append(F[Front(s)], Last(s)) ELSE F[Front(s)]
  <2>1. Front(s) \in Seq(Messages) /\ Last(s) \in Messages /\ s = Append(Front(s), Last(s))
    BY <1>2, LastAppended
  <2>2. SelectedIn(Append(Front(s), Last(s)), roles) =
          IF Last(s).role \in roles
            THEN Append(SelectedIn(Front(s), roles), Last(s))
            ELSE SelectedIn(Front(s), roles)
    BY <2>1, SelectedAppended
  <2> QED
    BY <2>1, <2>2
<1>3. F = [s \in Seq(Messages) |->
             IF s = <<>> THEN <<>>
               ELSE IF Last(s).role \in roles THEN Append(F[Front(s)], Last(s))
               ELSE F[Front(s)]]
  BY <1>1, <1>2
<1> HIDE DEF F
<1>4. Selection(roles) = [s \in Seq(Messages) |->
             IF s = <<>> THEN <<>>
               ELSE IF Last(s).role \in roles THEN Append(Selection(roles)[Front(s)], Last(s))
               ELSE Selection(roles)[Front(s)]]
  BY <1>3 DEF Selection
<1> DEFINE G == Selection(roles)
<1>5. G[<<>>] = <<>>
  BY <1>4
<1>6. ASSUME NEW s \in Seq(Messages), NEW m \in Messages
      PROVE  G[Append(s, m)] = IF m.role \in roles THEN Append(G[s], m) ELSE G[s]
  <2>1. /\ Append(s, m) \in Seq(Messages) /\ Append(s, m) # <<>>
        /\ Front(Append(s, m)) = s /\ Last(Append(s, m)) = m
    BY AppendedLast
  <2> QED
    BY <1>4, <2>1
<1> HIDE DEF G
<1> DEFINE T == {s \in Seq(Messages) : G[s] \in Seq(Messages)}
<1>7. <<>> \in T
  <2>1. <<>> \in Seq(Messages)
    OBVIOUS
  <2> QED
    BY <1>5, <2>1
<1>8. ASSUME NEW s \in Seq(Messages), NEW m \in Messages, s \in T PROVE Append(s, m) \in T
  <2>1. Append(s, m) \in Seq(Messages) /\ G[s] \in Seq(Messages)
    BY <1>8
  <2>2. G[Append(s, m)] = IF m.role \in roles THEN Append(G[s], m) ELSE G[s]
    BY <1>6
  <2>3. Append(G[s], m) \in Seq(Messages)
    BY <2>1
  <2> QED
    BY <2>1, <2>2, <2>3
<1> HIDE DEF T
<1>9. Seq(Messages) \subseteq T
  BY <1>7, <1>8, SeqInduction
<1> QED
  BY <1>5, <1>6, <1>9, OfRolesSelects DEF T, G

LEMMA SeqSubset ==
  ASSUME NEW S, NEW T, S \subseteq T, NEW s \in Seq(S)
  PROVE  s \in Seq(T)
  OBVIOUS

\* Only messages of these roles are selected, and none other appears.
LEMMA OfRolesType ==
  ASSUME NEW S \in SUBSET Messages, NEW ms \in Seq(S), NEW roles
  PROVE  OfRoles(ms, roles) \in Seq({m \in S : m.role \in roles})
<1> DEFINE U == {m \in S : m.role \in roles}
           T == {s \in Seq(S) : OfRoles(s, roles) \in Seq(U)}
<1>1. <<>> \in T
  <2>1. <<>> \in Seq(S) /\ <<>> \in Seq(U)
    OBVIOUS
  <2> QED
    BY <2>1, OfRolesAppended
<1>2. ASSUME NEW s \in Seq(S), NEW m \in S, s \in T PROVE Append(s, m) \in T
  <2>1. s \in Seq(Messages) /\ m \in Messages /\ Append(s, m) \in Seq(S)
    BY SeqSubset
  <2>2. OfRoles(Append(s, m), roles) =
          IF m.role \in roles THEN Append(OfRoles(s, roles), m) ELSE OfRoles(s, roles)
    BY <2>1, OfRolesAppended
  <2>3. OfRoles(s, roles) \in Seq(U) /\ (m.role \in roles => m \in U)
    BY <1>2
  <2> HIDE DEF U
  <2>4. m.role \in roles => Append(OfRoles(s, roles), m) \in Seq(U)
    BY <2>3
  <2> QED
    BY <2>1, <2>2, <2>3, <2>4
<1> HIDE DEF T
<1>3. Seq(S) \subseteq T
  BY <1>1, <1>2, SeqInduction
<1> QED
  BY <1>3 DEF T

LEMMA OfRolesConcat ==
  ASSUME NEW a \in Seq(Messages), NEW b \in Seq(Messages), NEW roles
  PROVE  OfRoles(a \o b, roles) = OfRoles(a, roles) \o OfRoles(b, roles)
<1> DEFINE T == {s \in Seq(Messages) :
                   OfRoles(a \o s, roles) = OfRoles(a, roles) \o OfRoles(s, roles)}
<1>1. <<>> \in T
  <2>0. <<>> \in Seq(Messages) /\ a \o <<>> = a
    OBVIOUS
  <2>1. OfRoles(a, roles) \in Seq(Messages)
    BY OfRolesAppended
  <2>2. OfRoles(<<>>, roles) = <<>> /\ OfRoles(a, roles) \o <<>> = OfRoles(a, roles)
    BY <2>1, OfRolesAppended
  <2> QED
    BY <2>0, <2>2
<1>2. ASSUME NEW s \in Seq(Messages), NEW m \in Messages, s \in T PROVE Append(s, m) \in T
  <2> DEFINE x == OfRoles(a, roles)
             y == OfRoles(s, roles)
  <2>0. a \o s \in Seq(Messages) /\ Append(s, m) \in Seq(Messages)
    OBVIOUS
  <2>1. x \in Seq(Messages) /\ y \in Seq(Messages)
    BY OfRolesAppended
  <2>2. OfRoles(Append(s, m), roles) = IF m.role \in roles THEN Append(y, m) ELSE y
    BY OfRolesAppended
  <2>3. a \o Append(s, m) = Append(a \o s, m)
    OBVIOUS
  <2>4. OfRoles(Append(a \o s, m), roles) =
          IF m.role \in roles THEN Append(OfRoles(a \o s, roles), m) ELSE OfRoles(a \o s, roles)
    BY <2>0, OfRolesAppended
  <2>5. OfRoles(a \o s, roles) = x \o y
    BY <1>2
  <2> HIDE DEF x, y
  <2>6. x \o Append(y, m) = Append(x \o y, m)
    BY <2>1
  <2>7. OfRoles(a \o Append(s, m), roles) = x \o OfRoles(Append(s, m), roles)
    BY <2>2, <2>3, <2>4, <2>5, <2>6
  <2> QED
    BY <2>0, <2>7 DEF x
<1> HIDE DEF T
<1>3. Seq(Messages) \subseteq T
  BY <1>1, <1>2, SeqInduction
<1> QED
  BY <1>3 DEF T

\* Of messages that all have these roles all are selected, of others none.
LEMMA OfRolesAll ==
  ASSUME NEW ms \in Seq(Messages), NEW roles
  PROVE  /\ (\A i \in 1..Len(ms) : ms[i].role \in roles) => OfRoles(ms, roles) = ms
         /\ (\A i \in 1..Len(ms) : ms[i].role \notin roles) => OfRoles(ms, roles) = <<>>
<1> DEFINE Every(s) == (\A i \in 1..Len(s) : s[i].role \in roles) => OfRoles(s, roles) = s
           None0(s) == (\A i \in 1..Len(s) : s[i].role \notin roles) => OfRoles(s, roles) = <<>>
           T == {s \in Seq(Messages) : Every(s) /\ None0(s)}
<1>1. <<>> \in T
  <2>1. <<>> \in Seq(Messages)
    OBVIOUS
  <2> QED
    BY <2>1, OfRolesAppended
<1>2. ASSUME NEW s \in Seq(Messages), NEW m \in Messages, s \in T PROVE Append(s, m) \in T
  <2>1. /\ Append(s, m) \in Seq(Messages) /\ Len(Append(s, m)) = Len(s) + 1 /\ Len(s) \in Nat
        /\ Append(s, m)[Len(s) + 1] = m
        /\ \A i \in 1..Len(s) : Append(s, m)[i] = s[i] /\ i \in 1..(Len(s) + 1)
    OBVIOUS
  <2>2. OfRoles(Append(s, m), roles) =
          IF m.role \in roles THEN Append(OfRoles(s, roles), m) ELSE OfRoles(s, roles)
    BY OfRolesAppended
  <2>3. Every(Append(s, m))
    <3> HAVE \A i \in 1..Len(Append(s, m)) : Append(s, m)[i].role \in roles
    <3>1. m.role \in roles /\ \A i \in 1..Len(s) : s[i].role \in roles
      BY <2>1
    <3> QED
      BY <1>2, <2>2, <3>1
  <2>4. None0(Append(s, m))
    <3> HAVE \A i \in 1..Len(Append(s, m)) : Append(s, m)[i].role \notin roles
    <3>1. m.role \notin roles /\ \A i \in 1..Len(s) : s[i].role \notin roles
      BY <2>1
    <3> QED
      BY <1>2, <2>2, <3>1
  <2> QED
    BY <2>1, <2>3, <2>4
<1> HIDE DEF T
<1>3. Seq(Messages) \subseteq T
  BY <1>1, <1>2, SeqInduction
<1> QED
  BY <1>3 DEF T

LEMMA OfRolesTwice ==
  ASSUME NEW ms \in Seq(Messages), NEW few, NEW many, few \subseteq many
  PROVE  OfRoles(OfRoles(ms, many), few) = OfRoles(ms, few)
<1> DEFINE T == {s \in Seq(Messages) : OfRoles(OfRoles(s, many), few) = OfRoles(s, few)}
<1>1. <<>> \in T
  <2>1. <<>> \in Seq(Messages)
    OBVIOUS
  <2> QED
    BY <2>1, OfRolesAppended
<1>2. ASSUME NEW s \in Seq(Messages), NEW m \in Messages, s \in T PROVE Append(s, m) \in T
  <2> DEFINE x == OfRoles(s, many)
  <2>0. Append(s, m) \in Seq(Messages)
    OBVIOUS
  <2>1. x \in Seq(Messages)
    BY OfRolesAppended
  <2>2. OfRoles(Append(s, m), many) = IF m.role \in many THEN Append(x, m) ELSE x
    BY OfRolesAppended
  <2>3. OfRoles(Append(s, m), few) =
          IF m.role \in few THEN Append(OfRoles(s, few), m) ELSE OfRoles(s, few)
    BY OfRolesAppended
  <2>4. OfRoles(Append(x, m), few) =
          IF m.role \in few THEN Append(OfRoles(x, few), m) ELSE OfRoles(x, few)
    BY <2>1, OfRolesAppended
  <2>5. OfRoles(x, few) = OfRoles(s, few)
    BY <1>2
  <2> QED
    BY <2>0, <2>2, <2>3, <2>4, <2>5
<1> HIDE DEF T
<1>3. Seq(Messages) \subseteq T
  BY <1>1, <1>2, SeqInduction
<1> QED
  BY <1>3 DEF T

LEMMA SystemsCounted ==
  ASSUME NEW ms \in Seq(Messages)
  PROVE  Len(Systems(ms)) = Len(Prompts(ms)) + Len(OfRoles(ms, {"summary"}))
<1> DEFINE Sums(s) == Len(OfRoles(s, SystemRoles)) =
                        Len(OfRoles(s, {"system"})) + Len(OfRoles(s, {"summary"}))
           T == {s \in Seq(Messages) : Sums(s)}
<1>1. <<>> \in T
  <2>1. <<>> \in Seq(Messages) /\ Len(<<>>) = 0
    OBVIOUS
  <2> QED
    BY <2>1, OfRolesAppended
<1>2. ASSUME NEW s \in Seq(Messages), NEW m \in Messages, s \in T PROVE Append(s, m) \in T
  <2>1. Append(s, m) \in Seq(Messages)
    OBVIOUS
  <2>2. ASSUME NEW roles
        PROVE  Len(OfRoles(Append(s, m), roles)) =
                 Len(OfRoles(s, roles)) + (IF m.role \in roles THEN 1 ELSE 0)
    <3>1. OfRoles(s, roles) \in Seq(Messages)
      BY OfRolesAppended
    <3>2. OfRoles(Append(s, m), roles) =
            IF m.role \in roles THEN Append(OfRoles(s, roles), m) ELSE OfRoles(s, roles)
      BY OfRolesAppended
    <3>3. Len(Append(OfRoles(s, roles), m)) = Len(OfRoles(s, roles)) + 1 /\ Len(OfRoles(s, roles)) \in Nat
      BY <3>1
    <3> QED
      BY <3>2, <3>3
  <2>3. \A roles : OfRoles(s, roles) \in Seq(Messages)
    BY OfRolesAppended
  <2>4. /\ Len(OfRoles(s, SystemRoles)) \in Nat /\ Len(OfRoles(s, {"system"})) \in Nat
        /\ Len(OfRoles(s, {"summary"})) \in Nat
    BY <2>3
  <2>5. m.role \in SystemRoles <=> m.role = "system" \/ m.role = "summary"
    BY DEF SystemRoles
  <2>6. Sums(s)
    BY <1>2
  <2>7. Sums(Append(s, m))
    BY <2>2, <2>4, <2>5, <2>6
  <2> QED
    BY <2>1, <2>7
<1> HIDE DEF T
<1>3. Seq(Messages) \subseteq T
  BY <1>1, <1>2, SeqInduction
<1> QED
  BY <1>3 DEF T, Systems, Prompts

-----------------------------------------------------------------------------
(* Exchanges that are whole.                                               *)

\* The messages the program makes: a tool message names its call, and only an answer
\* makes calls.
Shaped ==
  {m \in Messages : /\ m.call > 0 <=> m.role = "tool"
                    /\ m.calls > 0 => m.role = "assistant"}

\* The message at i, if it is a result, follows its answer.
ResultAt(ms, i) ==
  ms[i].role = "tool" =>
    /\ ms[i].from = ms[i].call
    /\ i > ms[i].call
    /\ ms[i - ms[i].call].exchange = ms[i].exchange
    /\ ms[i - ms[i].call].calls >= ms[i].call

\* The message at i is followed by a result of each of its calls.
CallsAt(ms, i) ==
  \A k \in 1..ms[i].calls :
    /\ i + k <= Len(ms)
    /\ ms[i + k].exchange = ms[i].exchange
    /\ ms[i + k].call = k

\* Whole, but for the exchanges that are torn.
WholeBut(ms, torn) ==
  \A i \in 1..Len(ms) : ms[i].exchange \notin torn => ResultAt(ms, i) /\ CallsAt(ms, i)

\* A message of a torn exchange, or a message with the results of all its calls.
Block(b, torn) ==
  \/ Len(b) = 1 /\ b[1].exchange \in torn
  \/ /\ Len(b) >= 1 /\ b[1].role # "tool" /\ b[1].calls = Len(b) - 1
     /\ \A k \in 1..(Len(b) - 1) :
          /\ b[k + 1].role = "tool" /\ b[k + 1].exchange = b[1].exchange
          /\ b[k + 1].call = k /\ b[k + 1].from = k /\ b[k + 1].calls = 0

LEMMA WholeIsWholeBut ==
  ASSUME NEW ms \in Seq(Messages)
  PROVE  Whole(ms) <=> WholeBut(ms, interrupted)
  BY DEF Whole, WholeBut, ResultAt, CallsAt

LEMMA MessageFields ==
  ASSUME NEW m \in Messages
  PROVE  /\ m.call \in Nat /\ m.calls \in Nat /\ m.exchange \in Nat /\ m.from \in Nat
         /\ m.role \in Roles
  BY BoundsAssumption DEF Messages

LEMMA ConcatAt ==
  ASSUME NEW S, NEW a \in Seq(S), NEW b \in Seq(S)
  PROVE  /\ a \o b \in Seq(S) /\ Len(a \o b) = Len(a) + Len(b) /\ Len(a) \in Nat /\ Len(b) \in Nat
         /\ \A i \in 1..Len(a) : (a \o b)[i] = a[i]
         /\ \A i \in 1..Len(b) : (a \o b)[Len(a) + i] = b[i]
  OBVIOUS

LEMMA WholeConcat ==
  ASSUME NEW a \in Seq(Messages), NEW b \in Seq(Messages), NEW torn,
         WholeBut(a, torn), WholeBut(b, torn)
  PROVE  WholeBut(a \o b, torn)
<1> DEFINE c == a \o b
           n == Len(a)
<1>1. /\ c \in Seq(Messages) /\ Len(c) = n + Len(b) /\ n \in Nat /\ Len(b) \in Nat
      /\ \A i \in 1..n : c[i] = a[i]
      /\ \A i \in 1..Len(b) : c[n + i] = b[i]
  BY ConcatAt
<1> HIDE DEF c, n
<1> SUFFICES ASSUME NEW i \in 1..Len(c), c[i].exchange \notin torn
             PROVE  ResultAt(c, i) /\ CallsAt(c, i)
  BY DEF WholeBut, c
<1>2. CASE i <= n
  <2>1. i \in 1..Len(a) /\ i \in 1..n /\ c[i] = a[i] /\ a[i] \in Messages
    BY <1>1, <1>2 DEF n
  <2>2. ResultAt(a, i) /\ CallsAt(a, i)
    BY <2>1 DEF WholeBut
  <2>3. ResultAt(c, i)
    <3> SUFFICES ASSUME c[i].role = "tool" PROVE ResultAt(c, i)
      BY DEF ResultAt
    <3>1. a[i].call \in Nat /\ i > a[i].call /\ (a[i].call > 0 \/ a[i].call = 0)
      BY <2>1, <2>2, MessageFields DEF ResultAt
    <3>2. i - a[i].call \in 1..n
      BY <1>1, <2>1, <3>1
    <3> QED
      BY <1>1, <2>1, <2>2, <3>2 DEF ResultAt
  <2>4. CallsAt(c, i)
    <3> SUFFICES ASSUME NEW k \in 1..c[i].calls
                 PROVE  i + k <= Len(c) /\ c[i + k].exchange = c[i].exchange /\ c[i + k].call = k
      BY DEF CallsAt
    <3>1. a[i].calls \in Nat /\ k \in 1..a[i].calls
      BY <2>1, MessageFields
    <3>2. i + k <= n /\ a[i + k].exchange = a[i].exchange /\ a[i + k].call = k
      BY <2>1, <2>2, <3>1 DEF CallsAt, n
    <3>3. i + k \in 1..n
      BY <1>1, <2>1, <3>1, <3>2
    <3> QED
      BY <1>1, <2>1, <3>2, <3>3
  <2> QED
    BY <2>3, <2>4
<1>3. CASE i > n
  <2> DEFINE j == i - n
  <2>1. j \in 1..Len(b) /\ i = n + j
    BY <1>1, <1>3
  <2> HIDE DEF j
  <2>2. c[i] = b[j] /\ b[j] \in Messages
    BY <1>1, <2>1
  <2>3. ResultAt(b, j) /\ CallsAt(b, j)
    BY <2>1, <2>2 DEF WholeBut
  <2>4. ResultAt(c, i)
    <3> SUFFICES ASSUME c[i].role = "tool" PROVE ResultAt(c, i)
      BY DEF ResultAt
    <3>1. b[j].call \in Nat /\ j > b[j].call
      BY <2>2, <2>3, MessageFields DEF ResultAt
    <3>2. j - b[j].call \in 1..Len(b) /\ i - b[j].call = n + (j - b[j].call)
      BY <1>1, <2>1, <3>1, SMTT(30)
    <3>3. c[n + (j - b[j].call)] = b[j - b[j].call]
      BY <1>1, <3>2
    <3>4. i > b[j].call
      BY <1>1, <2>1, <3>1
    <3> QED
      BY <2>2, <2>3, <3>2, <3>3, <3>4 DEF ResultAt
  <2>5. CallsAt(c, i)
    <3> SUFFICES ASSUME NEW k \in 1..c[i].calls
                 PROVE  i + k <= Len(c) /\ c[i + k].exchange = c[i].exchange /\ c[i + k].call = k
      BY DEF CallsAt
    <3>1. b[j].calls \in Nat /\ k \in 1..b[j].calls
      BY <2>2, MessageFields
    <3>2. j + k <= Len(b) /\ b[j + k].exchange = b[j].exchange /\ b[j + k].call = k
      BY <2>3, <3>1 DEF CallsAt
    <3>3. j + k \in 1..Len(b) /\ i + k = n + (j + k) /\ i + k <= Len(c)
      BY <1>1, <2>1, <3>1, <3>2
    <3>4. c[i + k] = b[j + k]
      BY <1>1, <3>3
    <3> QED
      BY <2>2, <3>2, <3>3, <3>4
  <2> QED
    BY <2>4, <2>5
<1> QED
  BY <1>1, <1>2, <1>3

LEMMA BlockWhole ==
  ASSUME NEW b \in Seq(Messages), NEW torn, Block(b, torn)
  PROVE  WholeBut(b, torn)
<1> SUFFICES ASSUME NEW i \in 1..Len(b), b[i].exchange \notin torn
             PROVE  ResultAt(b, i) /\ CallsAt(b, i)
  BY DEF WholeBut
<1>1. /\ Len(b) >= 1 /\ b[1].role # "tool" /\ b[1].calls = Len(b) - 1
      /\ \A k \in 1..(Len(b) - 1) :
           /\ b[k + 1].role = "tool" /\ b[k + 1].exchange = b[1].exchange
           /\ b[k + 1].call = k /\ b[k + 1].from = k /\ b[k + 1].calls = 0
  BY DEF Block
<1>2. CASE i = 1
  <2>1. ASSUME NEW k \in 1..b[i].calls
        PROVE  i + k <= Len(b) /\ b[i + k].exchange = b[i].exchange /\ b[i + k].call = k
    <3>1. k \in 1..(Len(b) - 1) /\ i + k = k + 1 /\ Len(b) \in Nat
      BY <1>1, <1>2
    <3> QED
      BY <1>1, <1>2, <3>1
  <2> QED
    BY <1>1, <1>2, <2>1 DEF ResultAt, CallsAt
<1>3. CASE i # 1
  <2> DEFINE k == i - 1
  <2>1. k \in 1..(Len(b) - 1) /\ i = k + 1 /\ i - k = 1 /\ Len(b) \in Nat
    BY <1>3
  <2> HIDE DEF k
  <2>2. /\ b[i].role = "tool" /\ b[i].exchange = b[1].exchange
        /\ b[i].call = k /\ b[i].from = k /\ b[i].calls = 0
    BY <1>1, <2>1
  <2>3. ResultAt(b, i)
    BY <1>1, <2>1, <2>2 DEF ResultAt
  <2>4. CallsAt(b, i)
    BY <2>2 DEF CallsAt
  <2> QED
    BY <2>3, <2>4
<1> QED
  BY <1>2, <1>3

\* A whole sequence that is not empty ends with a block, and is whole before it.
LEMMA LastBlock ==
  ASSUME NEW ms \in Seq(Shaped), NEW torn, ms # <<>>, WholeBut(ms, torn)
  PROVE  \E a, b \in Seq(Shaped) :
           /\ ms = a \o b /\ Len(a) < Len(ms)
           /\ WholeBut(a, torn) /\ Block(b, torn)
<1> DEFINE n == Len(ms)
           m == ms[n]
<1>1. n \in Nat /\ n >= 1 /\ m \in Shaped /\ ms \in Seq(Messages) /\ Shaped \subseteq Messages
  BY DEF Shaped
<1>2. \A i \in 1..n : ms[i] \in Shaped /\ ms[i] \in Messages
  BY <1>1
<1> HIDE DEF n, m
<1>3. ASSUME NEW p \in 1..n,
             \A i \in 1..(p - 1) : \A k \in 1..ms[i].calls :
               ms[i].exchange \notin torn => i + k # p,
             Block(SubSeq(ms, p, n), torn)
      PROVE  \E a, b \in Seq(Shaped) :
               /\ ms = a \o b /\ Len(a) < Len(ms)
               /\ WholeBut(a, torn) /\ Block(b, torn)
  <2> DEFINE a == SubSeq(ms, 1, p - 1)
             b == SubSeq(ms, p, n)
  <2>1. /\ 1 \in 1..(n + 1) /\ p - 1 \in 0..n /\ p \in 1..(n + 1) /\ n \in 0..n
        /\ p - 1 \in (1 - 1)..n /\ n \in (p - 1)..n /\ p - 1 + 1 = p /\ p \in Nat
    BY <1>1
  <2>2. /\ a \in Seq(Shaped)
        /\ Len(a) = IF 1 <= p - 1 THEN p - 1 - 1 + 1 ELSE 0
        /\ \A i \in 1..(p - 1 - 1 + 1) : a[i] = ms[1 + i - 1]
    BY <2>1, Part DEF n
  <2>3. b \in Seq(Shaped)
    BY <2>1, Part DEF n
  <2>4. ms = a \o b
    <3>1. SubSeq(ms, 1, p - 1) \o SubSeq(ms, p - 1 + 1, n) = SubSeq(ms, 1, n)
      BY <2>1, ConcatAdjacentSubSeq DEF n
    <3>2. SubSeq(ms, 1, n) = ms
      BY SubSeqFull DEF n
    <3> QED
      BY <2>1, <3>1, <3>2
  <2> HIDE DEF a, b
  <2>5. Len(a) = p - 1
    <3>1. \A q \in Nat : q >= 1 => (IF 1 <= q - 1 THEN q - 1 - 1 + 1 ELSE 0) = q - 1
      OBVIOUS
    <3> QED
      BY <2>1, <2>2, <3>1
  <2>6. ASSUME NEW i \in 1..(p - 1) PROVE a[i] = ms[i] /\ i \in 1..n
    <3>1. i \in 1..(p - 1 - 1 + 1) /\ 1 + i - 1 = i /\ i \in 1..n
      BY <1>1, <2>1
    <3> QED
      BY <2>2, <3>1
  <2>7. WholeBut(a, torn)
    <3> SUFFICES ASSUME NEW i \in 1..Len(a), a[i].exchange \notin torn
                 PROVE  ResultAt(a, i) /\ CallsAt(a, i)
      BY DEF WholeBut
    <3>1. i \in 1..(p - 1) /\ i \in 1..n /\ a[i] = ms[i] /\ ms[i] \in Messages
      BY <1>2, <2>5, <2>6
    <3>2. ResultAt(ms, i) /\ CallsAt(ms, i)
      BY <3>1 DEF WholeBut, n
    <3>3. ResultAt(a, i)
      <4> SUFFICES ASSUME ms[i].role = "tool" PROVE ResultAt(a, i)
        BY <3>1 DEF ResultAt
      <4>1. ms[i].call \in Nat /\ i > ms[i].call
        BY <3>1, <3>2, MessageFields DEF ResultAt
      <4>2. i - ms[i].call \in 1..(p - 1)
        BY <2>1, <3>1, <4>1, SMTT(30)
      <4>3. a[i - ms[i].call] = ms[i - ms[i].call]
        BY <2>6, <4>2
      <4> QED
        BY <3>1, <3>2, <4>1, <4>3 DEF ResultAt
    <3>4. CallsAt(a, i)
      <4> SUFFICES ASSUME NEW k \in 1..ms[i].calls
                   PROVE  /\ i + k <= Len(a)
                          /\ a[i + k].exchange = a[i].exchange /\ a[i + k].call = k
        BY <3>1 DEF CallsAt
      <4>0. ms[i].calls \in Nat
        BY <3>1, MessageFields
      <4>1. i + k <= n /\ ms[i + k].exchange = ms[i].exchange /\ ms[i + k].call = k
        BY <3>2 DEF CallsAt, n
      <4>2. i + k <= p - 1
        <5>1. CASE i + 1 <= p /\ p <= i + k
          <6> DEFINE j == p - i
          <6>1. j \in 1..ms[i].calls /\ i + j = p
            BY <2>1, <3>1, <4>0, <5>1
          <6> QED
            BY <1>3, <3>1, <6>1
        <5> QED
          BY <2>1, <3>1, <4>0, <5>1
      <4>3. i + k \in 1..(p - 1)
        BY <2>1, <3>1, <4>0, <4>2
      <4> QED
        BY <2>5, <2>6, <3>1, <4>1, <4>2, <4>3
    <3> QED
      BY <3>3, <3>4
  <2>8. Len(a) < Len(ms)
    BY <1>1, <2>1, <2>5 DEF n
  <2> QED
    BY <1>3, <2>2, <2>3, <2>4, <2>7, <2>8 DEF b
<1>4. CASE m.exchange \in torn \/ (m.role # "tool" /\ m.calls = 0)
  <2>1. ASSUME NEW i \in 1..(n - 1), NEW k \in 1..ms[i].calls, ms[i].exchange \notin torn
        PROVE  i + k # n
    <3> SUFFICES ASSUME i + k = n PROVE FALSE
      OBVIOUS
    <3>1. i \in 1..Len(ms) /\ ms[i] \in Messages
      BY <1>1, <1>2 DEF n
    <3>2. ms[i + k].exchange = ms[i].exchange /\ ms[i + k].call = k
      BY <2>1, <3>1 DEF WholeBut, CallsAt
    <3>3. m.exchange \notin torn /\ m.call = k /\ k > 0
      BY <2>1, <3>1, <3>2, MessageFields DEF m
    <3> QED
      BY <1>1, <1>4, <3>3 DEF Shaped
  <2>2. Block(SubSeq(ms, n, n), torn)
    <3>1. /\ Len(SubSeq(ms, n, n)) = IF n <= n THEN n - n + 1 ELSE 0
          /\ \A i \in 1..(n - n + 1) : SubSeq(ms, n, n)[i] = ms[n + i - 1]
      BY <1>1, Part DEF n
    <3>2. n - n + 1 = 1 /\ n + 1 - 1 = n /\ n <= n /\ 1 \in 1..(n - n + 1)
      BY <1>1
    <3>3. Len(SubSeq(ms, n, n)) = 1 /\ SubSeq(ms, n, n)[1] = m
      BY <3>1, <3>2 DEF m
    <3> QED
      BY <1>4, <3>3 DEF Block
  <2>3. n \in 1..n
    BY <1>1
  <2> QED
    BY <1>3, <2>1, <2>2, <2>3
<1>5. CASE m.exchange \notin torn /\ m.role # "tool" /\ m.calls # 0
  <2>1. CallsAt(ms, n) /\ m.calls \in Nat
    BY <1>1, <1>2, <1>5, MessageFields DEF WholeBut, n, m
  <2>2. 1 \in 1..ms[n].calls
    BY <1>5, <2>1 DEF m
  <2>3. n + 1 <= n
    BY <2>1, <2>2 DEF CallsAt, n
  <2> QED
    BY <1>1, <2>3
<1>6. CASE m.exchange \notin torn /\ m.role = "tool"
  <2> DEFINE c == m.call
             p == n - c
             q == ms[p]
  <2>1. /\ c \in Nat /\ c > 0 /\ n > c /\ m.from = c
        /\ q.exchange = m.exchange /\ q.calls >= c
    <3>1. ResultAt(ms, n) /\ m.call \in Nat /\ (m.call > 0 <=> m.role = "tool")
      BY <1>1, <1>2, <1>6, MessageFields DEF WholeBut, n, m, Shaped
    <3> QED
      BY <1>6, <3>1 DEF ResultAt, m
  <2>2. p \in 1..(n - 1) /\ p \in 1..n /\ p + c = n
    BY <1>1, <2>1
  <2>3. q \in Shaped /\ q \in Messages /\ CallsAt(ms, p) /\ q.calls \in Nat
    BY <1>2, <1>6, <2>1, <2>2, MessageFields DEF WholeBut, n
  <2> HIDE DEF c, p, q
  <2>4. q.role = "assistant" /\ q.call = 0
    BY <2>1, <2>3, MessageFields DEF Shaped
  <2>5. q.calls = c
    <3>1. q.calls \in 1..ms[p].calls
      BY <2>1, <2>3 DEF q
    <3>2. p + q.calls <= n
      BY <2>3, <3>1 DEF CallsAt, n
    <3> QED
      BY <1>1, <2>1, <2>2, <2>3, <3>2
  <2>6. ASSUME NEW i \in 1..(p - 1), NEW k \in 1..ms[i].calls, ms[i].exchange \notin torn
        PROVE  i + k # p
    <3> SUFFICES ASSUME i + k = p PROVE FALSE
      OBVIOUS
    <3>1. i \in 1..Len(ms) /\ ms[i] \in Messages
      BY <1>1, <1>2, <2>2 DEF n
    <3>2. ms[i + k].call = k
      BY <2>6, <3>1 DEF WholeBut, CallsAt
    <3>3. k > 0
      BY <3>1, MessageFields
    <3> QED
      BY <2>4, <3>2, <3>3 DEF q
  <2>7. Block(SubSeq(ms, p, n), torn)
    <3> DEFINE b == SubSeq(ms, p, n)
    <3>1. /\ Len(b) = IF p <= n THEN n - p + 1 ELSE 0
          /\ \A i \in 1..(n - p + 1) : b[i] = ms[p + i - 1]
      BY <1>1, <2>2, Part DEF n
    <3> HIDE DEF b
    <3>2. n - p = c /\ p <= n
      BY <1>1, <2>1, <2>2
    <3>3. Len(b) = c + 1
      BY <3>1, <3>2
    <3>4. ASSUME NEW i \in 1..(c + 1) PROVE b[i] = ms[p + (i - 1)]
      <4>1. p + i - 1 = p + (i - 1)
        BY <2>1, <2>2
      <4> QED
        BY <3>1, <3>2, <4>1
    <3>5. b[1] = q
      <4>1. 1 \in 1..(c + 1) /\ p + (1 - 1) = p
        BY <2>1, <2>2
      <4> QED
        BY <3>4, <4>1 DEF q
    <3>6. ASSUME NEW k \in 1..c
          PROVE  /\ b[k + 1].role = "tool" /\ b[k + 1].exchange = b[1].exchange
                 /\ b[k + 1].call = k /\ b[k + 1].from = k /\ b[k + 1].calls = 0
      <4>1. k + 1 \in 1..(c + 1) /\ k + 1 - 1 = k /\ p + k \in 1..n /\ k > 0
        BY <1>1, <2>1, <2>2
      <4> DEFINE x == ms[p + k]
      <4>2. b[k + 1] = x
        BY <3>4, <4>1
      <4>3. x.exchange = q.exchange /\ x.call = k
        BY <2>3, <2>5 DEF CallsAt, q
      <4>4. x \in Shaped /\ x \in Messages /\ ResultAt(ms, p + k)
        BY <1>2, <1>6, <2>1, <4>1, <4>3 DEF WholeBut, n
      <4>5. x.role = "tool" /\ x.calls = 0
        BY <4>1, <4>3, <4>4, MessageFields DEF Shaped
      <4>6. x.from = k
        BY <4>3, <4>4, <4>5 DEF ResultAt
      <4> QED
        BY <3>5, <4>2, <4>3, <4>5, <4>6
    <3>7. Len(b) >= 1 /\ Len(b) - 1 = c
      BY <2>1, <3>3
    <3> QED
      BY <2>4, <2>5, <3>5, <3>6, <3>7 DEF Block, b
  <2> QED
    BY <1>3, <2>2, <2>6, <2>7
<1> QED
  BY <1>4, <1>5, <1>6

LEMMA EmptyWhole ==
  ASSUME NEW torn
  PROVE  WholeBut(<<>>, torn)
  BY DEF WholeBut

\* What holds of the empty sequence, and of a whole sequence with one block more, holds of
\* every whole sequence.
LEMMA WholeInduction ==
  ASSUME NEW torn, NEW T, <<>> \in T,
         \A a, b \in Seq(Shaped) :
           a \in T /\ WholeBut(a, torn) /\ Block(b, torn) => a \o b \in T
  PROVE  \A ms \in Seq(Shaped) : WholeBut(ms, torn) => ms \in T
<1> DEFINE N == {n \in Nat : \A ms \in Seq(Shaped) : Len(ms) <= n /\ WholeBut(ms, torn) => ms \in T}
<1>1. 0 \in N
  <2> SUFFICES ASSUME NEW ms \in Seq(Shaped), Len(ms) <= 0 PROVE ms \in T
    OBVIOUS
  <2>1. ms = <<>>
    OBVIOUS
  <2> QED
    BY <2>1
<1>2. ASSUME NEW n \in Nat, n \in N PROVE n + 1 \in N
  <2> SUFFICES ASSUME NEW ms \in Seq(Shaped), Len(ms) <= n + 1, WholeBut(ms, torn) PROVE ms \in T
    OBVIOUS
  <2>1. CASE ms = <<>>
    BY <2>1
  <2>2. CASE ms # <<>>
    <3>1. PICK a \in Seq(Shaped), b \in Seq(Shaped) :
            /\ ms = a \o b /\ Len(a) < Len(ms)
            /\ WholeBut(a, torn) /\ Block(b, torn)
      BY <2>2, LastBlock
    <3>2. Len(a) \in Nat /\ Len(ms) \in Nat
      OBVIOUS
    <3>3. Len(a) <= n
      BY <3>1, <3>2
    <3>4. a \in T
      BY <1>2, <3>1, <3>3
    <3> QED
      BY <3>1, <3>4
  <2> QED
    BY <2>1, <2>2
<1> HIDE DEF N
<1>3. Nat \subseteq N
  BY <1>1, <1>2, SetInduction
<1> SUFFICES ASSUME NEW ms \in Seq(Shaped), WholeBut(ms, torn) PROVE ms \in T
  OBVIOUS
<1>4. Len(ms) \in Nat /\ Len(ms) <= Len(ms)
  OBVIOUS
<1> QED
  BY <1>3, <1>4 DEF N

LEMMA ShapedMessages ==
  ASSUME NEW ms \in Seq(Shaped)
  PROVE  ms \in Seq(Messages) /\ \A i \in 1..Len(ms) : ms[i] \in Shaped /\ ms[i] \in Messages
<1>1. Shaped \subseteq Messages
  BY DEF Shaped
<1>2. ms \in Seq(Messages)
  BY <1>1, SeqSubset
<1> QED
  BY <1>1, <1>2

\* A block is taken whole, or left out whole.
LEMMA WholeOfRoles ==
  ASSUME NEW torn, NEW roles, {"assistant", "tool"} \subseteq roles,
         NEW ms \in Seq(Shaped), WholeBut(ms, torn)
  PROVE  WholeBut(OfRoles(ms, roles), torn)
<1> DEFINE T == {s \in Seq(Shaped) : WholeBut(OfRoles(s, roles), torn)}
<1>1. <<>> \in T
  <2>1. <<>> \in Seq(Shaped)
    OBVIOUS
  <2> QED
    BY <2>1, OfRolesAppended, EmptyWhole
<1>2. ASSUME NEW a \in Seq(Shaped), NEW b \in Seq(Shaped), a \in T, Block(b, torn)
      PROVE  a \o b \in T
  <2>1. a \in Seq(Messages) /\ b \in Seq(Messages)
        /\ \A i \in 1..Len(b) : b[i] \in Shaped /\ b[i] \in Messages
    BY ShapedMessages
  <2>2. a \o b \in Seq(Shaped)
    OBVIOUS
  <2>3. OfRoles(a \o b, roles) = OfRoles(a, roles) \o OfRoles(b, roles)
    BY <2>1, OfRolesConcat
  <2>4. OfRoles(a, roles) \in Seq(Messages) /\ OfRoles(b, roles) \in Seq(Messages)
    BY <2>1, OfRolesAppended
  <2>5. OfRoles(b, roles) = b \/ OfRoles(b, roles) = <<>>
    <3>1. \/ \A i \in 1..Len(b) : b[i].role \in roles
          \/ \A i \in 1..Len(b) : b[i].role \notin roles
      <4>1. CASE Len(b) = 1
        <5>1. \A i \in 1..Len(b) : i = 1
          BY <4>1
        <5> QED
          BY <5>1
      <4>2. CASE Len(b) # 1
        <5>1. /\ Len(b) >= 1 /\ b[1].calls = Len(b) - 1
              /\ \A k \in 1..(Len(b) - 1) : b[k + 1].role = "tool"
          BY <1>2, <4>2 DEF Block
        <5>0. \A n \in Nat : n >= 1 /\ n # 1 => 1 \in 1..n /\ n - 1 > 0
          OBVIOUS
        <5>6. Len(b) \in Nat
          BY <2>1
        <5>2. Len(b) \in Nat /\ 1 \in 1..Len(b) /\ Len(b) - 1 > 0
          BY <4>2, <5>0, <5>1, <5>6
        <5>3. b[1].role = "assistant"
          BY <2>1, <5>1, <5>2 DEF Shaped
        <5>4. ASSUME NEW i \in 1..Len(b), i # 1 PROVE b[i].role = "tool"
          <6>1. i - 1 \in 1..(Len(b) - 1) /\ i - 1 + 1 = i
            BY <5>2, <5>4
          <6> QED
            BY <5>1, <6>1
        <5> QED
          BY <5>3, <5>4
      <4> QED
        BY <4>1, <4>2
    <3> QED
      BY <2>1, <3>1, OfRolesAll
  <2>6. WholeBut(OfRoles(b, roles), torn)
    BY <1>2, <2>1, <2>5, BlockWhole, EmptyWhole
  <2>7. WholeBut(OfRoles(a, roles), torn)
    BY <1>2
  <2> QED
    BY <2>2, <2>3, <2>4, <2>6, <2>7, WholeConcat
<1> HIDE DEF T
<1>3. ms \in T
  BY <1>1, <1>2, WholeInduction
<1> QED
  BY <1>3 DEF T

\* Messages that are no results and make no calls are whole.
LEMMA ApartWhole ==
  ASSUME NEW ms \in Seq(Shaped), NEW torn,
         \A i \in 1..Len(ms) : ms[i].role \notin {"assistant", "tool"}
  PROVE  WholeBut(ms, torn)
<1> SUFFICES ASSUME NEW i \in 1..Len(ms) PROVE ResultAt(ms, i) /\ CallsAt(ms, i)
  BY DEF WholeBut
<1>1. ms[i] \in Shaped /\ ms[i].calls \in Nat
  BY ShapedMessages, MessageFields
<1>2. ms[i].calls = 0 /\ ms[i].role # "tool"
  BY <1>1 DEF Shaped
<1> QED
  BY <1>2 DEF ResultAt, CallsAt

\* What is left from a message on that is no result is whole.
LEMMA WholeFrom ==
  ASSUME NEW ms \in Seq(Shaped), NEW torn, WholeBut(ms, torn),
         NEW p \in 1..Len(ms), ms[p].role # "tool"
  PROVE  WholeBut(SubSeq(ms, p, Len(ms)), torn)
<1> DEFINE n == Len(ms)
           b == SubSeq(ms, p, n)
           q == p - 1
<1>1. n \in Nat /\ q \in Nat /\ p = q + 1 /\ q < n /\ p \in 1..(n + 1) /\ n \in 0..n
  OBVIOUS
<1>2. /\ b \in Seq(Shaped)
      /\ Len(b) = IF p <= n THEN n - p + 1 ELSE 0
      /\ \A i \in 1..(n - p + 1) : b[i] = ms[p + i - 1]
  BY <1>1, Part
<1> HIDE DEF b, n, q
<1>3. Len(b) = n - q
  BY <1>1, <1>2
<1>4. ASSUME NEW i \in 1..(n - q)
      PROVE  b[i] = ms[q + i] /\ q + i \in 1..n /\ ms[q + i] \in Shaped /\ ms[q + i] \in Messages
  <2>1. i \in 1..(n - p + 1) /\ p + i - 1 = q + i /\ q + i \in 1..n
    BY <1>1
  <2> QED
    BY <1>2, <2>1, ShapedMessages DEF n
<1>5. ms[p].call = 0
  BY <1>1, ShapedMessages, MessageFields DEF Shaped
<1> SUFFICES ASSUME NEW i \in 1..Len(b), b[i].exchange \notin torn
             PROVE  ResultAt(b, i) /\ CallsAt(b, i)
  BY DEF WholeBut, b, n
<1> DEFINE j == q + i
<1>6. i \in 1..(n - q) /\ j \in 1..n /\ b[i] = ms[j] /\ ms[j] \in Messages
  BY <1>3, <1>4
<1> HIDE DEF j
<1>7. ResultAt(ms, j) /\ CallsAt(ms, j)
  BY <1>6 DEF WholeBut, n
<1>8. ResultAt(b, i)
  <2> SUFFICES ASSUME ms[j].role = "tool" PROVE ResultAt(b, i)
    BY <1>6 DEF ResultAt
  <2> DEFINE c == ms[j].call
             a == j - c
  <2>1. /\ c \in Nat /\ j > c /\ ms[j].from = c
        /\ ms[a].exchange = ms[j].exchange /\ ms[a].calls >= c
    BY <1>6, <1>7, MessageFields DEF ResultAt
  <2> HIDE DEF c
  <2>2. a \in 1..n /\ a + c = j /\ ms[a] \in Messages
    <3>1. a \in 1..n /\ a + c = j
      BY <1>1, <1>6, <2>1
    <3> HIDE DEF a
    <3> QED
      BY <1>1, <3>1, ShapedMessages DEF n
  <2>3. a >= p
    <3> SUFFICES ASSUME a < p PROVE FALSE
      BY <1>1, <2>2
    <3> DEFINE k == p - a
    <3>1. k \in 1..c /\ a + k = p
      BY <1>1, <1>6, <2>1, <2>2 DEF j
    <3>2. ms[a].calls \in Nat /\ CallsAt(ms, a)
      BY <1>6, <2>1, <2>2, MessageFields DEF WholeBut, n
    <3>3. k \in 1..ms[a].calls
      <4> DEFINE x == ms[a].calls
      <4>1. x \in Nat /\ x >= c /\ c \in Nat /\ k \in 1..c
        BY <2>1, <3>1, <3>2
      <4> HIDE DEF x, k
      <4>2. k \in 1..x
        BY <4>1
      <4> QED
        BY <4>2 DEF x
    <3>4. ms[a + k].call = k
      BY <3>2, <3>3 DEF CallsAt
    <3> QED
      BY <1>5, <3>1, <3>4
  <2>4. i - c \in 1..(n - q) /\ q + (i - c) = a /\ i > c
    BY <1>1, <1>6, <2>1, <2>2, <2>3 DEF j
  <2>5. b[i - c] = ms[a]
    BY <1>4, <2>4
  <2> QED
    BY <1>6, <2>1, <2>4, <2>5 DEF ResultAt, c
<1>9. CallsAt(b, i)
  <2> SUFFICES ASSUME NEW k \in 1..ms[j].calls
               PROVE  i + k <= Len(b) /\ b[i + k].exchange = b[i].exchange /\ b[i + k].call = k
    BY <1>6 DEF CallsAt
  <2>1. ms[j].calls \in Nat /\ j + k <= n /\ ms[j + k].exchange = ms[j].exchange /\ ms[j + k].call = k
    BY <1>6, <1>7, MessageFields DEF CallsAt, n
  <2>2. i + k \in 1..(n - q) /\ q + (i + k) = j + k
    <3> DEFINE x == ms[j].calls
    <3>1. x \in Nat /\ k \in 1..x
      BY <2>1
    <3>2. j + k <= n
      BY <2>1
    <3> HIDE DEF x
    <3>3. i \in Nat /\ i >= 1 /\ j = q + i /\ k \in Nat
      BY <1>1, <1>6, <3>1 DEF j
    <3> QED
      BY <1>1, <3>2, <3>3
  <2>3. b[i + k] = ms[j + k]
    BY <1>4, <2>2
  <2> QED
    BY <1>3, <1>6, <2>1, <2>2, <2>3
<1> QED
  BY <1>8, <1>9

-----------------------------------------------------------------------------
(* The message limit.                                                      *)

\* The results in front are dropped, up to the first message that is none.
LEMMA OrphansDropped ==
  ASSUME NEW S, NEW ms \in Seq(S)
  PROVE  /\ (\A i \in 1..Len(ms) : ms[i].role = "tool") => WithoutOrphans(ms) = <<>>
         /\ \A p \in 1..Len(ms) :
              ms[p].role # "tool" /\ (\A i \in 1..(p - 1) : ms[i].role = "tool")
              => WithoutOrphans(ms) = SubSeq(ms, p, Len(ms))
<1> DEFINE I == {i \in 1..Len(ms) : ms[i].role # "tool"}
           first == IF I # {} THEN Min(I) ELSE 0
<1>1. WithoutOrphans(ms) = IF first = 0 THEN <<>> ELSE SubSeq(ms, first, Len(ms))
  BY DEF WithoutOrphans, SelectInSeq
<1>2. ASSUME \A i \in 1..Len(ms) : ms[i].role = "tool" PROVE first = 0
  BY <1>2
<1>3. ASSUME NEW p \in 1..Len(ms), ms[p].role # "tool", \A i \in 1..(p - 1) : ms[i].role = "tool"
      PROVE  first = p
  <2>1. p \in I
    BY <1>3
  <2>2. ASSUME NEW i \in I PROVE p <= i
    <3>1. i \in 1..Len(ms) /\ ms[i].role # "tool"
      OBVIOUS
    <3>2. i \notin 1..(p - 1)
      BY <1>3, <3>1
    <3> QED
      BY <3>1, <3>2
  <2>3. I \subseteq Nat /\ p \in Nat
    OBVIOUS
  <2> HIDE DEF I
  <2>4. Min(I) \in I /\ \A i \in I : Min(I) <= i
    BY <2>1, <2>2 DEF Min
  <2>5. Min(I) <= p /\ p <= Min(I) /\ Min(I) \in Nat
    BY <2>1, <2>2, <2>3, <2>4
  <2>6. Min(I) = p
    BY <2>3, <2>5
  <2> QED
    BY <2>1, <2>6
<1> HIDE DEF first
<1>4. \A p \in 1..Len(ms) : p # 0
  OBVIOUS
<1> QED
  BY <1>1, <1>2, <1>3, <1>4

LEMMA FirstOther ==
  ASSUME NEW S, NEW ms \in Seq(S)
  PROVE  \/ \A i \in 1..Len(ms) : ms[i].role = "tool"
         \/ \E p \in 1..Len(ms) :
              ms[p].role # "tool" /\ \A i \in 1..(p - 1) : ms[i].role = "tool"
<1> DEFINE I == {i \in 1..Len(ms) : ms[i].role # "tool"}
<1> SUFFICES ASSUME I # {}
             PROVE  \E p \in 1..Len(ms) :
                      ms[p].role # "tool" /\ \A i \in 1..(p - 1) : ms[i].role = "tool"
  OBVIOUS
<1>1. I \in SUBSET Nat
  OBVIOUS
<1>2. PICK p \in I : \A i \in I : ~(i < p)
  BY <1>1, LeastElement
<1>3. p \in 1..Len(ms) /\ ms[p].role # "tool" /\ Len(ms) \in Nat
  OBVIOUS
<1>4. ASSUME NEW i \in 1..(p - 1) PROVE ms[i].role = "tool"
  <2>1. i \in 1..Len(ms) /\ i < p
    BY <1>3
  <2> QED
    BY <1>2, <2>1
<1> QED
  BY <1>3, <1>4

\* Where the end of a sequence begins.
LEMMA LastOfIs ==
  ASSUME NEW S, NEW ms \in Seq(S), NEW k \in Int
  PROVE  \/ LastOf(ms, k) = <<>>
         \/ \E q \in 1..(Len(ms) + 1) : LastOf(ms, k) = SubSeq(ms, q, Len(ms))
<1> DEFINE q == IF Len(ms) > k THEN Len(ms) - k + 1 ELSE 1
<1>1. Len(ms) \in Nat /\ q \in Int /\ q >= 1
  OBVIOUS
<1>2. LastOf(ms, k) = SubSeq(ms, q, Len(ms))
  BY DEF LastOf
<1> HIDE DEF q
<1>3. CASE q <= Len(ms) + 1
  <2>1. q \in 1..(Len(ms) + 1)
    BY <1>1, <1>3
  <2> QED
    BY <1>2, <2>1
<1>4. CASE q > Len(ms) + 1
  <2>1. Len(ms) \in Int /\ Len(ms) < q
    BY <1>1, <1>4
  <2> QED
    BY <1>1, <1>2, <2>1, SubSeqEmpty
<1> QED
  BY <1>1, <1>3, <1>4

\* The end of a sequence without the results in front of it begins with no result.
LEMMA TrimmedIs ==
  ASSUME NEW S, NEW ms \in Seq(S), NEW k \in Int
  PROVE  \/ WithoutOrphans(LastOf(ms, k)) = <<>>
         \/ \E p \in 1..Len(ms) :
              /\ ms[p].role # "tool"
              /\ WithoutOrphans(LastOf(ms, k)) = SubSeq(ms, p, Len(ms))
<1> DEFINE n == Len(ms)
<1>1. n \in Nat
  OBVIOUS
<1>2. CASE LastOf(ms, k) = <<>>
  <2>1. <<>> \in Seq(S) /\ \A i \in 1..Len(<<>>) : <<>>[i].role = "tool"
    OBVIOUS
  <2> QED
    BY <1>2, <2>1, OrphansDropped
<1>3. ASSUME NEW q \in 1..(n + 1), LastOf(ms, k) = SubSeq(ms, q, n)
      PROVE  \/ WithoutOrphans(LastOf(ms, k)) = <<>>
             \/ \E p \in 1..n :
                  /\ ms[p].role # "tool"
                  /\ WithoutOrphans(LastOf(ms, k)) = SubSeq(ms, p, n)
  <2> DEFINE s == SubSeq(ms, q, n)
  <2>1. /\ s \in Seq(S)
        /\ Len(s) = IF q <= n THEN n - q + 1 ELSE 0
        /\ \A i \in 1..(n - q + 1) : s[i] = ms[q + i - 1]
    <3>1. n \in 0..n
      BY <1>1
    <3> QED
      BY <3>1, Part
  <2> HIDE DEF n, s
  <2>2. Len(s) = n - q + 1
    BY <1>1, <2>1
  <2>3. CASE \A i \in 1..Len(s) : s[i].role = "tool"
    BY <1>3, <2>1, <2>3, OrphansDropped DEF s
  <2>4. ASSUME NEW r \in 1..Len(s), s[r].role # "tool", \A i \in 1..(r - 1) : s[i].role = "tool"
        PROVE  \E p \in 1..n :
                 ms[p].role # "tool" /\ WithoutOrphans(LastOf(ms, k)) = SubSeq(ms, p, n)
    <3>1. WithoutOrphans(s) = SubSeq(s, r, Len(s))
      BY <2>1, <2>4, OrphansDropped
    <3>2. r \in 1..(n - q + 1) /\ q + r - 1 \in 1..n /\ q \in 1..n /\ n \in 1..n
      BY <1>1, <2>2
    <3>3. s[r] = ms[q + r - 1]
      BY <2>1, <3>2
    <3>4. SubSeq(SubSeq(ms, q, n), r, n - q + 1) = SubSeq(ms, q + r - 1, q + (n - q + 1) - 1)
      <4>1. n - q + 1 \in 1..(n - q + 1)
        BY <1>1, <3>2
      <4> QED
        BY <3>2, <4>1, SubSeqOfSubSeq DEF n
    <3>5. q + (n - q + 1) - 1 = n
      BY <1>1
    <3>6. WithoutOrphans(LastOf(ms, k)) = SubSeq(ms, q + r - 1, n)
      BY <1>3, <2>2, <3>1, <3>4, <3>5 DEF s
    <3> QED
      BY <2>4, <3>2, <3>3, <3>6
  <2> QED
    BY <2>1, <2>3, <2>4, FirstOther
<1> QED
  BY <1>2, <1>3, LastOfIs

LEMMA TrimmedType ==
  ASSUME NEW S, NEW ms \in Seq(S), NEW k \in Int
  PROVE  WithoutOrphans(LastOf(ms, k)) \in Seq(S)
<1>1. <<>> \in Seq(S)
  OBVIOUS
<1>2. ASSUME NEW p \in 1..Len(ms) PROVE SubSeq(ms, p, Len(ms)) \in Seq(S)
  <2>1. p \in 1..(Len(ms) + 1) /\ Len(ms) \in 0..Len(ms)
    OBVIOUS
  <2> QED
    BY <2>1, Part
<1> QED
  BY <1>1, <1>2, TrimmedIs

LEMMA TrimmedWhole ==
  ASSUME NEW ms \in Seq(Shaped), NEW torn, WholeBut(ms, torn), NEW k \in Int
  PROVE  WholeBut(WithoutOrphans(LastOf(ms, k)), torn)
  BY TrimmedIs, WholeFrom, EmptyWhole

\* The end of a sequence that ends with b is b, after the end of what is before it.
LEMMA SuffixConcat ==
  ASSUME NEW S, NEW a \in Seq(S), NEW b \in Seq(S), NEW q \in 1..(Len(a) + 1)
  PROVE  SubSeq(a \o b, q, Len(a \o b)) = SubSeq(a, q, Len(a)) \o b
<1> DEFINE c == a \o b
           n == Len(a)
           l == Len(b)
           s == SubSeq(a, q, n)
           t == SubSeq(c, q, Len(c))
           d == n - q + 1
<1>1. /\ c \in Seq(S) /\ Len(c) = n + l /\ n \in Nat /\ l \in Nat
      /\ \A i \in 1..n : c[i] = a[i]
      /\ \A i \in 1..l : c[n + i] = b[i]
  BY ConcatAt
<1>2. /\ s \in Seq(S)
      /\ Len(s) = IF q <= n THEN n - q + 1 ELSE 0
      /\ \A i \in 1..(n - q + 1) : s[i] = a[q + i - 1]
  <2>1. n \in 0..n
    BY <1>1
  <2> QED
    BY <2>1, Part
<1> HIDE DEF c
<1>3. /\ t \in Seq(S)
      /\ Len(t) = IF q <= n + l THEN n + l - q + 1 ELSE 0
      /\ \A i \in 1..(n + l - q + 1) : t[i] = c[q + i - 1]
  <2>1. q \in 1..(Len(c) + 1) /\ Len(c) \in 0..Len(c)
    BY <1>1
  <2> QED
    BY <1>1, <2>1, Part
<1> HIDE DEF n, l, s, t
<1>4. Len(s) = d /\ d \in Nat /\ Len(t) = d + l /\ d = n - q + 1
  BY <1>1, <1>2, <1>3 DEF n
<1> HIDE DEF d
<1>5. /\ s \o b \in Seq(S) /\ Len(s \o b) = d + l
      /\ \A i \in 1..d : (s \o b)[i] = s[i]
      /\ \A i \in 1..l : (s \o b)[d + i] = b[i]
  <2>1. /\ s \o b \in Seq(S) /\ Len(s \o b) = Len(s) + Len(b)
        /\ \A i \in 1..Len(s) : (s \o b)[i] = s[i]
        /\ \A i \in 1..Len(b) : (s \o b)[Len(s) + i] = b[i]
    <3>1. s \in Seq(S) /\ b \in Seq(S)
      BY <1>2
    <3> QED
      BY <3>1, ConcatAt
  <2> QED
    BY <1>4, <2>1 DEF l
<1>6. ASSUME NEW i \in 1..(d + l) PROVE t[i] = (s \o b)[i]
  <2>1. t[i] = c[q + i - 1]
    <3>1. i \in 1..(n + l - q + 1)
      BY <1>1, <1>4
    <3> QED
      BY <1>3, <3>1
  <2>2. CASE i <= d
    <3>1. i \in 1..d /\ i \in 1..(n - q + 1) /\ q + i - 1 \in 1..n
      BY <1>1, <1>4, <2>2
    <3> QED
      BY <1>1, <1>2, <1>5, <2>1, <3>1
  <2>3. CASE i > d
    <3> DEFINE j == i - d
    <3>1. j \in 1..l /\ i = d + j /\ q + i - 1 = n + j
      BY <1>1, <1>4, <2>3
    <3> HIDE DEF j
    <3>2. t[i] = c[n + j] /\ (s \o b)[i] = b[j] /\ c[n + j] = b[j]
      BY <1>1, <1>5, <2>1, <3>1
    <3> QED
      BY <3>2
  <2>4. i \in Int /\ d \in Int
    BY <1>1, <1>4
  <2>5. i <= d \/ i > d
    BY <2>4
  <2> QED
    BY <2>2, <2>3, <2>5
<1>7. t = s \o b
  <2> DEFINE u == s \o b
  <2>1. t \in Seq(S) /\ u \in Seq(S) /\ Len(t) = d + l /\ Len(u) = d + l
    BY <1>3, <1>4, <1>5
  <2>2. \A i \in 1..(d + l) : t[i] = u[i]
    BY <1>6
  <2> HIDE DEF u
  <2>3. t = u
    BY <2>1, <2>2
  <2> QED
    BY <2>3 DEF u
<1> QED
  BY <1>7 DEF t, s, c, n

LEMMA LastOfConcat ==
  ASSUME NEW S, NEW a \in Seq(S), NEW b \in Seq(S), NEW k \in Int, k >= Len(b)
  PROVE  LastOf(a \o b, k) = LastOf(a, k - Len(b)) \o b
<1> DEFINE n == Len(a)
           l == Len(b)
           q == IF n > k - l THEN n - (k - l) + 1 ELSE 1
<1>1. n \in Nat /\ l \in Nat /\ Len(a \o b) = n + l
  OBVIOUS
<1>2. LastOf(a, k - l) = SubSeq(a, q, n)
  BY DEF LastOf
<1>3. LastOf(a \o b, k) = SubSeq(a \o b, IF n + l > k THEN n + l - k + 1 ELSE 1, Len(a \o b))
  BY <1>1 DEF LastOf
<1> HIDE DEF n, l
<1>4. (IF n + l > k THEN n + l - k + 1 ELSE 1) = q /\ q \in 1..(n + 1)
  BY <1>1 DEF l
<1> HIDE DEF q
<1>5. SubSeq(a \o b, q, Len(a \o b)) = SubSeq(a, q, n) \o b
  BY <1>4, SuffixConcat DEF n
<1> QED
  BY <1>2, <1>3, <1>4, <1>5 DEF l

LEMMA OrphansConcat ==
  ASSUME NEW S, NEW a \in Seq(S), NEW b \in Seq(S), Len(b) >= 1, b[1].role # "tool"
  PROVE  WithoutOrphans(a \o b) = WithoutOrphans(a) \o b
<1> DEFINE c == a \o b
           n == Len(a)
<1>1. /\ c \in Seq(S) /\ Len(c) = n + Len(b) /\ n \in Nat /\ Len(b) \in Nat
      /\ \A i \in 1..n : c[i] = a[i]
      /\ \A i \in 1..Len(b) : c[n + i] = b[i]
  BY ConcatAt
<1> HIDE DEF c
<1>2. ASSUME NEW p \in 1..(n + 1), c[p].role # "tool", \A i \in 1..(p - 1) : c[i].role = "tool"
      PROVE  WithoutOrphans(c) = SubSeq(a, p, n) \o b
  <2>1. p \in 1..Len(c)
    BY <1>1
  <2>2. WithoutOrphans(c) = SubSeq(c, p, Len(c))
    BY <1>1, <1>2, <2>1, OrphansDropped
  <2> QED
    BY <2>2, SuffixConcat DEF c
<1>3. CASE \A i \in 1..n : a[i].role = "tool"
  <2>1. n + 1 \in 1..(n + 1) /\ n + 1 - 1 = n /\ 1 \in 1..Len(b)
    BY <1>1
  <2>2. c[n + 1].role # "tool" /\ \A i \in 1..(n + 1 - 1) : c[i].role = "tool"
    BY <1>1, <1>3, <2>1
  <2>3. WithoutOrphans(c) = SubSeq(a, n + 1, n) \o b
    BY <1>2, <2>1, <2>2
  <2>4. SubSeq(a, n + 1, n) = <<>>
    <3>1. n + 1 \in Int /\ n \in Int /\ n < n + 1
      BY <1>1
    <3> QED
      BY <3>1, SubSeqEmpty
  <2>5. WithoutOrphans(a) = <<>>
    BY <1>3, OrphansDropped
  <2> QED
    BY <2>3, <2>4, <2>5 DEF c
<1>4. ASSUME NEW p \in 1..n, a[p].role # "tool", \A i \in 1..(p - 1) : a[i].role = "tool"
      PROVE  WithoutOrphans(c) = WithoutOrphans(a) \o b
  <2>1. WithoutOrphans(a) = SubSeq(a, p, n)
    BY <1>4, OrphansDropped
  <2>2. p \in 1..(n + 1) /\ \A i \in 1..(p - 1) : i \in 1..n
    BY <1>1
  <2>3. c[p].role # "tool" /\ \A i \in 1..(p - 1) : c[i].role = "tool"
    BY <1>1, <1>4, <2>2
  <2> QED
    BY <1>2, <2>1, <2>2, <2>3
<1> QED
  BY <1>3, <1>4, FirstOther DEF c

LEMMA SystemsLimit ==
  ASSUME NEW S \in SUBSET Messages, NEW ms \in Seq(S)
  PROVE  /\ ms \in Seq(Messages)
         /\ Systems(ms) \in Seq(S) /\ Others(ms) \in Seq(S)
         /\ \A i \in 1..Len(Systems(ms)) : Systems(ms)[i].role \in SystemRoles
         /\ \A i \in 1..Len(Others(ms)) : Others(ms)[i].role \in Roles \ SystemRoles
         /\ MaxMessages - Len(Systems(ms)) \in Int
<1>1. \A roles : OfRoles(ms, roles) \in Seq({m \in S : m.role \in roles})
  BY OfRolesType
<1>2. ASSUME NEW roles
      PROVE  /\ OfRoles(ms, roles) \in Seq(S)
             /\ \A i \in 1..Len(OfRoles(ms, roles)) : OfRoles(ms, roles)[i].role \in roles
  <2>1. {m \in S : m.role \in roles} \subseteq S
    OBVIOUS
  <2>2. OfRoles(ms, roles) \in Seq({m \in S : m.role \in roles})
    BY <1>1
  <2>3. OfRoles(ms, roles) \in Seq(S)
    BY <2>1, <2>2, SeqSubset
  <2> QED
    BY <2>2, <2>3
<1>3. Len(Systems(ms)) \in Nat
  BY <1>2 DEF Systems
<1>4. ms \in Seq(Messages)
  BY SeqSubset
<1> QED
  BY <1>2, <1>3, <1>4, MessagesAssumption DEF Systems, Others

\* What is kept of the other messages.
Kept(ms) == WithoutOrphans(LastOf(Others(ms), MaxMessages - Len(Systems(ms))))

LEMMA KeptType ==
  ASSUME NEW S \in SUBSET Messages, NEW ms \in Seq(S)
  PROVE  /\ Kept(ms) \in Seq(S)
         /\ \A i \in 1..Len(Kept(ms)) : Kept(ms)[i].role \notin SystemRoles
         /\ Limited(ms) = ms \/ Limited(ms) = Systems(ms) \o Kept(ms)
<1>1. Others(ms) \in Seq(S) /\ MaxMessages - Len(Systems(ms)) \in Int
  BY SystemsLimit
<1> DEFINE U == {m \in S : m.role \in Roles \ SystemRoles}
<1>2. Others(ms) \in Seq(U)
  BY OfRolesType DEF Others
<1>3. U \subseteq S /\ \A m \in U : m.role \notin SystemRoles
  OBVIOUS
<1> HIDE DEF U
<1>4. Kept(ms) \in Seq(U)
  BY <1>1, <1>2, TrimmedType DEF Kept
<1>5. Kept(ms) \in Seq(S)
  BY <1>3, <1>4, SeqSubset
<1>6. \A i \in 1..Len(Kept(ms)) : Kept(ms)[i] \in U
  BY <1>4
<1> QED
  BY <1>3, <1>5, <1>6 DEF Limited, Kept

LEMMA LimitedType ==
  ASSUME NEW S \in SUBSET Messages, NEW ms \in Seq(S)
  PROVE  Limited(ms) \in Seq(S)
<1>1. Systems(ms) \in Seq(S) /\ Kept(ms) \in Seq(S)
  BY SystemsLimit, KeptType
<1>2. Systems(ms) \o Kept(ms) \in Seq(S)
  BY <1>1
<1> QED
  BY <1>2, KeptType

\* The limit drops no system message.
LEMMA LimitedSystems ==
  ASSUME NEW ms \in Seq(Messages), NEW few, few \subseteq SystemRoles
  PROVE  OfRoles(Limited(ms), few) = OfRoles(ms, few)
<1>1. /\ Systems(ms) \in Seq(Messages) /\ Kept(ms) \in Seq(Messages)
      /\ \A i \in 1..Len(Kept(ms)) : Kept(ms)[i].role \notin SystemRoles
  BY SystemsLimit, KeptType
<1>2. OfRoles(Systems(ms) \o Kept(ms), few) = OfRoles(Systems(ms), few) \o OfRoles(Kept(ms), few)
  BY <1>1, OfRolesConcat
<1>3. OfRoles(Systems(ms), few) = OfRoles(ms, few)
  BY OfRolesTwice DEF Systems
<1>4. OfRoles(Kept(ms), few) = <<>>
  BY <1>1, OfRolesAll
<1>5. OfRoles(ms, few) \in Seq(Messages)
  BY OfRolesAppended
<1>6. OfRoles(ms, few) \o <<>> = OfRoles(ms, few)
  BY <1>5
<1> QED
  BY <1>2, <1>3, <1>4, <1>6, KeptType

LEMMA SystemsWhole ==
  ASSUME NEW ms \in Seq(Shaped), NEW torn, NEW few, few \subseteq SystemRoles
  PROVE  OfRoles(ms, few) \in Seq(Shaped) /\ WholeBut(OfRoles(ms, few), torn)
<1> DEFINE U == {m \in Shaped : m.role \in few}
<1>1. Shaped \in SUBSET Messages
  BY DEF Shaped
<1>2. OfRoles(ms, few) \in Seq(U)
  BY <1>1, OfRolesType
<1>3. U \subseteq Shaped /\ \A m \in U : m.role \notin {"assistant", "tool"}
  BY DEF SystemRoles
<1> HIDE DEF U
<1>4. OfRoles(ms, few) \in Seq(Shaped)
  BY <1>2, <1>3, SeqSubset
<1>5. \A i \in 1..Len(OfRoles(ms, few)) : OfRoles(ms, few)[i] \in U
  BY <1>2
<1> QED
  BY <1>3, <1>4, <1>5, ApartWhole

LEMMA OthersWhole ==
  ASSUME NEW ms \in Seq(Shaped), NEW torn, WholeBut(ms, torn)
  PROVE  Others(ms) \in Seq(Shaped) /\ WholeBut(Others(ms), torn)
<1>1. {"assistant", "tool"} \subseteq Roles \ SystemRoles /\ Shaped \in SUBSET Messages
  BY DEF Roles, SystemRoles, Shaped
<1>2. WholeBut(OfRoles(ms, Roles \ SystemRoles), torn)
  BY <1>1, WholeOfRoles
<1>3. Others(ms) \in Seq(Shaped)
  BY <1>1, SystemsLimit
<1> QED
  BY <1>2, <1>3 DEF Others

\* The message limit keeps what is whole whole.
LEMMA LimitedWhole ==
  ASSUME NEW ms \in Seq(Shaped), NEW torn, WholeBut(ms, torn)
  PROVE  WholeBut(Limited(ms), torn)
<1>1. Shaped \in SUBSET Messages /\ ms \in Seq(Messages)
  BY ShapedMessages DEF Shaped
<1>2. Systems(ms) \in Seq(Shaped) /\ WholeBut(Systems(ms), torn)
  BY SystemsWhole DEF Systems
<1>3. /\ Others(ms) \in Seq(Shaped) /\ WholeBut(Others(ms), torn)
      /\ MaxMessages - Len(Systems(ms)) \in Int
  BY <1>1, OthersWhole, SystemsLimit
<1>4. Kept(ms) \in Seq(Shaped) /\ WholeBut(Kept(ms), torn)
  BY <1>1, <1>3, TrimmedWhole, KeptType DEF Kept
<1>5. WholeBut(Systems(ms) \o Kept(ms), torn)
  BY <1>2, <1>4, ShapedMessages, WholeConcat
<1> QED
  BY <1>1, <1>5, KeptType

\* The message limit keeps an exchange at the end that it has room for.
LEMMA LimitedBlock ==
  ASSUME NEW f \in Seq(Shaped), NEW torn, WholeBut(f, torn),
         Len(Systems(f)) + MaxCalls + 1 <= MaxMessages,
         NEW b \in Seq(Shaped), Len(b) >= 1, Len(b) <= MaxCalls + 1, b[1].role # "tool",
         \A i \in 1..Len(b) : b[i].role \in Roles \ SystemRoles
  PROVE  \E g \in Seq(Shaped) :
           /\ Limited(f \o b) = g \o b
           /\ WholeBut(g, torn)
           /\ \A few \in SUBSET SystemRoles : OfRoles(g, few) = OfRoles(f, few)
<1>0. Shaped \in SUBSET Messages /\ f \in Seq(Messages) /\ b \in Seq(Messages)
  BY ShapedMessages DEF Shaped
<1>1. CASE Limited(f \o b) = f \o b
  BY <1>1
<1>2. CASE Limited(f \o b) # f \o b
  <2> DEFINE c == f \o b
             k == MaxMessages - Len(Systems(c))
             j == k - Len(b)
             w == WithoutOrphans(LastOf(Others(f), j))
             g == Systems(f) \o w
  <2>1. c \in Seq(Shaped) /\ c \in Seq(Messages)
    BY <1>0
  <2>2. Limited(c) = Systems(c) \o WithoutOrphans(LastOf(Others(c), k))
    BY <1>2, <2>1, KeptType DEF Kept
  <2>3. Systems(f) \in Seq(Shaped) /\ Others(f) \in Seq(Shaped)
    BY <1>0, SystemsLimit
  <2>4. Systems(c) = Systems(f)
    <3>1. Systems(c) = Systems(f) \o OfRoles(b, SystemRoles)
      BY <1>0, OfRolesConcat DEF Systems
    <3>2. OfRoles(b, SystemRoles) = <<>>
      BY <1>0, OfRolesAll
    <3> QED
      BY <2>3, <3>1, <3>2
  <2>5. Others(c) = Others(f) \o b
    <3>1. Others(c) = Others(f) \o OfRoles(b, Roles \ SystemRoles)
      BY <1>0, OfRolesConcat DEF Others
    <3>2. OfRoles(b, Roles \ SystemRoles) = b
      BY <1>0, OfRolesAll
    <3> QED
      BY <3>1, <3>2
  <2>6. k \in Int /\ k >= Len(b) /\ j \in Int
    <3>1. Len(Systems(f)) \in Nat /\ Len(b) \in Nat
      BY <2>3
    <3>2. MaxCalls \in Nat /\ MaxMessages \in Nat
      BY BoundsAssumption, MessagesAssumption
    <3> QED
      BY <2>4, <3>1, <3>2
  <2> HIDE DEF c, k
  <2>7. LastOf(Others(c), k) = LastOf(Others(f), j) \o b
    BY <2>3, <2>5, <2>6, LastOfConcat
  <2>8. LastOf(Others(f), j) \in Seq(Shaped)
    <3>1. ASSUME NEW q \in 1..(Len(Others(f)) + 1)
          PROVE  SubSeq(Others(f), q, Len(Others(f))) \in Seq(Shaped)
      <4>1. Len(Others(f)) \in 0..Len(Others(f))
        BY <2>3
      <4> QED
        BY <2>3, <4>1, Part
    <3>2. <<>> \in Seq(Shaped)
      OBVIOUS
    <3> QED
      BY <2>3, <2>6, <3>1, <3>2, LastOfIs
  <2>9. WithoutOrphans(LastOf(Others(c), k)) = w \o b
    BY <2>7, <2>8, OrphansConcat
  <2>10. w \in Seq(Shaped) /\ WholeBut(w, torn)
    BY <2>3, <2>6, OthersWhole, TrimmedType, TrimmedWhole
  <2>11. Systems(f) \in Seq(Shaped) /\ WholeBut(Systems(f), torn)
    BY SystemsWhole DEF Systems
  <2>12. g \in Seq(Shaped) /\ w \in Seq(Messages) /\ Systems(f) \in Seq(Messages)
    BY <2>10, <2>11, ShapedMessages
  <2>13. WholeBut(g, torn)
    BY <2>10, <2>11, <2>12, WholeConcat
  <2>14. Limited(c) = g \o b
    <3>1. Limited(c) = Systems(f) \o (w \o b)
      BY <2>2, <2>4, <2>9
    <3> HIDE DEF w
    <3>2. Systems(f) \o (w \o b) = (Systems(f) \o w) \o b
      BY <2>10, <2>11
    <3> QED
      BY <3>1, <3>2
  <2>15. ASSUME NEW few \in SUBSET SystemRoles PROVE OfRoles(g, few) = OfRoles(f, few)
    <3>1. OfRoles(g, few) = OfRoles(Systems(f), few) \o OfRoles(w, few)
      BY <2>12, OfRolesConcat
    <3>2. OfRoles(Systems(f), few) = OfRoles(f, few)
      BY <1>0, OfRolesTwice DEF Systems
    <3>3. OfRoles(w, few) = <<>>
      <4> DEFINE U == {m \in Shaped : m.role \in Roles \ SystemRoles}
      <4>1. Others(f) \in Seq(U)
        BY <1>0, OfRolesType DEF Others
      <4> HIDE DEF U
      <4>2. w \in Seq(U)
        BY <2>6, <4>1, TrimmedType
      <4> HIDE DEF w
      <4>3. \A i \in 1..Len(w) : w[i].role \notin few
        BY <4>2 DEF U
      <4> QED
        BY <2>12, <4>3, OfRolesAll
    <3>4. OfRoles(f, few) \in Seq(Messages)
      BY <1>0, OfRolesAppended
    <3>5. OfRoles(f, few) \o <<>> = OfRoles(f, few)
      BY <3>4
    <3> QED
      BY <3>1, <3>2, <3>3, <3>5
  <2> HIDE DEF g
  <2> QED
    BY <2>12, <2>13, <2>14, <2>15 DEF c
<1> QED
  BY <1>1, <1>2

-----------------------------------------------------------------------------
(* What the run makes of the memory.                                       *)

Summaries(ms) == OfRoles(ms, {"summary"})

\* Messages whose prompts and summaries are few, and whose exchanges are whole.
Talk(ms, torn, prompts) ==
  /\ ms \in Seq(Shaped)
  /\ WholeBut(ms, torn)
  /\ Len(Prompts(ms)) <= prompts
  /\ Len(Summaries(ms)) <= 1

LEMMA PlainShaped ==
  ASSUME NEW role \in {"system", "summary", "user", "assistant"}
  PROVE  /\ Plain(role) \in Shaped /\ Plain(role) \in Messages
         /\ Plain(role).role = role
         /\ \A torn : Block(<<Plain(role)>>, torn)
<1>1. 0 \in 0..MaxExchanges /\ 0 \in 0..MaxCalls /\ role \in Roles
  BY BoundsAssumption DEF Roles, SystemRoles
<1>2. /\ Plain(role) \in Shaped /\ Plain(role) \in Messages
      /\ Plain(role).role = role /\ Plain(role).calls = 0
  BY <1>1 DEF Plain, Message, Messages, Shaped
<1> DEFINE b == <<Plain(role)>>
<1>3. Len(b) = 1 /\ b[1] = Plain(role) /\ Len(b) - 1 = 0
  OBVIOUS
<1> HIDE DEF b
<1>4. ASSUME NEW torn PROVE Block(b, torn)
  BY <1>2, <1>3 DEF Block
<1> QED
  BY <1>2, <1>4 DEF b

LEMMA OneOf ==
  ASSUME NEW m \in Messages, NEW roles
  PROVE  OfRoles(<<m>>, roles) = IF m.role \in roles THEN <<m>> ELSE <<>>
<1>1. <<m>> \in Seq(Messages) /\ Len(<<m>>) = 1 /\ <<m>>[1] = m /\ \A i \in 1..1 : i = 1
  OBVIOUS
<1> QED
  BY <1>1, OfRolesAll

LEMMA ShapedConcat ==
  ASSUME NEW a \in Seq(Shaped), NEW b \in Seq(Shaped)
  PROVE  /\ a \o b \in Seq(Shaped)
         /\ \A torn : WholeBut(a, torn) /\ WholeBut(b, torn) => WholeBut(a \o b, torn)
         /\ \A roles : OfRoles(a \o b, roles) = OfRoles(a, roles) \o OfRoles(b, roles)
<1>1. a \in Seq(Messages) /\ b \in Seq(Messages) /\ a \o b \in Seq(Shaped)
  BY ShapedMessages
<1> QED
  BY <1>1, WholeConcat, OfRolesConcat

\* One message more, within the message limit.
LEMMA AddedOne ==
  ASSUME NEW ms \in Seq(Shaped), NEW m \in Shaped
  PROVE  /\ Added(ms, m) \in Seq(Shaped)
         /\ \A torn : WholeBut(ms, torn) /\ Block(<<m>>, torn) => WholeBut(Added(ms, m), torn)
         /\ \A few \in SUBSET SystemRoles :
              OfRoles(Added(ms, m), few) =
                IF m.role \in few THEN Append(OfRoles(ms, few), m) ELSE OfRoles(ms, few)
<1> DEFINE c == Append(ms, m)
<1>1. Shaped \in SUBSET Messages /\ ms \in Seq(Messages) /\ m \in Messages
  BY ShapedMessages DEF Shaped
<1>2. c \in Seq(Shaped) /\ c \in Seq(Messages) /\ <<m>> \in Seq(Shaped) /\ c = ms \o <<m>>
  BY <1>1
<1>3. Added(ms, m) = Limited(c)
  BY DEF Added
<1> HIDE DEF c
<1>4. Limited(c) \in Seq(Shaped)
  BY <1>1, <1>2, LimitedType
<1>5. ASSUME NEW torn, WholeBut(ms, torn), Block(<<m>>, torn) PROVE WholeBut(Limited(c), torn)
  <2>1. <<m>> \in Seq(Messages)
    BY <1>1
  <2>2. WholeBut(<<m>>, torn)
    BY <1>5, <2>1, BlockWhole
  <2>3. WholeBut(c, torn)
    BY <1>2, <1>5, <2>2, ShapedConcat
  <2> QED
    BY <1>2, <2>3, LimitedWhole
<1>6. ASSUME NEW few \in SUBSET SystemRoles
      PROVE  OfRoles(Limited(c), few) =
               IF m.role \in few THEN Append(OfRoles(ms, few), m) ELSE OfRoles(ms, few)
  <2>1. OfRoles(Limited(c), few) = OfRoles(c, few)
    BY <1>2, LimitedSystems
  <2>2. OfRoles(Append(ms, m), few) =
          IF m.role \in few THEN Append(OfRoles(ms, few), m) ELSE OfRoles(ms, few)
    BY <1>1, OfRolesAppended
  <2> QED
    BY <2>1, <2>2 DEF c
<1> QED
  BY <1>3, <1>4, <1>5, <1>6

LEMMA CountsType ==
  ASSUME NEW ms \in Seq(Shaped)
  PROVE  Len(Prompts(ms)) \in Nat /\ Len(Summaries(ms)) \in Nat /\ Prompts(ms) \in Seq(Shaped)
<1>1. ms \in Seq(Messages)
  BY ShapedMessages
<1>2. \A roles : OfRoles(ms, roles) \in Seq(Messages)
  BY <1>1, OfRolesAppended
<1>3. Prompts(ms) \in Seq(Shaped)
  <2>1. {"system"} \subseteq SystemRoles
    BY DEF SystemRoles
  <2> QED
    BY <2>1, SystemsWhole DEF Prompts
<1> QED
  BY <1>2, <1>3 DEF Prompts, Summaries

LEMMA AddedTalk ==
  ASSUME NEW ms, NEW torn, NEW n \in Nat, Talk(ms, torn, n),
         NEW m \in Shaped, Block(<<m>>, torn), m.role # "summary"
  PROVE  Talk(Added(ms, m), torn, IF m.role = "system" THEN n + 1 ELSE n)
<1>1. {"system"} \in SUBSET SystemRoles /\ {"summary"} \in SUBSET SystemRoles
  BY DEF SystemRoles
<1>2. ms \in Seq(Shaped) /\ WholeBut(ms, torn) /\ Len(Prompts(ms)) <= n /\ Len(Summaries(ms)) <= 1
  BY DEF Talk
<1>3. Added(ms, m) \in Seq(Shaped) /\ WholeBut(Added(ms, m), torn)
  BY <1>2, AddedOne
<1>4. Summaries(Added(ms, m)) = Summaries(ms)
  BY <1>1, <1>2, AddedOne DEF Summaries
<1>5. Prompts(Added(ms, m)) = IF m.role = "system" THEN Append(Prompts(ms), m) ELSE Prompts(ms)
  BY <1>1, <1>2, AddedOne DEF Prompts
<1>6. Len(Append(Prompts(ms), m)) = Len(Prompts(ms)) + 1 /\ Len(Prompts(ms)) \in Nat
  BY <1>2, CountsType
<1>7. Len(Prompts(Added(ms, m))) <= IF m.role = "system" THEN n + 1 ELSE n
  BY <1>2, <1>5, <1>6
<1> QED
  BY <1>2, <1>3, <1>4, <1>7 DEF Talk

LEMMA TalkMore ==
  ASSUME NEW ms, NEW torn, NEW n \in Nat, Talk(ms, torn, n), NEW k \in Nat, n <= k
  PROVE  Talk(ms, torn, k)
<1>1. ms \in Seq(Shaped) /\ Len(Prompts(ms)) <= n
  BY DEF Talk
<1>2. Len(Prompts(ms)) <= k
  BY <1>1, CountsType
<1> QED
  BY <1>2 DEF Talk

LEMMA GuidedTalk ==
  ASSUME NEW ms, NEW torn, NEW n \in Nat, Talk(ms, torn, n)
  PROVE  Talk(Guided(ms), torn, n + 1)
<1>1. /\ Plain("system") \in Shaped /\ Block(<<Plain("system")>>, torn)
      /\ Plain("system").role = "system"
  BY PlainShaped
<1>2. Talk(Added(ms, Plain("system")), torn, n + 1)
  BY <1>1, AddedTalk
<1>3. n + 1 \in Nat /\ n <= n + 1
  OBVIOUS
<1>4. Talk(ms, torn, n + 1)
  BY <1>3, TalkMore
<1> QED
  BY <1>2, <1>4 DEF Guided

\* The prompt comes first, and is the only one.
LEMMA PromptedTalk ==
  ASSUME NEW ms \in Seq(Shaped), NEW torn, WholeBut(ms, torn), Len(Summaries(ms)) <= 1
  PROVE  Talk(Prompted(ms), torn, 1)
<1> DEFINE p == Plain("system")
           rest == OfRoles(ms, Roles \ {"system"})
<1>1. /\ p \in Shaped /\ p \in Messages /\ Block(<<p>>, torn) /\ p.role = "system"
      /\ <<p>> \in Seq(Shaped) /\ <<p>> \in Seq(Messages)
  BY PlainShaped
<1>2. Prompted(ms) = <<p>> \o rest
  BY DEF Prompted
<1> HIDE DEF p
<1>3. Shaped \in SUBSET Messages /\ ms \in Seq(Messages)
  BY ShapedMessages DEF Shaped
<1>4. rest \in Seq(Shaped) /\ \A i \in 1..Len(rest) : rest[i].role # "system"
  <2> DEFINE U == {m \in Shaped : m.role \in Roles \ {"system"}}
  <2>1. rest \in Seq(U)
    BY <1>3, OfRolesType
  <2>2. U \subseteq Shaped /\ \A m \in U : m.role # "system"
    OBVIOUS
  <2> HIDE DEF U, rest
  <2>3. rest \in Seq(Shaped)
    BY <2>1, <2>2, SeqSubset
  <2>4. \A i \in 1..Len(rest) : rest[i] \in U
    BY <2>1
  <2> QED
    BY <2>2, <2>3, <2>4
<1>5. WholeBut(rest, torn)
  <2>1. {"assistant", "tool"} \subseteq Roles \ {"system"}
    BY DEF Roles, SystemRoles
  <2> QED
    BY <2>1, WholeOfRoles
<1>6. OfRoles(rest, {"summary"}) = OfRoles(ms, {"summary"})
  <2>1. {"summary"} \subseteq Roles \ {"system"}
    BY DEF Roles, SystemRoles
  <2> QED
    BY <1>3, <2>1, OfRolesTwice
<1> HIDE DEF rest
<1>7. WholeBut(<<p>>, torn)
  BY <1>1, BlockWhole
<1> DEFINE c == <<p>> \o rest
<1>8. /\ c \in Seq(Shaped) /\ WholeBut(c, torn)
      /\ \A roles : OfRoles(c, roles) = OfRoles(<<p>>, roles) \o OfRoles(rest, roles)
  BY <1>1, <1>4, <1>5, <1>7, ShapedConcat
<1> HIDE DEF c
<1>9. Len(Prompts(c)) <= 1
  <2>1. OfRoles(<<p>>, {"system"}) = <<p>>
    BY <1>1, OneOf
  <2>2. OfRoles(rest, {"system"}) = <<>>
    BY <1>4, ShapedMessages, OfRolesAll
  <2>3. OfRoles(c, {"system"}) = <<p>> \o <<>>
    BY <1>8, <2>1, <2>2
  <2>4. Len(<<p>> \o <<>>) = 1
    OBVIOUS
  <2> QED
    BY <2>3, <2>4 DEF Prompts
<1>10. Len(Summaries(c)) <= 1
  <2>1. OfRoles(<<p>>, {"summary"}) = <<>>
    BY <1>1, OneOf
  <2>2. OfRoles(ms, {"summary"}) \in Seq(Messages)
    BY <1>3, OfRolesAppended
  <2>3. <<>> \o OfRoles(ms, {"summary"}) = OfRoles(ms, {"summary"})
    BY <2>2
  <2>4. OfRoles(c, {"summary"}) = OfRoles(ms, {"summary"})
    BY <1>6, <1>8, <2>1, <2>3
  <2> QED
    BY <2>4 DEF Summaries
<1> QED
  BY <1>2, <1>8, <1>9, <1>10 DEF Talk, c

\* Prompts, perhaps a summary, and messages that are no system messages.
LEMMA PartsTalk ==
  ASSUME NEW ms \in Seq(Shaped), NEW torn, NEW n \in Nat, Len(Prompts(ms)) <= n,
         NEW x \in Seq({m \in Shaped : m.role \in Roles \ SystemRoles}), WholeBut(x, torn),
         NEW s \in {<<>>, <<Plain("summary")>>}
  PROVE  Talk((Prompts(ms) \o s) \o x, torn, n)
<1> DEFINE U == {m \in Shaped : m.role \in Roles \ SystemRoles}
           p == Prompts(ms)
           c == (p \o s) \o x
<1>1. Shaped \in SUBSET Messages /\ ms \in Seq(Messages)
  BY ShapedMessages DEF Shaped
<1>2. /\ Plain("summary") \in Shaped /\ Plain("summary") \in Messages
      /\ Plain("summary").role = "summary" /\ Block(<<Plain("summary")>>, torn)
  BY PlainShaped
<1>3. x \in Seq(Shaped) /\ \A i \in 1..Len(x) : x[i].role \notin SystemRoles
  <2>1. U \subseteq Shaped /\ \A m \in U : m.role \notin SystemRoles
    OBVIOUS
  <2>2. x \in Seq(U)
    OBVIOUS
  <2> HIDE DEF U
  <2>3. x \in Seq(Shaped)
    BY <2>1, <2>2, SeqSubset
  <2>4. \A i \in 1..Len(x) : x[i] \in U
    BY <2>2
  <2> QED
    BY <2>1, <2>3, <2>4
<1>4. p \in Seq(Shaped) /\ WholeBut(p, torn)
  <2>1. {"system"} \subseteq SystemRoles
    BY DEF SystemRoles
  <2> QED
    BY <2>1, SystemsWhole DEF Prompts
<1>5. s \in Seq(Shaped) /\ WholeBut(s, torn)
  <2>1. CASE s = <<>>
    <3>1. <<>> \in Seq(Shaped)
      OBVIOUS
    <3> QED
      BY <2>1, <3>1, EmptyWhole
  <2>2. CASE s = <<Plain("summary")>>
    <3>1. <<Plain("summary")>> \in Seq(Shaped) /\ <<Plain("summary")>> \in Seq(Messages)
      BY <1>2
    <3> QED
      BY <1>2, <2>2, <3>1, BlockWhole
  <2> QED
    BY <2>1, <2>2
<1> HIDE DEF p, U
<1>6. /\ p \o s \in Seq(Shaped) /\ WholeBut(p \o s, torn)
      /\ \A roles : OfRoles(p \o s, roles) = OfRoles(p, roles) \o OfRoles(s, roles)
  BY <1>4, <1>5, ShapedConcat
<1>7. /\ c \in Seq(Shaped) /\ WholeBut(c, torn)
      /\ \A roles : OfRoles(c, roles) = OfRoles(p \o s, roles) \o OfRoles(x, roles)
  BY <1>3, <1>6, ShapedConcat
<1> HIDE DEF c
<1>8. \A few \in SUBSET SystemRoles : OfRoles(x, few) = <<>>
  BY <1>3, ShapedMessages, OfRolesAll
<1>9. Prompts(c) = p
  <2>1. {"system"} \in SUBSET SystemRoles
    BY DEF SystemRoles
  <2>2. OfRoles(p, {"system"}) = p
    BY <1>1, OfRolesTwice DEF p, Prompts
  <2>3. OfRoles(s, {"system"}) = <<>>
    <3>1. OfRoles(<<Plain("summary")>>, {"system"}) = <<>>
      BY <1>2, OneOf
    <3> QED
      BY <3>1, OfRolesAppended
  <2>4. OfRoles(c, {"system"}) = (p \o <<>>) \o <<>>
    BY <1>6, <1>7, <1>8, <2>1, <2>2, <2>3
  <2>5. (p \o <<>>) \o <<>> = p
    BY <1>4
  <2> QED
    BY <2>4, <2>5 DEF Prompts
<1>10. Len(Summaries(c)) <= 1
  <2>1. {"summary"} \in SUBSET SystemRoles
    BY DEF SystemRoles
  <2>2. OfRoles(p, {"summary"}) = <<>>
    <3> DEFINE V == {m \in Messages : m.role \in {"system"}}
    <3>1. p \in Seq(V)
      BY <1>1, OfRolesType DEF p, Prompts
    <3>2. \A m \in V : m.role \notin {"summary"}
      OBVIOUS
    <3> HIDE DEF V
    <3>3. \A i \in 1..Len(p) : p[i].role \notin {"summary"}
      BY <3>1, <3>2
    <3> QED
      BY <1>4, <3>3, ShapedMessages, OfRolesAll
  <2>3. OfRoles(s, {"summary"}) = s
    <3>1. OfRoles(<<Plain("summary")>>, {"summary"}) = <<Plain("summary")>>
      BY <1>2, OneOf
    <3> QED
      BY <3>1, OfRolesAppended
  <2>4. OfRoles(c, {"summary"}) = (<<>> \o s) \o <<>>
    BY <1>6, <1>7, <1>8, <2>1, <2>2, <2>3
  <2>5. (<<>> \o s) \o <<>> = s
    BY <1>5
  <2>6. Len(s) <= 1
    <3>1. Len(<<>>) = 0 /\ Len(<<Plain("summary")>>) = 1
      OBVIOUS
    <3>2. CASE s = <<>>
      BY <3>1, <3>2
    <3>3. CASE s = <<Plain("summary")>>
      BY <3>1, <3>3
    <3> QED
      BY <3>2, <3>3
  <2> QED
    BY <2>4, <2>5, <2>6 DEF Summaries
<1> QED
  BY <1>7, <1>9, <1>10 DEF Talk, c, p

LEMMA SummarisedTalk ==
  ASSUME NEW ms, NEW torn, NEW n \in Nat, Talk(ms, torn, n)
  PROVE  Talk(Summarised(ms), torn, n)
<1> DEFINE U == {m \in Shaped : m.role \in Roles \ SystemRoles}
<1>1. ms \in Seq(Shaped) /\ WholeBut(ms, torn) /\ Len(Prompts(ms)) <= n
  BY DEF Talk
<1>2. Shaped \in SUBSET Messages /\ KeepRecent \in Int
  BY BoundsAssumption DEF Shaped
<1>3. Others(ms) \in Seq(U)
  BY <1>1, <1>2, OfRolesType DEF Others
<1> HIDE DEF U
<1>4. Recent(ms) \in Seq(U)
  BY <1>2, <1>3, TrimmedType DEF Recent
<1>5. WholeBut(Recent(ms), torn)
  BY <1>1, <1>2, OthersWhole, TrimmedWhole DEF Recent
<1> QED
  BY <1>1, <1>4, <1>5, PartsTalk DEF Summarised, U

LEMMA FallbackTalk ==
  ASSUME NEW ms, NEW torn, NEW n \in Nat, Talk(ms, torn, n), NEW t \in Fallbacks(ms)
  PROVE  Talk(t, torn, n)
<1> DEFINE U == {m \in Shaped : m.role \in Roles \ SystemRoles}
           others == Others(ms)
<1>1. ms \in Seq(Shaped) /\ WholeBut(ms, torn) /\ Len(Prompts(ms)) <= n
  BY DEF Talk
<1>2. Shaped \in SUBSET Messages
  BY DEF Shaped
<1>3. others \in Seq(U)
  BY <1>1, <1>2, OfRolesType DEF Others
<1>4. others \in Seq(Shaped) /\ WholeBut(others, torn)
  BY <1>1, OthersWhole
<1>5. PICK i \in 1..(Len(others) + 1) :
        StopsAt(others, i) /\ t = Prompts(ms) \o SubSeq(others, i, Len(others))
  BY DEF Fallbacks
<1> HIDE DEF U, others
<1> DEFINE x == SubSeq(others, i, Len(others))
<1>6. x \in Seq(U)
  <2>1. Len(others) \in 0..Len(others)
    BY <1>3
  <2> QED
    BY <1>3, <2>1, Part
<1>7. WholeBut(x, torn)
  <2>1. i = 1 \/ i = Len(others) + 1 \/ (i \in 1..Len(others) /\ others[i].role # "tool")
    <3>1. Len(others) \in Nat
      BY <1>3
    <3> QED
      BY <1>5, <3>1 DEF StopsAt
  <2>2. CASE i = 1
    BY <1>4, <2>2, SubSeqFull
  <2>3. CASE i = Len(others) + 1
    <3>1. i \in Int /\ Len(others) \in Int /\ Len(others) < i
      BY <1>3, <2>3
    <3> QED
      BY <3>1, SubSeqEmpty, EmptyWhole
  <2>4. CASE i \in 1..Len(others) /\ others[i].role # "tool"
    BY <1>4, <2>4, WholeFrom
  <2> QED
    BY <2>1, <2>2, <2>3, <2>4
<1> HIDE DEF x
<1>8. Talk((Prompts(ms) \o <<>>) \o x, torn, n)
  BY <1>1, <1>6, <1>7, PartsTalk DEF U
<1>9. Prompts(ms) \o <<>> = Prompts(ms)
  <2>1. Prompts(ms) \in Seq(Shaped)
    BY <1>1, CountsType
  <2> QED
    BY <2>1
<1> QED
  BY <1>5, <1>8, <1>9 DEF x

-----------------------------------------------------------------------------
(* What is remembered is the end of what is stored.                        *)

LEMMA SuffixIs ==
  ASSUME NEW S, NEW s \in Seq(S), NEW t \in Seq(S)
  PROVE  IsSuffix(s, t) <=>
           /\ Len(s) <= Len(t)
           /\ \A i \in 1..Len(s) : s[Len(s) - i + 1] = t[Len(t) - i + 1]
<1> DEFINE rs == Reverse(s)
           rt == Reverse(t)
<1>1. /\ rs \in Seq(S) /\ Len(rs) = Len(s)
      /\ \A i \in 1..Len(s) : rs[i] = s[Len(s) - i + 1]
  BY DEF Reverse
<1>2. /\ rt \in Seq(S) /\ Len(rt) = Len(t)
      /\ \A i \in 1..Len(t) : rt[i] = t[Len(t) - i + 1]
  BY DEF Reverse
<1>3. IsSuffix(s, t) <=> Len(rs) <= Len(rt) /\ SubSeq(rs, 1, Len(rs)) = SubSeq(rt, 1, Len(rs))
  BY DEF IsSuffix, IsPrefix
<1> HIDE DEF rs, rt
<1>4. ASSUME Len(s) <= Len(t)
      PROVE  SubSeq(rs, 1, Len(rs)) = SubSeq(rt, 1, Len(rs)) <=>
               \A i \in 1..Len(s) : rs[i] = rt[i]
  <2>1. /\ SubSeq(rs, 1, Len(rs)) \in Seq(S) /\ Len(SubSeq(rs, 1, Len(rs))) = Len(s)
        /\ \A i \in 1..Len(s) : SubSeq(rs, 1, Len(rs))[i] = rs[i]
    BY <1>1
  <2>2. /\ SubSeq(rt, 1, Len(rs)) \in Seq(S) /\ Len(SubSeq(rt, 1, Len(rs))) = Len(s)
        /\ \A i \in 1..Len(s) : SubSeq(rt, 1, Len(rs))[i] = rt[i]
    BY <1>1, <1>2, <1>4
  <2> DEFINE a == SubSeq(rs, 1, Len(rs))
             b == SubSeq(rt, 1, Len(rs))
  <2> HIDE DEF a, b
  <2>3. a \in Seq(S) /\ b \in Seq(S) /\ Len(a) = Len(s) /\ Len(b) = Len(s)
    BY <2>1, <2>2 DEF a, b
  <2>4. a = b <=> \A i \in 1..Len(s) : a[i] = b[i]
    BY <2>3, SeqEqual
  <2> QED
    BY <2>1, <2>2, <2>4 DEF a, b
<1>5. ASSUME Len(s) <= Len(t)
      PROVE  (\A i \in 1..Len(s) : rs[i] = rt[i]) <=>
               \A i \in 1..Len(s) : s[Len(s) - i + 1] = t[Len(t) - i + 1]
  <2>1. \A i \in 1..Len(s) : i \in 1..Len(t)
    BY <1>5
  <2>2. \A i \in 1..Len(s) : rs[i] = s[Len(s) - i + 1] /\ rt[i] = t[Len(t) - i + 1]
    BY <1>1, <1>2, <2>1, Zenon
  <2>3. ASSUME NEW i \in 1..Len(s)
        PROVE  rs[i] = rt[i] <=> s[Len(s) - i + 1] = t[Len(t) - i + 1]
    BY <2>2
  <2> QED
    BY <2>3, Zenon
<1>6. Len(rs) = Len(s) /\ Len(rt) = Len(t)
  BY <1>1, <1>2
<1> QED
  BY <1>3, <1>4, <1>5, <1>6

EndOf(e, s) == \E p \in Seq(Messages) : s = p \o e

LEMMA EndOfSame ==
  ASSUME NEW s \in Seq(Messages)
  PROVE  EndOf(s, s) /\ EndOf(<<>>, s)
<1>1. <<>> \in Seq(Messages) /\ s = <<>> \o s /\ s = s \o <<>>
  OBVIOUS
<1> QED
  BY <1>1 DEF EndOf

LEMMA EndOfEnd ==
  ASSUME NEW a \in Seq(Messages), NEW b, NEW c, EndOf(a, b), EndOf(b, c)
  PROVE  EndOf(a, c)
<1>1. PICK p \in Seq(Messages) : b = p \o a
  BY DEF EndOf
<1>2. PICK q \in Seq(Messages) : c = q \o b
  BY DEF EndOf
<1>3. q \o (p \o a) = (q \o p) \o a /\ q \o p \in Seq(Messages)
  OBVIOUS
<1> QED
  BY <1>1, <1>2, <1>3 DEF EndOf

LEMMA EndOfMore ==
  ASSUME NEW a \in Seq(Messages), NEW b, EndOf(a, b), NEW m \in Messages
  PROVE  EndOf(Append(a, m), Append(b, m))
<1>1. PICK p \in Seq(Messages) : b = p \o a
  BY DEF EndOf
<1>2. Append(p \o a, m) = p \o Append(a, m)
  OBVIOUS
<1> QED
  BY <1>1, <1>2 DEF EndOf

\* A part that ends a sequence.
LEMMA EndOfPart ==
  ASSUME NEW s \in Seq(Messages), NEW i \in 1..(Len(s) + 1)
  PROVE  EndOf(SubSeq(s, i, Len(s)), s)
<1> DEFINE n == Len(s)
           a == SubSeq(s, 1, i - 1)
           b == SubSeq(s, i, n)
<1>0. n \in Nat /\ i - 1 \in 0..n /\ n \in 0..n /\ 1 \in 1..(n + 1)
  OBVIOUS
<1>1. /\ a \in Seq(Messages) /\ Len(a) = IF 1 <= i - 1 THEN (i - 1) - 1 + 1 ELSE 0
      /\ \A k \in 1..((i - 1) - 1 + 1) : a[k] = s[1 + k - 1]
  BY <1>0, Part
<1>2. /\ b \in Seq(Messages) /\ Len(b) = IF i <= n THEN n - i + 1 ELSE 0
      /\ \A k \in 1..(n - i + 1) : b[k] = s[i + k - 1]
  BY <1>0, Part
<1> HIDE DEF a, b, n
<1>3. Len(a) = i - 1 /\ Len(b) = n - i + 1
  BY <1>0, <1>1, <1>2 DEF n
<1>4. /\ a \o b \in Seq(Messages) /\ Len(a \o b) = n
      /\ \A k \in 1..Len(a) : (a \o b)[k] = a[k]
      /\ \A k \in 1..Len(b) : (a \o b)[Len(a) + k] = b[k]
  <2>1. a \in Seq(Messages) /\ b \in Seq(Messages)
    BY <1>1, <1>2
  <2>2. /\ a \o b \in Seq(Messages) /\ Len(a \o b) = Len(a) + Len(b)
        /\ \A k \in 1..Len(a) : (a \o b)[k] = a[k]
        /\ \A k \in 1..Len(b) : (a \o b)[Len(a) + k] = b[k]
    BY <2>1, ConcatAt
  <2>3. Len(a \o b) = n
    BY <1>0, <1>3, <2>2
  <2> QED
    BY <2>2, <2>3, Zenon
<1>5. ASSUME NEW k \in 1..n PROVE (a \o b)[k] = s[k]
  <2>1. CASE k <= i - 1
    <3>1. k \in 1..Len(a) /\ k \in 1..((i - 1) - 1 + 1) /\ 1 + k - 1 = k
      BY <1>0, <1>3, <2>1
    <3> QED
      BY <1>1, <1>4, <3>1
  <2>2. CASE k > i - 1
    <3> DEFINE l == k - (i - 1)
    <3>1. l \in 1..Len(b) /\ l \in 1..(n - i + 1) /\ i + l - 1 = k /\ Len(a) + l = k
      BY <1>0, <1>3, <2>2
    <3> HIDE DEF l
    <3>2. (a \o b)[k] = b[l] /\ b[l] = s[k]
      BY <1>2, <1>4, <3>1
    <3> QED
      BY <3>2
  <2>3. k \in Int /\ i \in Int
    BY <1>0
  <2>4. k <= i - 1 \/ k > i - 1
    BY <2>3
  <2> HIDE DEF a, b
  <2> QED
    BY <2>1, <2>2, <2>4, Zenon
<1>6. a \o b = s
  BY <1>4, <1>5, SeqEqual DEF n
<1> QED
  BY <1>1, <1>6 DEF EndOf, b, n

\* What is left of a sequence without the results in front of it ends it.
LEMMA EndOfTrimmed ==
  ASSUME NEW s \in Seq(Messages), NEW k \in Int
  PROVE  EndOf(WithoutOrphans(LastOf(s, k)), s)
<1>1. ASSUME NEW p \in 1..Len(s) PROVE EndOf(SubSeq(s, p, Len(s)), s)
  <2>1. p \in 1..(Len(s) + 1)
    OBVIOUS
  <2> QED
    BY <2>1, EndOfPart
<1> QED
  BY <1>1, TrimmedIs, EndOfSame

LEMMA OthersType ==
  ASSUME NEW ms \in Seq(Messages)
  PROVE  /\ Others(ms) \in Seq(Messages)
         /\ \A i \in 1..Len(Others(ms)) : Others(ms)[i].role \in Roles \ SystemRoles
  BY SystemsLimit

LEMMA OthersConcat ==
  ASSUME NEW a \in Seq(Messages), NEW b \in Seq(Messages)
  PROVE  Others(a \o b) = Others(a) \o Others(b)
  BY OfRolesConcat DEF Others

\* The message limit leaves the end of the others.
LEMMA LimitedOthers ==
  ASSUME NEW ms \in Seq(Messages)
  PROVE  Limited(ms) \in Seq(Messages) /\ EndOf(Others(Limited(ms)), Others(ms))
<1>1. /\ Systems(ms) \in Seq(Messages) /\ Others(ms) \in Seq(Messages)
      /\ MaxMessages - Len(Systems(ms)) \in Int
      /\ \A i \in 1..Len(Systems(ms)) : Systems(ms)[i].role \in SystemRoles
  BY SystemsLimit
<1>2. Limited(ms) \in Seq(Messages)
  BY LimitedType
<1>3. CASE Limited(ms) = ms
  BY <1>1, <1>2, <1>3, EndOfSame
<1>4. CASE Limited(ms) = Systems(ms) \o Kept(ms)
  <2> DEFINE U == {m \in Messages : m.role \in Roles \ SystemRoles}
             w == Kept(ms)
  <2>1. Others(ms) \in Seq(U)
    BY OfRolesType DEF Others
  <2> HIDE DEF U
  <2>2. w \in Seq(U)
    BY <1>1, <2>1, TrimmedType DEF Kept
  <2> HIDE DEF w
  <2>3. w \in Seq(Messages) /\ \A i \in 1..Len(w) : w[i].role \in Roles \ SystemRoles
    <3>1. \A i \in 1..Len(w) : w[i] \in U
      BY <2>2
    <3>2. U \subseteq Messages
      BY DEF U
    <3> QED
      BY <2>2, <3>1, <3>2, SeqSubset DEF U
  <2>4. OfRoles(Systems(ms), Roles \ SystemRoles) = <<>>
    BY <1>1, OfRolesAll
  <2>5. OfRoles(w, Roles \ SystemRoles) = w
    BY <2>3, OfRolesAll
  <2>6. Others(Limited(ms)) = <<>> \o w
    <3>1. Others(Systems(ms) \o w) = Others(Systems(ms)) \o Others(w)
      BY <1>1, <2>3, OthersConcat
    <3>2. Limited(ms) = Systems(ms) \o w
      BY <1>4 DEF w
    <3> QED
      BY <2>4, <2>5, <3>1, <3>2 DEF Others
  <2>7. <<>> \o w = w
    BY <2>3
  <2> QED
    BY <1>1, <1>2, <2>6, <2>7, EndOfTrimmed DEF w, Kept
<1> QED
  BY <1>2, <1>3, <1>4, KeptType

\* The prompt is none of the others.
LEMMA PromptedOthers ==
  ASSUME NEW ms \in Seq(Messages)
  PROVE  Others(Prompted(ms)) = Others(ms)
<1> DEFINE p == Plain("system")
           rest == OfRoles(ms, Roles \ {"system"})
<1>1. p \in Messages /\ p.role = "system"
  BY PlainShaped
<1>2. rest \in Seq(Messages) /\ <<p>> \in Seq(Messages)
  <2>1. rest \in Seq(Messages)
    BY OfRolesAppended
  <2> HIDE DEF p, rest
  <2> QED
    BY <1>1, <2>1
<1>3. OfRoles(<<p>>, Roles \ SystemRoles) = <<>>
  BY <1>1, OneOf DEF SystemRoles
<1>4. OfRoles(rest, Roles \ SystemRoles) = Others(ms)
  <2>1. Roles \ SystemRoles \subseteq Roles \ {"system"}
    BY DEF SystemRoles
  <2> QED
    BY <2>1, OfRolesTwice DEF Others
<1>5. <<>> \o Others(ms) = Others(ms)
  BY OthersType
<1> HIDE DEF p, rest
<1>6. Others(<<p>> \o rest) = <<>> \o Others(ms)
  <2>1. OfRoles(<<p>> \o rest, Roles \ SystemRoles)
          = OfRoles(<<p>>, Roles \ SystemRoles) \o OfRoles(rest, Roles \ SystemRoles)
    BY <1>2, OfRolesConcat
  <2> QED
    BY <1>3, <1>4, <2>1 DEF Others
<1> QED
  BY <1>5, <1>6 DEF Prompted, p, rest

\* One message more, remembered and stored.
LEMMA AddedOthers ==
  ASSUME NEW ms \in Seq(Messages), NEW s, EndOf(Others(ms), s), NEW m \in Messages
  PROVE  /\ Added(ms, m) \in Seq(Messages)
         /\ m.role \in SystemRoles => EndOf(Others(Added(ms, m)), s)
         /\ m.role \notin SystemRoles => EndOf(Others(Added(ms, m)), Append(s, m))
<1> DEFINE c == Append(ms, m)
<1>1. c \in Seq(Messages) /\ Added(ms, m) = Limited(c)
  BY DEF Added
<1>2. /\ Limited(c) \in Seq(Messages) /\ EndOf(Others(Limited(c)), Others(c))
      /\ Others(Limited(c)) \in Seq(Messages)
  BY <1>1, LimitedOthers, OthersType
<1>3. Others(c) = IF m.role \in Roles \ SystemRoles THEN Append(Others(ms), m) ELSE Others(ms)
  BY OfRolesAppended DEF Others
<1>4. m.role \in Roles
  BY MessageFields
<1> HIDE DEF c
<1>5. CASE m.role \in SystemRoles
  BY <1>1, <1>2, <1>3, <1>5, EndOfEnd
<1>6. CASE m.role \notin SystemRoles
  <2>1. EndOf(Others(c), Append(s, m))
    BY <1>3, <1>4, <1>6, EndOfMore, OthersType
  <2> QED
    BY <1>1, <1>2, <1>6, <2>1, EndOfEnd
<1> QED
  BY <1>1, <1>2, <1>5, <1>6

LEMMA GuidedOthers ==
  ASSUME NEW ms \in Seq(Messages), NEW s, EndOf(Others(ms), s)
  PROVE  EndOf(Others(Guided(ms)), s)
<1>1. Plain("system") \in Messages /\ Plain("system").role \in SystemRoles
  BY PlainShaped DEF SystemRoles
<1>2. EndOf(Others(Added(ms, Plain("system"))), s)
  BY <1>1, AddedOthers
<1> QED
  BY <1>2 DEF Guided

\* Prompts, perhaps a summary, and the end of the others.
LEMMA PartsOthers ==
  ASSUME NEW ms \in Seq(Messages), NEW x \in Seq(Messages),
         \A i \in 1..Len(x) : x[i].role \in Roles \ SystemRoles,
         NEW s \in {<<>>, <<Plain("summary")>>}
  PROVE  /\ (Prompts(ms) \o s) \o x \in Seq(Messages)
         /\ Others((Prompts(ms) \o s) \o x) = x
<1> DEFINE p == Prompts(ms)
           others == Roles \ SystemRoles
<1>1. p \in Seq(Messages) /\ OfRoles(p, others) = <<>>
  <2> DEFINE V == {m \in Messages : m.role \in {"system"}}
  <2>1. p \in Seq(V)
    BY OfRolesType DEF Prompts
  <2>2. V \subseteq Messages /\ \A m \in V : m.role \notin others
    BY DEF SystemRoles
  <2> HIDE DEF V, p, others
  <2>3. p \in Seq(Messages)
    BY <2>1, <2>2, SeqSubset
  <2>4. \A i \in 1..Len(p) : p[i].role \notin others
    BY <2>1, <2>2
  <2> QED
    BY <2>3, <2>4, OfRolesAll
<1>2. s \in Seq(Messages) /\ OfRoles(s, others) = <<>>
  <2>1. Plain("summary") \in Messages /\ Plain("summary").role \notin others
    BY PlainShaped DEF SystemRoles
  <2>2. OfRoles(<<>>, others) = <<>> /\ OfRoles(<<Plain("summary")>>, others) = <<>>
    BY <2>1, OneOf, OfRolesAppended
  <2>3. <<>> \in Seq(Messages) /\ <<Plain("summary")>> \in Seq(Messages)
    BY <2>1
  <2> QED
    BY <2>2, <2>3
<1>3. OfRoles(x, others) = x
  BY OfRolesAll
<1> HIDE DEF p, others
<1>4. p \o s \in Seq(Messages) /\ (p \o s) \o x \in Seq(Messages)
  BY <1>1, <1>2
<1>5. OfRoles(p \o s, others) = <<>> \o <<>>
  BY <1>1, <1>2, OfRolesConcat
<1>6. OfRoles((p \o s) \o x, others) = (<<>> \o <<>>) \o x
  <2>1. Others((p \o s) \o x) = Others(p \o s) \o Others(x)
    BY <1>4, OthersConcat
  <2> QED
    BY <1>3, <1>5, <2>1 DEF Others, others
<1>7. (<<>> \o <<>>) \o x = x
  OBVIOUS
<1> QED
  BY <1>4, <1>6, <1>7 DEF Others, p, others

\* What a compaction makes of the messages it read.
LEMMA CompactedOthers ==
  ASSUME NEW ms \in Seq(Messages), NEW t \in {Summarised(ms)} \cup Fallbacks(ms)
  PROVE  t \in Seq(Messages) /\ EndOf(Others(t), Others(ms))
<1> DEFINE U == {m \in Messages : m.role \in Roles \ SystemRoles}
           o == Others(ms)
<1>1. o \in Seq(U) /\ o \in Seq(Messages)
  BY OfRolesType, OthersType DEF Others
<1>2. ASSUME NEW x \in Seq(U)
      PROVE  x \in Seq(Messages) /\ \A i \in 1..Len(x) : x[i].role \in Roles \ SystemRoles
  <2>1. U \subseteq Messages /\ \A m \in U : m.role \in Roles \ SystemRoles
    OBVIOUS
  <2> HIDE DEF U
  <2>2. \A i \in 1..Len(x) : x[i] \in U
    OBVIOUS
  <2> QED
    BY <2>1, <2>2, SeqSubset
<1> HIDE DEF U, o
<1>3. CASE t = Summarised(ms)
  <2> DEFINE x == Recent(ms)
  <2>1. KeepRecent \in Int
    BY BoundsAssumption
  <2>2. x \in Seq(U) /\ EndOf(x, o)
    BY <1>1, <2>1, TrimmedType, EndOfTrimmed DEF Recent, o
  <2> HIDE DEF x
  <2>3. t \in Seq(Messages) /\ Others(t) = x
    BY <1>2, <1>3, <2>2, PartsOthers DEF Summarised, x
  <2> QED
    BY <2>2, <2>3 DEF o
<1>4. CASE t \in Fallbacks(ms)
  <2>1. PICK i \in 1..(Len(o) + 1) : t = Prompts(ms) \o SubSeq(o, i, Len(o))
    BY <1>4 DEF Fallbacks, o
  <2> DEFINE x == SubSeq(o, i, Len(o))
  <2>2. x \in Seq(U)
    <3>1. Len(o) \in 0..Len(o)
      BY <1>1
    <3> QED
      BY <1>1, <3>1, Part
  <2>3. EndOf(x, o)
    BY <1>1, EndOfPart
  <2> HIDE DEF x
  <2>4. /\ (Prompts(ms) \o <<>>) \o x \in Seq(Messages)
        /\ Others((Prompts(ms) \o <<>>) \o x) = x
    BY <1>2, <2>2, PartsOthers
  <2>5. Prompts(ms) \o <<>> = Prompts(ms)
    <3>1. Prompts(ms) \in Seq(Messages)
      BY OfRolesAppended DEF Prompts
    <3> QED
      BY <3>1
  <2> QED
    BY <2>1, <2>3, <2>4, <2>5 DEF o, x
<1> QED
  BY <1>3, <1>4

-----------------------------------------------------------------------------
(* The conversation while the run goes on.                                 *)

\* What is stored are no system messages.
Said == {m \in Shaped : m.role \in Roles \ SystemRoles}

\* The answer whose calls are executed.
Answer == Message("assistant", run.exchange, run.calls, 0, 0)

\* Whole, but for the calls under way, which have no results yet.
Open(ms) ==
  IF run.exchange \in interrupted
    THEN WholeBut(ms, interrupted)
    ELSE \E f \in Seq(Shaped) : ms = f \o <<Answer>> /\ WholeBut(f, interrupted)

\* The prompt, and the guidance of the iterations so far.
Guidance == run.iteration + (IF run.phase \in {"iterating", "compacting"} THEN 1 ELSE 2)

MemoryFormed ==
  /\ memory \in Seq(Shaped) /\ stored \in Seq(Said)
  /\ Len(Summaries(memory)) <= 1
  /\ run.phase \notin {"idle", "retiring"} => Len(Prompts(memory)) <= Guidance
  /\ run.phase \in ToolPhases => Open(memory) /\ Open(stored)
  /\ run.phase \notin ToolPhases =>
       WholeBut(memory, interrupted) /\ WholeBut(stored, interrupted)

RequestFormed ==
  /\ request \in Seq(Shaped)
  /\ run.phase = "compacting" => Talk(request, interrupted, Guidance)
  /\ run.phase \in {"streaming", "backoff"} => WholeBut(request, interrupted)

\* The results are in the order of the calls.
InOrder == \A i \in 1..Len(run.results) : run.results[i] = i

OtherTypes ==
  /\ tasks \in {"none", "open", "done"}
  /\ question \in [Calls -> {"none", "open", "late"}]
  /\ lingering \in SUBSET Calls
  /\ interrupted \in SUBSET (1..MaxExchanges)

ConversationInv == MemoryFormed /\ RequestFormed /\ InOrder /\ OtherTypes

LEMMA TalkUnchanged ==
  ASSUME ConversationInv, UNCHANGED <<run, conversation, interrupted>>, OtherTypes'
  PROVE  ConversationInv'
  BY DEF ConversationInv, MemoryFormed, RequestFormed, InOrder, conversation, messages, Open, Answer,
         Guidance

\* A step of a call.
LEMMA CallTalk ==
  ASSUME Inv, ConversationInv, run.phase \in CallPhases \/ Calling,
         \/ RunIs("calling", run.iteration, run.exchange, run.calls, run.next + 1,
                  Append(run.results, run.next))
         \/ \E phase \in CallPhases :
              RunIs(phase, run.iteration, run.exchange, run.calls, run.next, run.results),
         UNCHANGED <<conversation, interrupted>>, OtherTypes'
  PROVE  ConversationInv'
<1>1. /\ run.phase \in ToolPhases /\ run'.phase \in ToolPhases
      /\ run'.iteration = run.iteration /\ run'.exchange = run.exchange
      /\ run'.calls = run.calls
  BY DEF RunIs, ToolPhases, Calling
<1>2. Answer' = Answer /\ Guidance' = Guidance
  BY <1>1 DEF Answer, Guidance, ToolPhases, CallPhases
<1>3. Open(memory)' <=> Open(memory)
  BY <1>1, <1>2 DEF Open, conversation, messages
<1>4. Open(stored)' <=> Open(stored)
  BY <1>1, <1>2 DEF Open, conversation, messages
<1>5. run.phase \notin {"idle", "retiring"} /\ run'.phase \notin {"compacting", "streaming", "backoff"}
  BY <1>1 DEF ToolPhases, CallPhases
<1>6. MemoryFormed'
  BY <1>1, <1>2, <1>3, <1>4, <1>5 DEF ConversationInv, MemoryFormed, conversation, messages
<1>7. RequestFormed'
  BY <1>5 DEF ConversationInv, RequestFormed, conversation, messages
<1>8. InOrder'
  <2>1. CASE run'.results = run.results
    BY <2>1 DEF ConversationInv, InOrder
  <2>2. CASE run'.results = Append(run.results, run.next)
    <3>1. run.results \in Seq(1..MaxCalls) /\ Len(run.results) + 1 = run.next
      BY <1>1 DEF Inv, Types, ControlTypes, RunRecord, RunFormed
    <3>2. /\ Len(run'.results) = Len(run.results) + 1 /\ Len(run.results) \in Nat
          /\ \A i \in 1..Len(run.results) : run'.results[i] = run.results[i]
          /\ run'.results[Len(run.results) + 1] = run.next
      <4> DEFINE x == run.next
      <4>1. x \in 1..MaxCalls
        BY AtCall DEF Inv
      <4> HIDE DEF x
      <4> QED
        BY <2>2, <3>1, <4>1 DEF x
    <3>3. \A i \in 1..Len(run.results) : run.results[i] = i
      BY DEF ConversationInv, InOrder
    <3>4. ASSUME NEW i \in 1..(Len(run.results) + 1) PROVE run'.results[i] = i
      <4>1. CASE i \in 1..Len(run.results)
        BY <3>2, <3>3, <4>1
      <4>2. CASE i = Len(run.results) + 1
        BY <3>1, <3>2, <4>2
      <4> QED
        BY <3>2, <4>1, <4>2
    <3> QED
      BY <3>2, <3>4 DEF InOrder
  <2> QED
    BY <2>1, <2>2 DEF RunIs
<1> QED
  BY <1>6, <1>7, <1>8 DEF ConversationInv

\* A step of a call, as the actions describe it.
LEMMA RunTalk ==
  ASSUME Inv, ConversationInv, run.phase \in CallPhases \/ Calling, NEW kind \in Kinds,
         \/ run' = Skipped \/ run' = Answered(kind)
         \/ \E phase \in CallPhases :
              \/ run' = [run EXCEPT !.phase = phase]
              \/ run' = [run EXCEPT !.phase = phase, !.kind = kind],
         UNCHANGED <<conversation, interrupted>>, OtherTypes'
  PROVE  ConversationInv'
<1>1. run \in RunRecord /\ run.next \in 1..MaxCalls /\ CallPhases \subseteq Phases
  BY AtCall DEF Inv, Types, ControlTypes, CallPhases, Phases
<1>2. CASE run' = Skipped \/ run' = Answered(kind)
  BY <1>1, <1>2, ResultUpdate, CallTalk
<1>3. ASSUME NEW phase \in CallPhases,
             run' = [run EXCEPT !.phase = phase] \/ run' = [run EXCEPT !.phase = phase, !.kind = kind]
      PROVE  ConversationInv'
  <2>1. RunIs(phase, run.iteration, run.exchange, run.calls, run.next, run.results)
    BY <1>1, <1>3, PhaseUpdate
  <2> QED
    BY <2>1, CallTalk
<1> QED
  BY <1>2, <1>3

\* After the step the run is outside its calls, and what it remembers and stores is whole.
LEMMA OutsideTalk ==
  ASSUME run'.phase \notin ToolPhases, run'.results = <<>>,
         memory' \in Seq(Shaped), stored' \in Seq(Said), request' \in Seq(Shaped),
         Len(Summaries(memory')) <= 1,
         run'.phase \notin {"idle", "retiring"} => Len(Prompts(memory')) <= Guidance',
         WholeBut(memory', interrupted'), WholeBut(stored', interrupted'),
         run'.phase = "compacting" => Talk(request', interrupted', Guidance'),
         run'.phase \in {"streaming", "backoff"} => WholeBut(request', interrupted'),
         OtherTypes'
  PROVE  ConversationInv'
<1>1. InOrder'
  BY DEF InOrder
<1>2. MemoryFormed'
  BY DEF MemoryFormed
<1>3. RequestFormed'
  BY DEF RequestFormed
<1> QED
  BY <1>1, <1>2, <1>3 DEF ConversationInv

-----------------------------------------------------------------------------
(* The steps of the run, up to an answer.                                  *)

LEMMA SaidShaped == Said \subseteq Shaped /\ Shaped \in SUBSET Messages /\ Said \in SUBSET Messages
  BY DEF Said, Shaped

\* A plain message more is stored.
LEMMA StoredPlain ==
  ASSUME NEW ms \in Seq(Said), NEW torn, WholeBut(ms, torn), NEW role \in {"user", "assistant"}
  PROVE  Append(ms, Plain(role)) \in Seq(Said) /\ WholeBut(Append(ms, Plain(role)), torn)
<1> DEFINE p == Plain(role)
<1>1. p \in Shaped /\ p \in Messages /\ p.role = role /\ Block(<<p>>, torn)
  BY PlainShaped
<1>2. p \in Said
  BY <1>1 DEF Said, Roles, SystemRoles
<1> HIDE DEF p
<1>3. ms \in Seq(Messages) /\ <<p>> \in Seq(Messages)
  BY <1>1, SaidShaped, SeqSubset
<1>4. WholeBut(ms \o <<p>>, torn)
  BY <1>1, <1>3, BlockWhole, WholeConcat
<1>5. Append(ms, p) = ms \o <<p>> /\ Append(ms, p) \in Seq(Said)
  BY <1>2
<1> QED
  BY <1>4, <1>5 DEF p

LEMMA StartRunTalk ==
  ASSUME Inv, ConversationInv, StartRun
  PROVE  ConversationInv'
<1>1. /\ run.phase = "idle" /\ run' = [Idle EXCEPT !.phase = "iterating"]
      /\ memory' = Prompted(Added(memory, Plain("user")))
      /\ stored' = Append(stored, Plain("user"))
      /\ request' = request /\ interrupted' = interrupted
      /\ UNCHANGED <<tasks, question, lingering>>
  BY DEF StartRun, history
<1>2. /\ run'.phase = "iterating" /\ run'.results = <<>> /\ run'.iteration = 0
      /\ run'.phase \notin ToolPhases /\ run.phase \notin ToolPhases
  BY <1>1 DEF Idle, ToolPhases, CallPhases
<1>3. /\ memory \in Seq(Shaped) /\ stored \in Seq(Said) /\ request \in Seq(Shaped)
      /\ WholeBut(memory, interrupted) /\ WholeBut(stored, interrupted)
      /\ Len(Summaries(memory)) <= 1
  BY <1>2 DEF ConversationInv, MemoryFormed, RequestFormed
<1> DEFINE p == Plain("user")
           ms == Added(memory, p)
<1>4. p \in Shaped /\ p.role = "user" /\ Block(<<p>>, interrupted)
  BY PlainShaped
<1> HIDE DEF p
<1>5. ms \in Seq(Shaped) /\ WholeBut(ms, interrupted)
  BY <1>3, <1>4, AddedOne
<1>6. Summaries(ms) = Summaries(memory)
  <2>1. {"summary"} \in SUBSET SystemRoles
    BY DEF SystemRoles
  <2> QED
    BY <1>3, <1>4, <2>1, AddedOne DEF Summaries
<1>7. Talk(memory', interrupted, 1)
  BY <1>1, <1>3, <1>5, <1>6, PromptedTalk DEF p
<1>8. stored' \in Seq(Said) /\ WholeBut(stored', interrupted)
  BY <1>1, <1>3, StoredPlain
<1>9. Guidance' = 1
  BY <1>2 DEF Guidance
<1>10. OtherTypes'
  BY <1>1 DEF ConversationInv, OtherTypes
<1> QED
  BY <1>1, <1>2, <1>3, <1>7, <1>8, <1>9, <1>10, OutsideTalk DEF Talk

\* Messages with one guidance more are handed to the model.
LEMMA RequestedTalk ==
  ASSUME Inv, ConversationInv, run.phase \in {"iterating", "compacting"},
         NEW ms, Talk(ms, interrupted, Guidance), Requested(Guided(ms)),
         UNCHANGED <<interrupted, tasks, question, lingering>>
  PROVE  ConversationInv'
<1>1. run \in RunRecord /\ run.results = <<>> /\ run.iteration \in Nat
  BY BoundsAssumption DEF Inv, Types, ControlTypes, RunFormed, RunRecord, ToolPhases, CallPhases
<1>2. /\ memory' = Guided(ms) /\ request' = Guided(ms) /\ stored' = stored
      /\ run'.phase = "streaming" /\ run'.iteration = run.iteration /\ run'.results = run.results
  BY <1>1 DEF Requested, RunRecord
<1>3. /\ Guidance = run.iteration + 1 /\ Guidance' = run.iteration + 2
      /\ Guidance + 1 = Guidance' /\ Guidance \in Nat
  BY <1>1, <1>2 DEF Guidance
<1>4. Talk(Guided(ms), interrupted, Guidance + 1)
  BY <1>3, GuidedTalk
<1>5. /\ memory' \in Seq(Shaped) /\ request' \in Seq(Shaped)
      /\ WholeBut(memory', interrupted) /\ WholeBut(request', interrupted)
      /\ Len(Prompts(memory')) <= Guidance' /\ Len(Summaries(memory')) <= 1
  BY <1>2, <1>3, <1>4 DEF Talk
<1>6. stored \in Seq(Said) /\ WholeBut(stored, interrupted)
  BY DEF ConversationInv, MemoryFormed, ToolPhases, CallPhases
<1>7. OtherTypes'
  BY DEF ConversationInv, OtherTypes
<1>8. run'.phase \notin ToolPhases /\ run'.phase # "compacting"
  BY <1>2 DEF ToolPhases, CallPhases
<1> QED
  BY <1>1, <1>2, <1>5, <1>6, <1>7, <1>8, OutsideTalk

LEMMA IterateTalk ==
  ASSUME Inv, ConversationInv, Iterate
  PROVE  ConversationInv'
<1>1. /\ run.phase = "iterating" /\ run \in RunRecord /\ run.results = <<>>
      /\ UNCHANGED <<interrupted, tasks, question, lingering>>
  BY DEF Iterate, history, Inv, Types, ControlTypes, RunFormed, RunRecord, ToolPhases, CallPhases
<1>2. /\ memory \in Seq(Shaped) /\ stored \in Seq(Said) /\ request \in Seq(Shaped)
      /\ WholeBut(memory, interrupted) /\ WholeBut(stored, interrupted)
      /\ Len(Summaries(memory)) <= 1 /\ Len(Prompts(memory)) <= Guidance
  BY <1>1 DEF ConversationInv, MemoryFormed, RequestFormed, ToolPhases, CallPhases
<1>3. OtherTypes'
  BY <1>1 DEF ConversationInv, OtherTypes
<1>4. CASE run' = Ended /\ UNCHANGED messages
  <2>1. run'.phase = "retiring" /\ run'.results = <<>>
    BY <1>1, <1>4 DEF Ended, RunRecord
  <2>2. run'.phase \notin ToolPhases
    BY <2>1 DEF ToolPhases, CallPhases
  <2> QED
    BY <1>1, <1>2, <1>3, <1>4, <2>1, <2>2, OutsideTalk DEF conversation, messages
<1>5. CASE /\ run' = [run EXCEPT !.phase = "compacting"] /\ request' = memory
           /\ UNCHANGED <<memory, stored>>
  <2>1. run'.phase = "compacting" /\ run'.results = <<>> /\ run'.iteration = run.iteration
    BY <1>1, <1>5 DEF RunRecord
  <2>2. run'.phase \notin ToolPhases /\ Guidance' = Guidance
    BY <1>1, <2>1 DEF ToolPhases, CallPhases, Guidance
  <2>3. Talk(request', interrupted, Guidance)
    BY <1>2, <1>5 DEF Talk
  <2> QED
    BY <1>1, <1>2, <1>3, <1>5, <2>1, <2>2, <2>3, OutsideTalk
<1>6. CASE Requested(Guided(memory))
  <2>1. Talk(memory, interrupted, Guidance)
    BY <1>2 DEF Talk
  <2> QED
    BY <1>1, <1>6, <2>1, RequestedTalk
<1> QED
  BY <1>4, <1>5, <1>6 DEF Iterate

LEMMA CompactedTalk ==
  ASSUME Inv, ConversationInv, Compacted
  PROVE  ConversationInv'
<1>1. run.phase = "compacting" /\ UNCHANGED <<interrupted, tasks, question, lingering>>
  BY DEF Compacted, history
<1>2. Talk(request, interrupted, Guidance)
  BY <1>1 DEF ConversationInv, RequestFormed
<1>3. PICK ms \in {Summarised(request)} \cup Fallbacks(request) : Requested(Guided(ms))
  BY DEF Compacted
<1>4. Guidance \in Nat
  BY <1>1, BoundsAssumption DEF Guidance, Inv, Types, ControlTypes, RunRecord
<1>5. Talk(ms, interrupted, Guidance)
  BY <1>2, <1>3, <1>4, SummarisedTalk, FallbackTalk
<1> QED
  BY <1>1, <1>3, <1>5, RequestedTalk

\* The stream goes on, is tried again, or is over without an answer.
LEMMA StreamTalk ==
  ASSUME Inv, ConversationInv, StreamFails \/ StreamRetries
  PROVE  ConversationInv'
<1>1. /\ run.phase \in {"streaming", "backoff"} /\ run \in RunRecord /\ run.results = <<>>
      /\ UNCHANGED <<memory, stored, interrupted, tasks, question, lingering>>
  BY DEF StreamFails, StreamRetries, history, conversation, messages, Inv, Types, ControlTypes,
         RunFormed, RunRecord, ToolPhases, CallPhases
<1>2. /\ memory \in Seq(Shaped) /\ stored \in Seq(Said) /\ request \in Seq(Shaped)
      /\ WholeBut(memory, interrupted) /\ WholeBut(stored, interrupted)
      /\ WholeBut(request, interrupted)
      /\ Len(Summaries(memory)) <= 1 /\ Len(Prompts(memory)) <= Guidance
  BY <1>1 DEF ConversationInv, MemoryFormed, RequestFormed, ToolPhases, CallPhases
<1>3. OtherTypes'
  BY <1>1 DEF ConversationInv, OtherTypes
<1>5. ASSUME NEW phase \in {"streaming", "backoff"}, run' = [run EXCEPT !.phase = phase],
             UNCHANGED request
      PROVE  ConversationInv'
  <2>1. run'.phase = phase /\ run'.results = <<>> /\ run'.iteration = run.iteration
    BY <1>1, <1>5 DEF RunRecord
  <2>2. run'.phase \notin ToolPhases /\ Guidance' = Guidance /\ run'.phase # "compacting"
    BY <1>1, <2>1 DEF ToolPhases, CallPhases, Guidance
  <2> QED
    BY <1>1, <1>2, <1>3, <1>5, <2>1, <2>2, OutsideTalk
<1>6. CASE run' = Ended /\ StreamOver
  <2>1. run'.phase = "retiring" /\ run'.results = <<>>
    BY <1>1, <1>6 DEF Ended, RunRecord
  <2>2. run'.phase \notin ToolPhases
    BY <2>1 DEF ToolPhases, CallPhases
  <2>3. request' = <<>> /\ <<>> \in Seq(Shaped)
    BY <1>6 DEF StreamOver
  <2> QED
    BY <1>1, <1>2, <1>3, <1>6, <2>1, <2>2, <2>3, OutsideTalk
<1>8. CASE StreamFails
  BY <1>5, <1>6, <1>8 DEF StreamFails
<1>9. CASE StreamRetries
  BY <1>5, <1>9 DEF StreamRetries, conversation, messages
<1> QED
  BY <1>8, <1>9

LEMMA StreamAnswersTalk ==
  ASSUME Inv, ConversationInv, StreamAnswers
  PROVE  ConversationInv'
<1>1. /\ run.phase = "streaming" /\ run \in RunRecord /\ run.results = <<>>
      /\ run.iteration \in Nat
      /\ memory' = Added(memory, Plain("assistant"))
      /\ stored' = Append(stored, Plain("assistant"))
      /\ run' = NextIteration \/ run' = Ended
      /\ request' = <<>> /\ <<>> \in Seq(Shaped)
      /\ UNCHANGED <<interrupted, tasks, question, lingering>>
  BY BoundsAssumption
     DEF StreamAnswers, StreamOver, history, Inv, Types, ControlTypes, RunFormed, RunRecord,
         ToolPhases, CallPhases
<1>2. Talk(memory, interrupted, Guidance) /\ stored \in Seq(Said) /\ WholeBut(stored, interrupted)
  BY <1>1 DEF ConversationInv, MemoryFormed, ToolPhases, CallPhases, Talk
<1>3. Guidance = run.iteration + 2 /\ Guidance \in Nat
  BY <1>1 DEF Guidance
<1>4. Talk(memory', interrupted, Guidance)
  <2> DEFINE p == Plain("assistant")
  <2>1. p \in Shaped /\ p.role = "assistant" /\ Block(<<p>>, interrupted)
    BY PlainShaped
  <2> HIDE DEF p
  <2>2. Talk(Added(memory, p), interrupted, Guidance)
    BY <1>2, <1>3, <2>1, AddedTalk
  <2> QED
    BY <1>1, <2>2 DEF p
<1>5. stored' \in Seq(Said) /\ WholeBut(stored', interrupted)
  BY <1>1, <1>2, StoredPlain
<1>6. OtherTypes'
  BY <1>1 DEF ConversationInv, OtherTypes
<1>7. CASE run' = NextIteration
  <2>1. run'.phase = "iterating" /\ run'.results = <<>> /\ run'.iteration = run.iteration + 1
    BY <1>7 DEF NextIteration, Idle
  <2>2. run'.phase \notin ToolPhases /\ Guidance' = Guidance
    BY <1>1, <1>3, <2>1 DEF ToolPhases, CallPhases, Guidance
  <2> QED
    BY <1>1, <1>4, <1>5, <1>6, <2>1, <2>2, OutsideTalk DEF Talk
<1>8. CASE run' = Ended
  <2>1. run'.phase = "retiring" /\ run'.results = <<>>
    BY <1>1, <1>8 DEF Ended, RunRecord
  <2>2. run'.phase \notin ToolPhases
    BY <2>1 DEF ToolPhases, CallPhases
  <2> QED
    BY <1>1, <1>4, <1>5, <1>6, <2>1, <2>2, OutsideTalk DEF Talk
<1> QED
  BY <1>1, <1>7, <1>8

LEMMA RetiredTalk ==
  ASSUME Inv, ConversationInv, Retired
  PROVE  ConversationInv'
<1>1. /\ run.phase = "retiring" /\ run' = Idle
      /\ UNCHANGED <<request, memory, stored, interrupted, tasks, question, lingering>>
  BY DEF Retired, history, conversation, messages
<1>2. /\ memory \in Seq(Shaped) /\ stored \in Seq(Said) /\ request \in Seq(Shaped)
      /\ WholeBut(memory, interrupted) /\ WholeBut(stored, interrupted)
      /\ Len(Summaries(memory)) <= 1
  BY <1>1 DEF ConversationInv, MemoryFormed, RequestFormed, ToolPhases, CallPhases
<1>3. OtherTypes'
  BY <1>1 DEF ConversationInv, OtherTypes
<1>4. run'.phase = "idle" /\ run'.results = <<>> /\ run'.phase \notin ToolPhases
  BY <1>1 DEF Idle, ToolPhases, CallPhases
<1> QED
  BY <1>1, <1>2, <1>3, <1>4, OutsideTalk

-----------------------------------------------------------------------------
(* An exchange is added to the memory.                                     *)

\* The answer of an exchange.
LEMMA AnswerShaped ==
  ASSUME NEW e \in 0..MaxExchanges, NEW n \in 0..MaxCalls
  PROVE  LET a == Message("assistant", e, n, 0, 0) IN
         /\ a \in Said /\ a \in Shaped /\ a \in Messages
         /\ a.role = "assistant" /\ a.exchange = e /\ a.calls = n /\ a.call = 0
         /\ \A torn : e \in torn => Block(<<a>>, torn)
<1> DEFINE a == Message("assistant", e, n, 0, 0)
<1>1. 0 \in 0..MaxCalls /\ "assistant" \in Roles \ SystemRoles
  BY BoundsAssumption DEF Roles, SystemRoles
<1>2. a \in Messages
  BY <1>1 DEF Message, Messages
<1>3. a.role = "assistant" /\ a.exchange = e /\ a.calls = n /\ a.call = 0
  BY DEF Message
<1>4. a \in Shaped /\ a \in Said
  BY <1>1, <1>2, <1>3 DEF Shaped, Said
<1> HIDE DEF a
<1>5. ASSUME NEW torn, e \in torn PROVE Block(<<a>>, torn)
  <2>1. Len(<<a>>) = 1 /\ <<a>>[1] = a
    OBVIOUS
  <2> QED
    BY <1>3, <1>5, <2>1 DEF Block
<1> QED
  BY <1>2, <1>3, <1>4, <1>5 DEF a

\* The messages that are no guidance leave room for an exchange.
LEMMA Room ==
  ASSUME NEW ms \in Seq(Shaped), Len(Prompts(ms)) <= MaxIterations + 1, Len(Summaries(ms)) <= 1
  PROVE  Len(Systems(ms)) + MaxCalls + 1 <= MaxMessages
<1>1. Len(Systems(ms)) = Len(Prompts(ms)) + Len(Summaries(ms))
  BY ShapedMessages, SystemsCounted DEF Summaries
<1>2. Len(Prompts(ms)) \in Nat /\ Len(Summaries(ms)) \in Nat
  BY CountsType
<1>3. MaxIterations \in Nat /\ MaxCalls \in Nat /\ MaxMessages \in Nat
      /\ MaxMessages >= MaxIterations + 2 + MaxCalls + 1
  BY BoundsAssumption, MessagesAssumption
<1> HIDE DEF Systems, Prompts, Summaries
<1> QED
  BY <1>1, <1>2, <1>3

\* The messages that are added one after the other.
LEMMA AddingExists ==
  ASSUME NEW start \in Seq(Shaped), NEW t \in Seq(Shaped)
  PROVE  \E f \in [0..Len(t) -> Seq(Shaped)] :
           f[0] = start /\ \A j \in 1..Len(t) : f[j] = Added(f[j - 1], t[j])
<1> DEFINE Good(k, f) == f[0] = start /\ \A j \in 1..k : f[j] = Added(f[j - 1], t[j])
           N == {k \in Nat : k <= Len(t) => \E f \in [0..k -> Seq(Shaped)] : Good(k, f)}
<1>1. 0 \in N
  <2>1. [i \in 0..0 |-> start] \in [0..0 -> Seq(Shaped)]
    OBVIOUS
  <2>2. 0 \in 0..0 /\ \A j \in 1..0 : FALSE
    OBVIOUS
  <2>3. Good(0, [i \in 0..0 |-> start])
    BY <2>2
  <2>4. \E f \in [0..0 -> Seq(Shaped)] : Good(0, f)
    BY <2>1, <2>3
  <2> QED
    BY <2>4
<1>2. ASSUME NEW k \in Nat, k \in N PROVE k + 1 \in N
  <2> SUFFICES ASSUME k + 1 <= Len(t)
               PROVE  \E f \in [0..(k + 1) -> Seq(Shaped)] : Good(k + 1, f)
    <3> HIDE DEF Good
    <3> QED
      OBVIOUS
  <2>0. k <= Len(t) /\ k + 1 \in 1..Len(t)
    OBVIOUS
  <2>1. PICK f \in [0..k -> Seq(Shaped)] : Good(k, f)
    <3> HIDE DEF Good
    <3> QED
      BY <1>2, <2>0
  <2> DEFINE last == Added(f[k], t[k + 1])
             g == [i \in 0..(k + 1) |-> IF i <= k THEN f[i] ELSE last]
  <2>2. f[k] \in Seq(Shaped) /\ t[k + 1] \in Shaped
    BY <2>0
  <2>3. last \in Seq(Shaped)
    BY <2>2, AddedOne
  <2> HIDE DEF last
  <2>4. g \in [0..(k + 1) -> Seq(Shaped)]
    BY <2>3
  <2>5. g[0] = start
    BY <2>1
  <2>6. ASSUME NEW j \in 1..(k + 1) PROVE g[j] = Added(g[j - 1], t[j])
    <3>1. CASE j <= k
      <4>1. j \in 1..k /\ g[j] = f[j] /\ g[j - 1] = f[j - 1]
        BY <3>1
      <4> QED
        BY <2>1, <4>1
    <3>2. CASE j = k + 1
      <4>1. g[j] = last /\ g[j - 1] = f[k]
        BY <3>2
      <4> QED
        BY <3>2, <4>1 DEF last
    <3> QED
      BY <3>1, <3>2
  <2> HIDE DEF g
  <2> QED
    BY <2>4, <2>5, <2>6
<1> HIDE DEF N
<1>3. Len(t) \in N
  <2>1. Len(t) \in Nat
    OBVIOUS
  <2> QED
    BY <1>1, <1>2, <2>1, SetInduction
<1>4. Len(t) <= Len(t)
  OBVIOUS
<1> QED
  BY <1>3, <1>4 DEF N

\* Messages of a torn exchange are added to what is whole.
LEMMA AddingTorn ==
  ASSUME NEW torn, NEW t \in Seq(Shaped),
         \A k \in 1..Len(t) : t[k].exchange \in torn /\ t[k].role \notin SystemRoles,
         NEW f \in [0..Len(t) -> Seq(Shaped)], WholeBut(f[0], torn),
         \A k \in 1..Len(t) : f[k] = Added(f[k - 1], t[k])
  PROVE  /\ WholeBut(f[Len(t)], torn)
         /\ \A few \in SUBSET SystemRoles : OfRoles(f[Len(t)], few) = OfRoles(f[0], few)
<1> DEFINE Good(k) == /\ WholeBut(f[k], torn)
                      /\ \A few \in SUBSET SystemRoles : OfRoles(f[k], few) = OfRoles(f[0], few)
           N == {k \in Nat : k <= Len(t) => Good(k)}
<1>1. 0 \in N
  OBVIOUS
<1>2. ASSUME NEW k \in Nat, k \in N PROVE k + 1 \in N
  <2> SUFFICES ASSUME k + 1 <= Len(t) PROVE Good(k + 1)
    OBVIOUS
  <2>1. /\ k + 1 \in 1..Len(t) /\ k + 1 - 1 = k /\ f[k] \in Seq(Shaped)
        /\ t[k + 1] \in Shaped /\ k <= Len(t)
    OBVIOUS
  <2>2. Good(k) /\ f[k + 1] = Added(f[k], t[k + 1])
    BY <1>2, <2>1
  <2> DEFINE m == t[k + 1]
  <2>3. m \in Shaped /\ m.exchange \in torn /\ m.role \notin SystemRoles
    BY <2>1
  <2> HIDE DEF m
  <2>4. Block(<<m>>, torn)
    <3>1. Len(<<m>>) = 1 /\ <<m>>[1] = m
      OBVIOUS
    <3> QED
      BY <2>3, <3>1 DEF Block
  <2>5. WholeBut(Added(f[k], m), torn)
    BY <2>1, <2>2, <2>3, <2>4, AddedOne
  <2>6. ASSUME NEW few \in SUBSET SystemRoles
        PROVE  OfRoles(Added(f[k], m), few) = OfRoles(f[k], few)
    <3> DEFINE x == f[k]
    <3>1. x \in Seq(Shaped)
      BY <2>1
    <3> HIDE DEF x
    <3>2. \A roles \in SUBSET SystemRoles :
            OfRoles(Added(x, m), roles) =
              IF m.role \in roles THEN Append(OfRoles(x, roles), m) ELSE OfRoles(x, roles)
      BY <2>3, <3>1, AddedOne
    <3> QED
      BY <2>3, <3>2 DEF x
  <2> QED
    BY <2>2, <2>5, <2>6 DEF m
<1> HIDE DEF N
<1>3. Len(t) \in N
  <2>1. Len(t) \in Nat
    OBVIOUS
  <2> QED
    BY <1>1, <1>2, <2>1, SetInduction
<1>4. Len(t) <= Len(t)
  OBVIOUS
<1> QED
  BY <1>3, <1>4 DEF N

\* Appending is the same to a sequence and to its end.
LEMMA AppendConcat ==
  ASSUME NEW S, NEW a \in Seq(S), NEW b \in Seq(S), NEW m \in S
  PROVE  Append(a \o b, m) = a \o (b \o <<m>>)
<1>1. <<m>> \in Seq(S) /\ a \o b \in Seq(S)
  OBVIOUS
<1>2. Append(a \o b, m) = (a \o b) \o <<m>>
  BY <1>1
<1>3. (a \o b) \o <<m>> = a \o (b \o <<m>>)
  BY <1>1, ConcatAssociative
<1> QED
  BY <1>2, <1>3

\* The messages of an exchange are added one after the other to what is whole, and stay
\* together at the end of it.
LEMMA AddingBlock ==
  ASSUME NEW torn, NEW b \in Seq(Said), Len(b) >= 1, Len(b) <= MaxCalls + 1, b[1].role # "tool",
         NEW start \in Seq(Shaped), WholeBut(start, torn),
         Len(Systems(start)) + MaxCalls + 1 <= MaxMessages,
         NEW n \in Nat, Len(b) = n + 1,
         NEW f \in [0..n -> Seq(Shaped)], f[0] = start \o <<b[1]>>,
         \A k \in 1..n : f[k] = Added(f[k - 1], b[k + 1])
  PROVE  \E g \in Seq(Shaped) :
           /\ f[n] = g \o b
           /\ WholeBut(g, torn)
           /\ \A few \in SUBSET SystemRoles : OfRoles(g, few) = OfRoles(start, few)
<1> DEFINE Good(k, g) ==
             /\ f[k] = g \o SubSeq(b, 1, k + 1)
             /\ WholeBut(g, torn)
             /\ \A few \in SUBSET SystemRoles : OfRoles(g, few) = OfRoles(start, few)
           N == {k \in Nat : k <= n => \E g \in Seq(Shaped) : Good(k, g)}
<1>0. n \in Nat /\ Len(b) = n + 1 /\ n <= MaxCalls /\ MaxCalls \in Nat
  BY BoundsAssumption
<1>1. 0 \in N
  <2>1. SubSeq(b, 1, 0 + 1) = <<b[1]>>
    <3>1. /\ 0 + 1 = 1 /\ 1 \in 1..(Len(b) + 1) /\ 1 \in 0..Len(b)
          /\ 1 \in 1..(1 - 1 + 1) /\ 1 + 1 - 1 = 1
      OBVIOUS
    <3>2. /\ SubSeq(b, 1, 1) \in Seq(Said)
          /\ Len(SubSeq(b, 1, 1)) = IF 1 <= 1 THEN 1 - 1 + 1 ELSE 0
          /\ \A i \in 1..(1 - 1 + 1) : SubSeq(b, 1, 1)[i] = b[1 + i - 1]
      BY <3>1, Part
    <3> DEFINE p == SubSeq(b, 1, 1)
    <3>3. p \in Seq(Said) /\ Len(p) = 1 /\ p[1] = b[1]
      BY <3>1, <3>2
    <3> HIDE DEF p
    <3>4. p = <<b[1]>>
      BY <3>3
    <3> QED
      BY <3>1, <3>4 DEF p
  <2>2. Good(0, start)
    BY <2>1
  <2> QED
    BY <2>2
<1>2. ASSUME NEW k \in Nat, k \in N PROVE k + 1 \in N
  <2> SUFFICES ASSUME k + 1 <= n PROVE \E g \in Seq(Shaped) : Good(k + 1, g)
    <3> HIDE DEF Good
    <3> QED
      OBVIOUS
  <2>0. k <= n
    BY <1>0
  <2>1. PICK h \in Seq(Shaped) : Good(k, h)
    <3> HIDE DEF Good
    <3> QED
      BY <1>2, <2>0
  <2> DEFINE s == SubSeq(b, 1, k + 1)
             t == SubSeq(b, 1, k + 2)
             m == b[k + 2]
  <2>2. /\ k + 1 \in 1..n /\ k + 1 - 1 = k /\ k + 1 + 1 = k + 2 /\ k + 2 - 1 = k + 1
        /\ 1 \in 1..(Len(b) + 1) /\ k + 1 \in 0..Len(b) /\ k + 2 \in 0..Len(b)
        /\ 1 \in 1..Len(b) /\ k + 2 \in 1..Len(b) /\ k + 2 <= MaxCalls + 1
    BY <1>0
  <2>3. s \in Seq(Said) /\ t \in Seq(Said) /\ m \in Said
    <3>1. s \in Seq(Said)
      BY <2>2, Part
    <3>2. t \in Seq(Said)
      BY <2>2, Part
    <3>3. m \in Said
      BY <2>2
    <3> QED
      BY <3>1, <3>2, <3>3
  <2>4. t = s \o <<m>>
    BY <2>2, SubSeqRecursiveSecond
  <2>5. Len(t) = k + 2 /\ t[1] = b[1]
    <3>1. /\ Len(t) = IF 1 <= k + 2 THEN k + 2 - 1 + 1 ELSE 0
          /\ \A i \in 1..(k + 2 - 1 + 1) : t[i] = b[1 + i - 1]
      BY <2>2, Part
    <3>2. k + 2 - 1 + 1 = k + 2 /\ 1 <= k + 2 /\ 1 \in 1..(k + 2 - 1 + 1) /\ 1 + 1 - 1 = 1
      OBVIOUS
    <3> QED
      BY <3>1, <3>2
  <2>6. f[k + 1] = Added(h \o s, m)
    <3>1. f[k + 1] = Added(f[k + 1 - 1], b[k + 1 + 1])
      BY <2>2
    <3>2. f[k] = h \o s
      BY <2>1
    <3> QED
      BY <2>2, <3>1, <3>2
  <2> HIDE DEF s, t, m
  <2>7. Added(h \o s, m) = Limited(h \o t)
    <3>1. s \in Seq(Shaped) /\ m \in Shaped
      BY <2>3, SaidShaped, SeqSubset
    <3>2. Append(h \o s, m) = h \o (s \o <<m>>)
      <4>1. h \in Seq(Shaped)
        BY <2>1
      <4>2. \A x, y \in Seq(Shaped) : \A z \in Shaped : Append(x \o y, z) = x \o (y \o <<z>>)
        BY AppendConcat
      <4> QED
        BY <3>1, <4>1, <4>2
    <3> QED
      BY <2>4, <3>2 DEF Added
  <2>8. Len(Systems(h)) + MaxCalls + 1 <= MaxMessages
    BY <2>1 DEF Systems
  <2>9. /\ t \in Seq(Shaped) /\ Len(t) >= 1 /\ Len(t) <= MaxCalls + 1 /\ t[1].role # "tool"
        /\ \A i \in 1..Len(t) : t[i].role \in Roles \ SystemRoles
    <3>1. t \in Seq(Shaped)
      BY <2>3, SaidShaped, SeqSubset
    <3>2. \A i \in 1..Len(t) : t[i] \in Said
      BY <2>3
    <3> QED
      BY <2>2, <2>5, <3>1, <3>2 DEF Said
  <2>10. PICK g \in Seq(Shaped) :
           /\ Limited(h \o t) = g \o t
           /\ WholeBut(g, torn)
           /\ \A few \in SUBSET SystemRoles : OfRoles(g, few) = OfRoles(h, few)
    <3>1. WholeBut(h, torn)
      BY <2>1
    <3> HIDE DEF Good
    <3> QED
      BY <2>8, <2>9, <3>1, LimitedBlock
  <2>11. Good(k + 1, g)
    BY <2>1, <2>2, <2>6, <2>7, <2>10 DEF t
  <2> QED
    BY <2>11
<1> HIDE DEF N
<1>3. n \in N
  BY <1>1, <1>2, SetInduction
<1>4. PICK g \in Seq(Shaped) : Good(n, g)
  <2>1. n <= n
    OBVIOUS
  <2> HIDE DEF Good
  <2> QED
    BY <1>3, <2>1 DEF N
<1>5. SubSeq(b, 1, n + 1) = b
  BY <1>0, SubSeqFull
<1> QED
  BY <1>4, <1>5

\* A message that is no system message changes none of their counts.
LEMMA CountsApart ==
  ASSUME NEW ms \in Seq(Shaped), NEW m \in Shaped, m.role \notin SystemRoles,
         NEW few \in SUBSET SystemRoles
  PROVE  OfRoles(ms \o <<m>>, few) = OfRoles(ms, few)
<1>1. ms \in Seq(Messages) /\ m \in Messages
  BY ShapedMessages DEF Shaped
<1>2. ms \o <<m>> = Append(ms, m)
  BY <1>1
<1>3. OfRoles(Append(ms, m), few) = OfRoles(ms, few)
  BY <1>1, OfRolesAppended
<1> QED
  BY <1>2, <1>3

\* What is whole stays so when more exchanges are torn.
LEMMA WholeMore ==
  ASSUME NEW ms, NEW torn, NEW more, torn \subseteq more, WholeBut(ms, torn)
  PROVE  WholeBut(ms, more)
  BY DEF WholeBut

\* The calls under way: the answer, and what may follow.
LEMMA AtCalls ==
  ASSUME Inv, ConversationInv, run.phase \in ToolPhases
  PROVE  /\ run.exchange \in 1..MaxExchanges /\ run.calls \in 0..MaxCalls
         /\ Answer \in Said /\ Answer \in Shaped /\ Answer \in Messages
         /\ Answer.role = "assistant" /\ Answer.exchange = run.exchange
         /\ Answer.calls = run.calls /\ Answer.call = 0
         /\ Guidance <= MaxIterations + 1 /\ Guidance = run.iteration + 2
         /\ run.iteration \in Nat /\ run.iteration < MaxIterations
         /\ memory \in Seq(Shaped) /\ stored \in Seq(Said)
         /\ Len(Summaries(memory)) <= 1 /\ Len(Prompts(memory)) <= Guidance
         /\ Open(memory) /\ Open(stored)
<1>1. run \in RunRecord /\ run.iteration < MaxIterations /\ run.exchange >= 1
  BY DEF Inv, Types, ControlTypes, RunFormed, ToolPhases, CallPhases
<1>2. /\ run.exchange \in 0..MaxExchanges /\ run.calls \in 0..MaxCalls /\ MaxIterations \in Nat
      /\ MaxExchanges \in Nat /\ run.iteration \in Nat
  BY <1>1, BoundsAssumption DEF RunRecord
<1>3. /\ Answer \in Said /\ Answer \in Shaped /\ Answer \in Messages
      /\ Answer.role = "assistant" /\ Answer.exchange = run.exchange
      /\ Answer.calls = run.calls /\ Answer.call = 0
  BY <1>2, AnswerShaped DEF Answer
<1>4. Guidance = run.iteration + 2
  BY DEF Guidance, ToolPhases, CallPhases
<1>5. Guidance <= MaxIterations + 1 /\ run.exchange \in 1..MaxExchanges
  BY <1>1, <1>2, <1>4
<1> QED
  BY <1>1, <1>2, <1>3, <1>4, <1>5
     DEF ConversationInv, MemoryFormed, ToolPhases, CallPhases

\* An answer with calls: it stands at the end of the memory and of what is stored.
LEMMA StreamCallsTalk ==
  ASSUME Inv, ConversationInv, NEW n \in 1..MaxCalls, StreamCalls(n)
  PROVE  ConversationInv'
<1> DEFINE e == exchanges + 1
           a == Message("assistant", e, n, 0, 0)
<1>1. /\ run.phase = "streaming" /\ run \in RunRecord /\ run.results = <<>>
      /\ run.iteration < MaxIterations
      /\ exchanges < scene.exchanges /\ scene \in Scenes
      /\ memory' = Added(memory, a) /\ stored' = Append(stored, a)
      /\ run' = [run EXCEPT !.phase = "calling", !.exchange = a.exchange, !.calls = n,
                            !.next = 1]
      /\ request' = <<>>
      /\ UNCHANGED <<interrupted, tasks, question, lingering>>
  BY DEF StreamCalls, StreamOver, history, Inv, Types, ControlTypes, RunFormed, ToolPhases,
         CallPhases
<1>2. exchanges \in Nat /\ e \in 1..MaxExchanges
  BY <1>1, ExchangesType, ScenesAssumption, BoundsAssumption DEF Inv, Scene
<1>3. n \in 0..MaxCalls /\ e \in 0..MaxExchanges
  BY <1>2
<1>4. /\ a \in Said /\ a \in Shaped /\ a \in Messages
      /\ a.role = "assistant" /\ a.exchange = e /\ a.calls = n /\ a.call = 0
      /\ \A torn : e \in torn => Block(<<a>>, torn)
  <2> HIDE DEF e
  <2> QED
    BY <1>3, AnswerShaped
<1>5. /\ run'.phase = "calling" /\ run'.exchange = e /\ run'.calls = n
      /\ run'.iteration = run.iteration /\ run'.results = <<>>
  BY <1>1, <1>4 DEF RunRecord
<1>6. Answer' = a
  BY <1>5 DEF Answer
<1> HIDE DEF a, e
<1>7. /\ run.iteration \in Nat /\ MaxIterations \in Nat
      /\ Guidance = run.iteration + 2 /\ Guidance' = run.iteration + 2
  BY <1>1, <1>5, BoundsAssumption DEF Guidance, RunRecord
<1>8. /\ memory \in Seq(Shaped) /\ WholeBut(memory, interrupted)
      /\ stored \in Seq(Said) /\ WholeBut(stored, interrupted)
      /\ Len(Summaries(memory)) <= 1 /\ Len(Prompts(memory)) <= Guidance
  BY <1>1 DEF ConversationInv, MemoryFormed, ToolPhases, CallPhases
<1>9. a.role \notin SystemRoles
  BY <1>4 DEF SystemRoles
<1>10. \A few \in SUBSET SystemRoles : OfRoles(memory', few) = OfRoles(memory, few)
  BY <1>1, <1>4, <1>8, <1>9, AddedOne
<1>11. Prompts(memory') = Prompts(memory) /\ Summaries(memory') = Summaries(memory)
  BY <1>10 DEF Prompts, Summaries, SystemRoles
<1>12. memory' \in Seq(Shaped) /\ stored' \in Seq(Said)
  <2>1. memory' \in Seq(Shaped)
    BY <1>1, <1>4, <1>8, AddedOne
  <2>2. stored' \in Seq(Said)
    BY <1>1, <1>4, <1>8
  <2> QED
    BY <2>1, <2>2
<1>13. Len(Systems(memory)) + MaxCalls + 1 <= MaxMessages
  <2>1. Len(Prompts(memory)) <= MaxIterations + 1
    <3>1. Len(Prompts(memory)) \in Nat
      BY <1>8, CountsType
    <3> QED
      BY <1>1, <1>7, <1>8, <3>1
  <2> QED
    BY <1>8, <2>1, Room
<1>14. Open(memory)'
  <2>1. CASE e \in interrupted
    <3>1. WholeBut(memory', interrupted)
      BY <1>1, <1>4, <1>8, <2>1, AddedOne
    <3> QED
      BY <1>1, <1>5, <2>1, <3>1 DEF Open
  <2>2. CASE e \notin interrupted
    <3> DEFINE b == <<a>>
    <3>1. /\ b \in Seq(Shaped) /\ Len(b) = 1 /\ b[1] = a
          /\ MaxCalls \in Nat
      BY <1>4, BoundsAssumption
    <3>2. /\ Len(b) >= 1 /\ Len(b) <= MaxCalls + 1 /\ b[1].role # "tool"
          /\ \A i \in 1..Len(b) : b[i].role \in Roles \ SystemRoles
      BY <1>4, <3>1 DEF Roles, SystemRoles
    <3>3. Added(memory, a) = Limited(memory \o b)
      <4>1. Append(memory, a) = memory \o <<a>>
        BY <1>4, <1>8
      <4> QED
        BY <4>1 DEF Added
    <3> HIDE DEF b
    <3>4. PICK g \in Seq(Shaped) : Limited(memory \o b) = g \o b /\ WholeBut(g, interrupted)
      BY <1>8, <1>13, <3>1, <3>2, LimitedBlock
    <3>5. memory' = g \o <<a>>
      BY <1>1, <3>3, <3>4 DEF b
    <3> QED
      BY <1>1, <1>5, <1>6, <2>2, <3>4, <3>5 DEF Open
  <2> QED
    BY <2>1, <2>2
<1>15. Open(stored)'
  <2>1. stored' = stored \o <<a>> /\ stored \in Seq(Shaped) /\ stored \in Seq(Messages)
        /\ <<a>> \in Seq(Messages)
    <3>1. Append(stored, a) = stored \o <<a>> /\ <<a>> \in Seq(Messages)
      BY <1>4, <1>8
    <3>2. stored \in Seq(Shaped) /\ stored \in Seq(Messages)
      BY <1>8, SaidShaped, SeqSubset
    <3> QED
      BY <1>1, <3>1, <3>2
  <2>2. CASE e \in interrupted
    <3>1. WholeBut(stored', interrupted)
      BY <1>4, <1>8, <2>1, <2>2, BlockWhole, WholeConcat
    <3> QED
      BY <1>1, <1>5, <2>2, <3>1 DEF Open
  <2>3. CASE e \notin interrupted
    BY <1>1, <1>5, <1>6, <1>8, <2>1, <2>3 DEF Open
  <2> QED
    BY <2>2, <2>3
<1>16. MemoryFormed'
  <2>1. run'.phase \in ToolPhases
    BY <1>5 DEF ToolPhases
  <2>2. Len(Summaries(memory')) <= 1 /\ Len(Prompts(memory')) <= Guidance'
    BY <1>7, <1>8, <1>11
  <2> QED
    BY <1>12, <1>14, <1>15, <2>1, <2>2 DEF MemoryFormed
<1>17. RequestFormed'
  <2>1. request' \in Seq(Shaped)
    BY <1>1
  <2> QED
    BY <1>5, <2>1 DEF RequestFormed
<1>18. InOrder' /\ OtherTypes'
  BY <1>1, <1>5 DEF InOrder, ConversationInv, OtherTypes
<1> QED
  BY <1>16, <1>17, <1>18 DEF ConversationInv

\* The results of the calls, in their order: with their answer, a whole exchange.
LEMMA ResultMessages ==
  ASSUME Inv, ConversationInv, run.phase = "calling", run.next > run.calls
  PROVE  /\ ToolMessages \in Seq(Said)
         /\ Len(run.results) = run.calls /\ Len(ToolMessages) = run.calls
         /\ \A i \in 1..run.calls :
              /\ ToolMessages[i].role = "tool" /\ ToolMessages[i].exchange = run.exchange
              /\ ToolMessages[i].calls = 0 /\ ToolMessages[i].call = i
              /\ ToolMessages[i].from = i
<1>1. /\ run \in RunRecord /\ Len(run.results) + 1 = run.next /\ run.next <= run.calls + 1
      /\ \A i \in 1..Len(run.results) : run.results[i] = i
  BY DEF Inv, Types, ControlTypes, RunFormed, ToolPhases, ConversationInv, InOrder
<1>2. /\ run.results \in Seq(1..MaxCalls) /\ run.exchange \in 0..MaxExchanges
      /\ run.calls \in 0..MaxCalls
  BY <1>1 DEF RunRecord
<1>3. Len(run.results) \in Nat /\ Len(run.results) = run.calls /\ run.calls <= MaxCalls
      /\ MaxCalls \in Nat
  BY <1>1, <1>2, BoundsAssumption
<1>4. ASSUME NEW i \in 1..run.calls
      PROVE  /\ ToolMessages[i] = Message("tool", run.exchange, 0, i, i)
             /\ ToolMessages[i] \in Said
             /\ ToolMessages[i].role = "tool" /\ ToolMessages[i].exchange = run.exchange
             /\ ToolMessages[i].calls = 0 /\ ToolMessages[i].call = i
             /\ ToolMessages[i].from = i
  <2>1. ToolMessages[i] = Message("tool", run.exchange, 0, i, i)
    BY <1>1, <1>3 DEF ToolMessages
  <2> DEFINE m == Message("tool", run.exchange, 0, i, i)
  <2>2. /\ m.role = "tool" /\ m.exchange = run.exchange /\ m.calls = 0 /\ m.call = i
        /\ m.from = i
    BY DEF Message
  <2>3. i \in 0..MaxCalls /\ 0 \in 0..MaxCalls /\ i > 0 /\ "tool" \in Roles \ SystemRoles
    BY <1>3 DEF Roles, SystemRoles
  <2>4. m \in Messages
    BY <1>2, <2>3 DEF Message, Messages
  <2> HIDE DEF m
  <2>5. m \in Said
    BY <2>2, <2>3, <2>4 DEF Said, Shaped
  <2> QED
    BY <2>1, <2>2, <2>5 DEF m
<1>5. ToolMessages \in Seq(Said) /\ Len(ToolMessages) = run.calls
  <2>1. \A i \in 1..run.calls : ToolMessages[i] \in Said
    BY <1>4
  <2>2. ToolMessages = [i \in 1..run.calls |-> ToolMessages[i]]
    BY <1>3 DEF ToolMessages
  <2>3. ToolMessages \in [1..run.calls -> Said]
    BY <2>1, <2>2
  <2> HIDE DEF ToolMessages
  <2> QED
    BY <1>2, <2>2, <2>3
<1> QED
  BY <1>3, <1>4, <1>5

\* The memory as the results are added, one after the other.
LEMMA RememberingIs ==
  ASSUME memory \in Seq(Shaped), ToolMessages \in Seq(Shaped),
         Len(ToolMessages) = Len(run.results), Len(run.results) \in Nat
  PROVE  /\ Remembering \in [0..Len(run.results) -> Seq(Shaped)]
         /\ Remembering[0] = memory
         /\ \A k \in 1..Len(run.results) :
              Remembering[k] = Added(Remembering[k - 1], ToolMessages[k])
<1> DEFINE n == Len(run.results)
           Form(f) == [k \in 0..n |->
                         IF k = 0 THEN memory ELSE Added(f[k - 1], ToolMessages[k])]
<1>0. n \in Nat
  OBVIOUS
<1>1. PICK f \in [0..n -> Seq(Shaped)] :
        f[0] = memory /\ \A k \in 1..n : f[k] = Added(f[k - 1], ToolMessages[k])
  <2> DEFINE t == ToolMessages
  <2>1. t \in Seq(Shaped) /\ Len(t) = n
    OBVIOUS
  <2> HIDE DEF t
  <2>2. \E f \in [0..Len(t) -> Seq(Shaped)] :
          f[0] = memory /\ \A k \in 1..Len(t) : f[k] = Added(f[k - 1], t[k])
    BY <2>1, AddingExists
  <2> HIDE DEF n
  <2> QED
    BY <2>1, <2>2 DEF t
<1>2. Remembering = CHOOSE g : g = Form(g)
  BY DEF Remembering
<1> HIDE DEF n
<1>3. f = Form(f)
  <2>1. ASSUME NEW k \in 0..n PROVE f[k] = Form(f)[k]
    <3>1. k = 0 \/ k \in 1..n
      BY <1>0
    <3> QED
      BY <1>1, <3>1
  <2>2. f = [k \in 0..n |-> f[k]]
    BY <1>1
  <2>3. Form(f) = [k \in 0..n |-> Form(f)[k]]
    OBVIOUS
  <2> HIDE DEF Form
  <2> QED
    BY <2>1, <2>2, <2>3
<1>4. Remembering = Form(Remembering)
  <2> HIDE DEF Form
  <2> QED
    BY <1>2, <1>3
<1> DEFINE R == Remembering
<1>5. R = [k \in 0..n |-> IF k = 0 THEN memory ELSE Added(R[k - 1], ToolMessages[k])]
  BY <1>4
<1> HIDE DEF R
<1>6. R[0] = memory
  <2>1. 0 \in 0..n
    BY <1>0
  <2> QED
    BY <1>5, <2>1
<1>7. ASSUME NEW k \in 1..n PROVE R[k] = Added(R[k - 1], ToolMessages[k])
  <2>1. k \in 0..n /\ k # 0
    BY <1>0
  <2> QED
    BY <1>5, <2>1
<1> DEFINE N == {k \in Nat : k <= n => R[k] \in Seq(Shaped)}
<1>8. Nat \subseteq N
  <2>1. 0 \in N
    BY <1>6
  <2>2. ASSUME NEW k \in Nat, k \in N PROVE k + 1 \in N
    <3> SUFFICES ASSUME k + 1 <= n PROVE R[k + 1] \in Seq(Shaped)
      OBVIOUS
    <3>1. k + 1 \in 1..n /\ k + 1 - 1 = k /\ k <= n
      BY <1>0
    <3>2. R[k] \in Seq(Shaped)
      BY <2>2, <3>1
    <3>3. ToolMessages[k + 1] \in Shaped
      BY <3>1 DEF n
    <3>4. Added(R[k], ToolMessages[k + 1]) \in Seq(Shaped)
      BY <3>2, <3>3, AddedOne
    <3> QED
      BY <1>7, <3>1, <3>4
  <2> HIDE DEF N
  <2> QED
    BY <2>1, <2>2, SetInduction
<1>9. \A k \in 0..n : R[k] \in Seq(Shaped)
  BY <1>0, <1>8
<1>10. R \in [0..n -> Seq(Shaped)]
  BY <1>5, <1>9
<1> QED
  BY <1>6, <1>7, <1>10 DEF R, n

\* The results are stored: the answer and its results are a whole exchange again.
LEMMA StoreResultsTalk ==
  ASSUME Inv, ConversationInv, StoreResults
  PROVE  ConversationInv'
<1> DEFINE n == Len(run.results)
           ts == ToolMessages
           R == Remembering
           a == Answer
<1>1. /\ run.phase = "calling" /\ run.next > run.calls /\ run.phase \in ToolPhases
      /\ memory' = R[n] /\ stored' = stored \o ts
      /\ run' = NextIteration
      /\ UNCHANGED <<request, interrupted, tasks, question, lingering>>
  BY DEF StoreResults, history, ToolPhases
<1>2. /\ ts \in Seq(Said) /\ n = run.calls /\ Len(ts) = n
      /\ \A i \in 1..n :
           /\ ts[i].role = "tool" /\ ts[i].exchange = run.exchange
           /\ ts[i].calls = 0 /\ ts[i].call = i /\ ts[i].from = i
  <2>1. run.phase = "calling" /\ run.next > run.calls
    BY <1>1
  <2> QED
    BY <2>1, ResultMessages
<1>3. /\ run.exchange \in 1..MaxExchanges /\ run.calls \in 0..MaxCalls
      /\ a \in Said /\ a \in Shaped /\ a \in Messages
      /\ a.role = "assistant" /\ a.exchange = run.exchange
      /\ a.calls = run.calls /\ a.call = 0
      /\ Guidance <= MaxIterations + 1 /\ Guidance = run.iteration + 2
      /\ run.iteration \in Nat
      /\ memory \in Seq(Shaped) /\ stored \in Seq(Said)
      /\ Len(Summaries(memory)) <= 1 /\ Len(Prompts(memory)) <= Guidance
      /\ Open(memory) /\ Open(stored)
  BY <1>1, AtCalls
<1>4. /\ ts \in Seq(Shaped) /\ ts \in Seq(Messages)
      /\ stored \in Seq(Shaped) /\ stored \in Seq(Messages)
  BY <1>2, <1>3, SaidShaped, SeqSubset
<1>5. /\ n \in Nat /\ n <= MaxCalls /\ MaxCalls \in Nat /\ MaxIterations \in Nat
  BY <1>2, <1>3, BoundsAssumption
<1>6. /\ R \in [0..n -> Seq(Shaped)] /\ R[0] = memory
      /\ \A k \in 1..n : R[k] = Added(R[k - 1], ts[k])
  BY <1>2, <1>3, <1>4, <1>5, RememberingIs
<1>7. run.exchange \notin interrupted =>
        \A s : Open(s) => \E f \in Seq(Shaped) : s = f \o <<a>> /\ WholeBut(f, interrupted)
  BY DEF Open
<1>8. run.exchange \in interrupted => \A s : Open(s) => WholeBut(s, interrupted)
  BY DEF Open
<1> DEFINE Good(ms) ==
      /\ WholeBut(ms, interrupted)
      /\ \A few \in SUBSET SystemRoles : OfRoles(ms, few) = OfRoles(memory, few)
<1>9. /\ memory' \in Seq(Shaped) /\ Good(memory')
      /\ stored' \in Seq(Said) /\ WholeBut(stored', interrupted)
  <2> HIDE DEF ts, R, a, n
  <2>0. memory' \in Seq(Shaped) /\ stored' \in Seq(Said)
    <3>1. n \in 0..n
      BY <1>5
    <3> QED
      BY <1>1, <1>2, <1>3, <1>6, <3>1
  <2>1. CASE run.exchange \in interrupted
    <3>1. \A k \in 1..n : ts[k].exchange \in interrupted /\ ts[k].role \notin SystemRoles
      BY <1>2, <2>1 DEF SystemRoles
    <3>2. WholeBut(memory, interrupted) /\ WholeBut(stored, interrupted)
      BY <1>3, <1>8, <2>1
    <3>3. Good(R[n])
      <4> DEFINE l == Len(ts)
      <4>1. l = n
        BY <1>2
      <4>2. /\ R \in [0..l -> Seq(Shaped)] /\ WholeBut(R[0], interrupted)
            /\ \A k \in 1..l : ts[k].exchange \in interrupted /\ ts[k].role \notin SystemRoles
            /\ \A k \in 1..l : R[k] = Added(R[k - 1], ts[k])
        <5> HIDE DEF l
        <5> QED
          BY <1>6, <3>1, <3>2, <4>1
      <4>3. /\ WholeBut(R[l], interrupted)
            /\ \A few \in SUBSET SystemRoles : OfRoles(R[l], few) = OfRoles(R[0], few)
        BY <1>4, <4>2, AddingTorn
      <4> HIDE DEF l
      <4> QED
        BY <1>6, <4>1, <4>3
    <3>4. WholeBut(ts, interrupted)
      BY <1>2, <3>1 DEF WholeBut
    <3>5. WholeBut(stored \o ts, interrupted)
      BY <1>4, <3>2, <3>4, WholeConcat
    <3> QED
      BY <1>1, <2>0, <3>3, <3>5
  <2>2. CASE run.exchange \notin interrupted
    <3> DEFINE b == <<a>> \o ts
    <3>1. PICK f \in Seq(Shaped) : memory = f \o <<a>> /\ WholeBut(f, interrupted)
      BY <1>3, <1>7, <2>2
    <3>2. PICK g \in Seq(Shaped) : stored = g \o <<a>> /\ WholeBut(g, interrupted)
      BY <1>3, <1>7, <2>2
    <3>3. /\ b \in Seq(Said) /\ Len(b) = n + 1 /\ b[1] = a
          /\ \A k \in 1..n : b[k + 1] = ts[k]
      <4>1. <<a>> \in Seq(Said) /\ Len(<<a>>) = 1 /\ <<a>>[1] = a
        BY <1>3
      <4>2. /\ <<a>> \o ts \in Seq(Said) /\ Len(<<a>> \o ts) = 1 + n
            /\ (<<a>> \o ts)[1] = a
            /\ \A k \in 1..n : (<<a>> \o ts)[1 + k] = ts[k]
        BY <1>2, <4>1, ConcatAt
      <4> QED
        BY <1>5, <4>2
    <3> HIDE DEF b
    <3>4. /\ Len(b) >= 1 /\ Len(b) <= MaxCalls + 1 /\ Len(b) - 1 = n /\ b[1].role # "tool"
      BY <1>3, <1>5, <3>3
    <3>5. Block(b, interrupted)
      <4>1. \A k \in 1..(Len(b) - 1) :
              /\ b[k + 1].role = "tool" /\ b[k + 1].exchange = b[1].exchange
              /\ b[k + 1].call = k /\ b[k + 1].from = k /\ b[k + 1].calls = 0
        <5> SUFFICES ASSUME NEW k \in 1..n
                     PROVE  /\ b[k + 1].role = "tool" /\ b[k + 1].exchange = b[1].exchange
                            /\ b[k + 1].call = k /\ b[k + 1].from = k /\ b[k + 1].calls = 0
          BY <3>4
        <5>1. b[k + 1] = ts[k] /\ b[1].exchange = run.exchange
          BY <1>3, <3>3
        <5> QED
          BY <1>2, <5>1
      <4>2. b[1].calls = Len(b) - 1
        BY <1>2, <1>3, <3>3, <3>4
      <4> QED
        BY <3>4, <4>1, <4>2 DEF Block
    <3>6. b \in Seq(Messages) /\ b \in Seq(Shaped)
      BY <3>3, SaidShaped, SeqSubset
    <3>7. WholeBut(b, interrupted)
      BY <3>5, <3>6, BlockWhole
    <3>8. WholeBut(stored', interrupted)
      <4>1. g \in Seq(Messages)
        BY <3>2, ShapedMessages
      <4>2. <<a>> \in Seq(Messages)
        BY <1>3
      <4>3. (g \o <<a>>) \o ts = g \o (<<a>> \o ts)
        <5>1. \A x, y, z \in Seq(Messages) : (x \o y) \o z = x \o (y \o z)
          BY ConcatAssociative, SMTT(30)
        <5> QED
          BY <1>4, <4>1, <4>2, <5>1
      <4>4. stored' = g \o b
        BY <1>1, <3>2, <4>3 DEF b
      <4> QED
        BY <3>2, <3>6, <3>7, <4>1, <4>4, WholeConcat
    <3>9. \A few \in SUBSET SystemRoles : OfRoles(memory, few) = OfRoles(f, few)
      <4>1. a.role \notin SystemRoles /\ a \in Shaped
        BY <1>3 DEF SystemRoles
      <4> QED
        BY <3>1, <4>1, CountsApart
    <3>10. Len(Systems(f)) + MaxCalls + 1 <= MaxMessages
      <4>1. Prompts(f) = Prompts(memory) /\ Summaries(f) = Summaries(memory)
        BY <3>9 DEF Prompts, Summaries, SystemRoles
      <4>2. Len(Prompts(memory)) \in Nat
        BY <1>3, CountsType
      <4>3. Len(Prompts(memory)) <= MaxIterations + 1
        BY <1>3, <1>5, <4>2, SMTT(30)
      <4> QED
        BY <1>3, <3>1, <4>1, <4>3, Room
    <3>11. PICK h \in Seq(Shaped) :
             /\ R[n] = h \o b /\ WholeBut(h, interrupted)
             /\ \A few \in SUBSET SystemRoles : OfRoles(h, few) = OfRoles(f, few)
      <4>1. R[0] = f \o <<b[1]>>
        BY <1>6, <3>1, <3>3
      <4>2. \A k \in 1..n : R[k] = Added(R[k - 1], b[k + 1])
        BY <1>6, <3>3
      <4>3. b \in Seq(Said) /\ f \in Seq(Shaped) /\ WholeBut(f, interrupted)
        BY <3>1, <3>3
      <4>4. Len(b) >= 1 /\ Len(b) <= MaxCalls + 1 /\ b[1].role # "tool"
        BY <3>4
      <4> QED
        <5>1. n \in Nat /\ Len(b) = n + 1 /\ R \in [0..n -> Seq(Shaped)]
          BY <1>5, <1>6, <3>3
        <5>2. \A r \in [0..n -> Seq(Shaped)] :
                r[0] = f \o <<b[1]>> /\ (\A k \in 1..n : r[k] = Added(r[k - 1], b[k + 1]))
                => \E h \in Seq(Shaped) :
                     /\ r[n] = h \o b /\ WholeBut(h, interrupted)
                     /\ \A few \in SUBSET SystemRoles : OfRoles(h, few) = OfRoles(f, few)
          BY <3>10, <4>3, <4>4, <5>1, AddingBlock, ZenonT(60)
        <5> QED
          BY <4>1, <4>2, <5>1, <5>2
    <3>12. WholeBut(R[n], interrupted)
      <4>1. h \in Seq(Messages)
        BY <3>11, ShapedMessages
      <4> QED
        BY <3>6, <3>7, <3>11, <4>1, WholeConcat
    <3>13. ASSUME NEW few \in SUBSET SystemRoles PROVE OfRoles(R[n], few) = OfRoles(memory, few)
      <4>1. \A i \in 1..Len(b) : b[i].role \notin few
        <5>1. \A i \in 1..Len(b) : b[i] \in Said
          BY <3>3
        <5> QED
          BY <5>1, <3>13 DEF Said
      <4>2. OfRoles(b, few) = <<>>
        BY <3>6, <4>1, OfRolesAll
      <4>3. OfRoles(h \o b, few) = OfRoles(h, few) \o OfRoles(b, few)
        BY <3>6, <3>11, ShapedConcat
      <4>4. OfRoles(h, few) \in Seq(Messages)
        <5>1. h \in Seq(Messages)
          BY <3>11, ShapedMessages
        <5> QED
          BY <5>1, OfRolesAppended
      <4>5. OfRoles(h, few) \o <<>> = OfRoles(h, few)
        BY <4>4
      <4>6. OfRoles(R[n], few) = OfRoles(f, few)
        BY <3>11, <4>2, <4>3, <4>5
      <4> QED
        BY <3>9, <4>6
    <3> QED
      BY <1>1, <2>0, <3>8, <3>12, <3>13
  <2> QED
    BY <2>1, <2>2
<1>10. Prompts(memory') = Prompts(memory) /\ Summaries(memory') = Summaries(memory)
  BY <1>9 DEF Prompts, Summaries, SystemRoles
<1>11. /\ run'.phase = "iterating" /\ run'.results = <<>> /\ run'.iteration = run.iteration + 1
  BY <1>1 DEF NextIteration, Idle
<1>12. run'.phase \notin ToolPhases /\ Guidance' = Guidance
  BY <1>3, <1>11 DEF ToolPhases, CallPhases, Guidance
<1>13. request' \in Seq(Shaped)
  BY <1>1 DEF ConversationInv, RequestFormed
<1>14. OtherTypes'
  BY <1>1 DEF ConversationInv, OtherTypes
<1> HIDE DEF ts, R, a, n
<1> QED
  BY <1>1, <1>3, <1>9, <1>10, <1>11, <1>12, <1>13, <1>14, OutsideTalk

-----------------------------------------------------------------------------
(* The steps of the calls.                                                 *)

LEMMA OthersSame ==
  ASSUME ConversationInv, UNCHANGED <<tasks, question, lingering, interrupted>>
  PROVE  OtherTypes'
  BY DEF ConversationInv, OtherTypes

\* A question is asked, ages, or is over.
LEMMA OthersAsked ==
  ASSUME ConversationInv, NEW c \in Calls, NEW state \in {"none", "open", "late"},
         question' = [question EXCEPT ![c] = state], lingering' \in SUBSET Calls,
         UNCHANGED <<tasks, interrupted>>
  PROVE  OtherTypes'
  BY DEF ConversationInv, OtherTypes

LEMMA SkipCallTalk ==
  ASSUME Inv, ConversationInv, SkipCall
  PROVE  ConversationInv'
<1>1. /\ Calling /\ run' = Skipped
      /\ UNCHANGED <<conversation, tasks, question, lingering, interrupted>>
  BY DEF SkipCall, history
<1>2. OtherTypes'
  BY <1>1, OthersSame
<1>3. "plain" \in Kinds
  BY DEF Kinds
<1> QED
  BY <1>1, <1>2, <1>3, RunTalk

LEMMA AskUserTalk ==
  ASSUME Inv, ConversationInv, run.phase \in CallPhases \/ Calling, NEW kind \in Kinds,
         AskUser(kind), UNCHANGED <<conversation, tasks, lingering, interrupted>>
  PROVE  ConversationInv'
<1>1. This \in Calls
  BY AtCall DEF Inv
<1>2. lingering' \in SUBSET Calls
  BY DEF ConversationInv, OtherTypes
<1>3. OtherTypes'
  BY <1>1, <1>2, OthersAsked, OthersSame DEF AskUser
<1>4. /\ "asking" \in CallPhases /\ "consenting" \in CallPhases
      /\ \/ run' = Skipped \/ run' = [run EXCEPT !.phase = "asking", !.kind = kind]
         \/ run' = [run EXCEPT !.phase = "consenting", !.kind = kind]
  BY DEF AskUser, CallPhases
<1> QED
  BY <1>3, <1>4, RunTalk

LEMMA CallToolTalk ==
  ASSUME Inv, ConversationInv, NEW kind \in Kinds, CallTool(kind)
  PROVE  ConversationInv'
<1>1. /\ Calling /\ run' = [run EXCEPT !.phase = "supervising", !.kind = kind]
      /\ UNCHANGED <<conversation, tasks, question, lingering, interrupted>>
  BY DEF CallTool, history
<1>2. OtherTypes'
  BY <1>1, OthersSame
<1>3. "supervising" \in CallPhases
  BY DEF CallPhases
<1> QED
  BY <1>1, <1>2, <1>3, RunTalk

\* The tool is executed; one that asks the user asks at once.
LEMMA ExecuteTalk ==
  ASSUME Inv, ConversationInv, run.phase \in CallPhases \/ Calling, NEW kind \in Kinds,
         Execute(kind), UNCHANGED <<conversation, tasks, lingering, interrupted>>
  PROVE  ConversationInv'
<1>1. This \in Calls /\ lingering' \in SUBSET Calls
  BY AtCall DEF Inv, ConversationInv, OtherTypes
<1>2. /\ run' = [run EXCEPT !.phase = "executing", !.kind = kind]
      /\ question' = [question EXCEPT ![This] = IF kind = "ask" THEN "open" ELSE "none"]
      /\ (IF kind = "ask" THEN "open" ELSE "none") \in {"none", "open", "late"}
  BY DEF Execute
<1>3. OtherTypes'
  BY <1>1, <1>2, OthersAsked
<1>4. "executing" \in CallPhases
  BY DEF CallPhases
<1> QED
  BY <1>2, <1>3, <1>4, RunTalk

LEMMA SupervisedTalk ==
  ASSUME Inv, ConversationInv, Supervised
  PROVE  ConversationInv'
<1>1. /\ run.phase \in CallPhases /\ run.kind \in Kinds
      /\ UNCHANGED <<conversation, tasks, lingering, interrupted>>
  BY DEF Supervised, history, CallPhases, Inv, Types, ControlTypes, RunRecord
<1>2. CASE run' = Skipped /\ UNCHANGED question
  <2>1. OtherTypes'
    BY <1>1, <1>2, OthersSame
  <2> QED
    BY <1>1, <1>2, <2>1, RunTalk
<1>3. CASE AskUser(run.kind)
  BY <1>1, <1>3, AskUserTalk
<1>4. CASE Execute(run.kind)
  BY <1>1, <1>4, ExecuteTalk
<1> QED
  BY <1>2, <1>3, <1>4 DEF Supervised

\* The question of a call is over: that of the run's call, or another one.
LEMMA QuestionTalk ==
  ASSUME Inv, ConversationInv, NEW c \in Calls, NEW yes \in BOOLEAN, QuestionOver(c, yes)
  PROVE  ConversationInv'
<1>1. UNCHANGED <<conversation, tasks, interrupted>>
  BY DEF QuestionOver
<1>2. CASE /\ run.phase = "asking" /\ Execute(run.kind) /\ UNCHANGED lingering
  <2>1. run.phase \in CallPhases /\ run.kind \in Kinds
    BY <1>2 DEF CallPhases, Inv, Types, ControlTypes, RunRecord
  <2> QED
    BY <1>1, <1>2, <2>1, ExecuteTalk
<1>3. ASSUME question' = [question EXCEPT ![c] = "none"],
             lingering' = lingering \/ lingering' = lingering \ {c}
      PROVE  OtherTypes'
  <2>1. lingering' \in SUBSET Calls
    BY <1>3 DEF ConversationInv, OtherTypes
  <2> QED
    BY <1>1, <1>3, <2>1, OthersAsked
<1>4. CASE /\ run.phase \in {"asking", "executing"} /\ OtherTypes'
           /\ run' = Skipped \/ run' = Answered(run.kind)
  <2>1. run.phase \in CallPhases /\ run.kind \in Kinds
    BY <1>4 DEF CallPhases, Inv, Types, ControlTypes, RunRecord
  <2> QED
    BY <1>1, <1>4, <2>1, RunTalk
<1>5. CASE UNCHANGED run /\ OtherTypes'
  BY <1>1, <1>5, TalkUnchanged
<1> QED
  BY <1>2, <1>3, <1>4, <1>5 DEF QuestionOver

\* A question ages, or a tool that lingers ends: the run stays.
LEMMA ApartTalk ==
  ASSUME Inv, ConversationInv, NEW c \in Calls, QuestionAges(c) \/ ToolLingers(c)
  PROVE  ConversationInv'
<1>1. UNCHANGED <<run, conversation, interrupted, tasks>>
  BY DEF QuestionAges, ToolLingers, history
<1>2. OtherTypes'
  <2>1. CASE QuestionAges(c)
    <3>1. lingering' \in SUBSET Calls /\ question' = [question EXCEPT ![c] = "late"]
      BY <2>1 DEF QuestionAges, ConversationInv, OtherTypes
    <3> QED
      BY <1>1, <3>1, OthersAsked
  <2>2. CASE ToolLingers(c)
    BY <1>1, <2>2 DEF ToolLingers, ConversationInv, OtherTypes
  <2> QED
    BY <2>1, <2>2
<1> QED
  BY <1>1, <1>2, TalkUnchanged

\* The tool ends, or its time limit is over.
LEMMA ToolTalk ==
  ASSUME Inv, ConversationInv, ToolEnds \/ ToolTimesOut
  PROVE  ConversationInv'
<1>1. /\ run.phase \in CallPhases /\ run.kind \in Kinds /\ run' = Answered(run.kind)
      /\ UNCHANGED <<conversation, question, interrupted>>
  BY DEF ToolEnds, ToolTimesOut, history, CallPhases, Inv, Types, ControlTypes, RunRecord
<1>2. This \in Calls
  BY <1>1, AtCall DEF Inv
<1>3. OtherTypes'
  <2>1. CASE ToolEnds
    <3>1. UNCHANGED lingering /\ tasks' \in {tasks, "open", "done"}
      BY <2>1 DEF ToolEnds, TasksAfter
    <3> QED
      BY <1>1, <3>1 DEF ConversationInv, OtherTypes
  <2>2. CASE ToolTimesOut
    BY <1>1, <1>2, <2>2 DEF ToolTimesOut, ConversationInv, OtherTypes
  <2> QED
    BY <2>1, <2>2
<1> QED
  BY <1>1, <1>3, RunTalk

LEMMA ConsentTalk ==
  ASSUME Inv, ConversationInv, Consent
  PROVE  ConversationInv'
<1>1. UNCHANGED <<conversation, tasks, question, lingering, interrupted>>
  BY DEF Consent
<1>2. OtherTypes'
  BY <1>1, OthersSame
<1>3. \/ /\ run.phase \in CallPhases
         /\ run' = [run EXCEPT !.phase = "executing"] \/ run' = Skipped
      \/ UNCHANGED run
  BY DEF Consent, CallPhases
<1>4. "executing" \in CallPhases /\ "plain" \in Kinds
  BY DEF CallPhases, Kinds
<1> QED
  BY <1>1, <1>2, <1>3, <1>4, RunTalk, TalkUnchanged

-----------------------------------------------------------------------------
(* The memory is cleared, or given a session by a new agent or a restart.  *)

\* What is whole but for the calls under way is whole once these are interrupted.
LEMMA InterruptedWhole ==
  ASSUME Inv, ConversationInv, Interrupts
  PROVE  /\ interrupted \subseteq interrupted' /\ interrupted' \in SUBSET (1..MaxExchanges)
         /\ run.phase \in ToolPhases => run.exchange \in interrupted'
         /\ WholeBut(stored, interrupted')
<1>1. run.exchange \in 0..MaxExchanges /\ MaxExchanges \in Nat
  BY BoundsAssumption DEF Inv, Types, ControlTypes, RunRecord
<1>2. interrupted \in SUBSET (1..MaxExchanges)
  BY DEF ConversationInv, OtherTypes
<1>3. interrupted \subseteq interrupted' /\ interrupted' \in SUBSET (1..MaxExchanges)
  <2>1. CASE run.exchange = 0
    BY <1>2, <2>1 DEF Interrupts
  <2>2. CASE run.exchange # 0
    <3>1. run.exchange \in 1..MaxExchanges /\ interrupted' = interrupted \cup {run.exchange}
      BY <1>1, <2>2 DEF Interrupts
    <3> QED
      BY <1>2, <3>1
  <2> QED
    BY <2>1, <2>2
<1>4. run.phase \in ToolPhases => run.exchange \in interrupted'
  <2>1. run.phase \in ToolPhases => run.exchange # 0
    BY AtCalls
  <2> QED
    BY <2>1 DEF Interrupts
<1>5. WholeBut(stored, interrupted')
  <2>1. CASE run.phase \notin ToolPhases
    <3>1. WholeBut(stored, interrupted)
      BY <2>1 DEF ConversationInv, MemoryFormed
    <3> QED
      BY <1>3, <3>1, WholeMore
  <2>2. CASE run.phase \in ToolPhases
    <3>1. CASE run.exchange \in interrupted
      <4>1. WholeBut(stored, interrupted)
        BY <2>2, <3>1, AtCalls DEF Open
      <4> QED
        BY <1>3, <4>1, WholeMore
    <3>2. CASE run.exchange \notin interrupted
      <4>1. PICK f \in Seq(Shaped) : stored = f \o <<Answer>> /\ WholeBut(f, interrupted)
        BY <2>2, <3>2, AtCalls DEF Open
      <4>2. Answer \in Messages /\ Answer.exchange \in interrupted'
        BY <1>4, <2>2, AtCalls
      <4> DEFINE a == Answer
                 torn == interrupted'
      <4>3. a \in Messages /\ a.exchange \in torn /\ stored = f \o <<a>>
        BY <4>1, <4>2
      <4>4. WholeBut(f, torn)
        BY <1>3, <4>1, WholeMore
      <4> HIDE DEF a, torn
      <4>5. <<a>> \in Seq(Messages) /\ Len(<<a>>) = 1 /\ <<a>>[1] = a
        BY <4>3
      <4>6. WholeBut(<<a>>, torn)
        BY <4>3, <4>5, BlockWhole DEF Block
      <4>7. f \in Seq(Messages)
        BY <4>1, ShapedMessages
      <4> QED
        BY <4>3, <4>4, <4>5, <4>6, <4>7, WholeConcat DEF torn
    <3> QED
      BY <3>1, <3>2
  <2> QED
    BY <2>1, <2>2
<1> QED
  BY <1>3, <1>4, <1>5

\* Under a run that goes on, the memory and the rows become others.
LEMMA MemoryReplaced ==
  ASSUME Inv, ConversationInv, UNCHANGED <<run, request, tasks, question, lingering>>,
         interrupted \subseteq interrupted', interrupted' \in SUBSET (1..MaxExchanges),
         memory' \in Seq(Shaped), Len(Summaries(memory')) <= 1, Len(Prompts(memory')) <= 1,
         stored' \in Seq(Said),
         run.phase \in ToolPhases => Open(memory)' /\ Open(stored)',
         run.phase \notin ToolPhases =>
           WholeBut(memory', interrupted') /\ WholeBut(stored', interrupted')
  PROVE  ConversationInv'
<1> DEFINE torn == interrupted'
<1>1. interrupted \subseteq torn
  OBVIOUS
<1> HIDE DEF torn
<1>2. run.phase \notin {"idle", "retiring"} =>
        Guidance \in Nat /\ Guidance >= 1 /\ Guidance' = Guidance
  <2>1. run.iteration \in Nat
    BY BoundsAssumption DEF Inv, Types, ControlTypes, RunRecord
  <2> QED
    BY <2>1 DEF Guidance
<1>3. MemoryFormed'
  <2>1. run'.phase \notin {"idle", "retiring"} => Len(Prompts(memory')) <= Guidance'
    <3>1. Len(Prompts(memory')) \in Nat
      BY CountsType
    <3> QED
      BY <1>2, <3>1
  <2> QED
    BY <2>1 DEF MemoryFormed
<1>4. RequestFormed'
  <2>1. request' \in Seq(Shaped)
    BY DEF ConversationInv, RequestFormed
  <2>2. ASSUME run.phase = "compacting" PROVE Talk(request, torn, Guidance)
    <3>1. Talk(request, interrupted, Guidance)
      BY <2>2 DEF ConversationInv, RequestFormed
    <3>2. WholeBut(request, torn)
      BY <1>1, <3>1, WholeMore DEF Talk
    <3> QED
      BY <3>1, <3>2 DEF Talk
  <2>3. ASSUME run.phase \in {"streaming", "backoff"} PROVE WholeBut(request, torn)
    <3>1. WholeBut(request, interrupted)
      BY <2>3 DEF ConversationInv, RequestFormed
    <3> QED
      BY <1>1, <3>1, WholeMore
  <2>4. run.phase = "compacting" => Talk(request', torn, Guidance')
    BY <1>2, <2>2
  <2>5. run.phase \in {"streaming", "backoff"} => WholeBut(request', torn)
    BY <2>3
  <2> QED
    BY <2>1, <2>4, <2>5 DEF RequestFormed, torn
<1>5. InOrder' /\ OtherTypes'
  BY DEF ConversationInv, InOrder, OtherTypes
<1> QED
  BY <1>3, <1>4, <1>5 DEF ConversationInv

LEMMA ClearTalk ==
  ASSUME Inv, ConversationInv, Clear
  PROVE  ConversationInv'
<1> DEFINE p == Plain("system")
           torn == interrupted'
<1>1. /\ memory' = <<p>> /\ Interrupts
      /\ UNCHANGED <<run, request, stored, tasks, question, lingering>>
  BY DEF Clear
<1>2. /\ interrupted \subseteq torn /\ torn \in SUBSET (1..MaxExchanges)
      /\ run.phase \in ToolPhases => run.exchange \in torn
      /\ WholeBut(stored, torn)
  BY <1>1, InterruptedWhole
<1>3. p \in Shaped /\ p \in Messages /\ p.role = "system" /\ \A t : Block(<<p>>, t)
  BY PlainShaped
<1> HIDE DEF p, torn
<1>4. /\ <<p>> \in Seq(Shaped) /\ <<p>> \in Seq(Messages) /\ Len(<<p>>) = 1 /\ Len(<<>>) = 0
  BY <1>3
<1>5. WholeBut(memory', torn)
  BY <1>1, <1>3, <1>4, BlockWhole
<1>6. Prompts(memory') = <<p>> /\ Summaries(memory') = <<>>
  BY <1>1, <1>3, OneOf DEF Prompts, Summaries
<1>7. memory' \in Seq(Shaped) /\ Len(Summaries(memory')) <= 1 /\ Len(Prompts(memory')) <= 1
  <2>1. Len(Summaries(memory')) = 0 /\ Len(Prompts(memory')) = 1
    BY <1>4, <1>6
  <2>2. memory' \in Seq(Shaped)
    BY <1>1, <1>4
  <2> QED
    BY <2>1, <2>2
<1>8. stored' \in Seq(Said) /\ WholeBut(stored', torn)
  BY <1>1, <1>2 DEF ConversationInv, MemoryFormed
<1>9. run.phase \in ToolPhases => Open(memory)' /\ Open(stored)'
  BY <1>1, <1>2, <1>5, <1>8 DEF Open, torn
<1> QED
  BY <1>1, <1>2, <1>5, <1>7, <1>8, <1>9, MemoryReplaced DEF torn

\* The rows of the other session, and what the model counts.
SessionsFormed ==
  /\ aside \in Seq(Said) /\ WholeBut(aside, interrupted)
  /\ bound \in BOOLEAN /\ mixed \in BOOLEAN
  /\ replaced \in 0..scene.replacements

\* The prompt in front of messages, and before the calls under way.
LEMMA PromptedOpen ==
  ASSUME Inv, ConversationInv, run.phase \in ToolPhases,
         NEW ms \in Seq(Shaped), Open(ms), Len(Summaries(ms)) <= 1
  PROVE  Open(Prompted(ms))
<1>1. CASE run.exchange \in interrupted
  BY <1>1, PromptedTalk DEF Open, Talk
<1>2. CASE run.exchange \notin interrupted
  <2> DEFINE a == Answer
             keep == Roles \ {"system"}
  <2>1. PICK f \in Seq(Shaped) : ms = f \o <<a>> /\ WholeBut(f, interrupted)
    BY <1>2 DEF Open
  <2>2. a \in Shaped /\ a \in Messages /\ a.role = "assistant"
    BY AtCalls
  <2> HIDE DEF a
  <2>3. a.role \in keep /\ a.role \notin SystemRoles
    BY <2>2 DEF Roles, SystemRoles
  <2>4. f \in Seq(Messages) /\ <<a>> \in Seq(Messages)
    BY <2>1, <2>2, ShapedMessages
  <2>5. Summaries(f) = Summaries(ms)
    <3>1. {"summary"} \in SUBSET SystemRoles
      BY DEF SystemRoles
    <3> QED
      BY <2>1, <2>2, <2>3, <3>1, CountsApart DEF Summaries
  <2>6. Talk(Prompted(f), interrupted, 1)
    BY <2>1, <2>5, PromptedTalk
  <2>7. OfRoles(ms, keep) = OfRoles(f, keep) \o <<a>>
    <3>1. OfRoles(ms, keep) = OfRoles(f, keep) \o OfRoles(<<a>>, keep)
      BY <2>1, <2>4, OfRolesConcat
    <3> QED
      BY <2>2, <2>3, <3>1, OneOf
  <2> DEFINE p == Plain("system")
             rest == OfRoles(f, keep)
  <2>8. p \in Messages /\ rest \in Seq(Messages) /\ a \in Messages
    BY <2>2, <2>4, PlainShaped, OfRolesAppended
  <2> HIDE DEF p, rest
  <2>9. <<p>> \o (rest \o <<a>>) = (<<p>> \o rest) \o <<a>>
    BY <2>8
  <2>10. Prompted(ms) = Prompted(f) \o <<a>>
    BY <2>7, <2>9 DEF Prompted, p, rest
  <2> QED
    BY <1>2, <2>6, <2>10 DEF Open, Talk, a
<1> QED
  BY <1>1, <1>2

\* What is stored holds no summary, and none comes with the message limit.
LEMMA SaidLimited ==
  ASSUME NEW ms \in Seq(Said)
  PROVE  /\ ms \in Seq(Shaped) /\ Limited(ms) \in Seq(Shaped)
         /\ Summaries(Limited(ms)) = <<>> /\ Systems(ms) = <<>>
         /\ \A torn : WholeBut(ms, torn) => WholeBut(Limited(ms), torn)
<1>1. ms \in Seq(Shaped) /\ ms \in Seq(Messages) /\ \A i \in 1..Len(ms) : ms[i] \in Said
  BY SaidShaped, SeqSubset
<1>2. Limited(ms) \in Seq(Shaped)
  BY <1>1, SaidShaped, LimitedType
<1>3. \A i \in 1..Len(ms) : ms[i].role \notin SystemRoles
  BY <1>1 DEF Said
<1>4. Systems(ms) = <<>>
  BY <1>1, <1>3, OfRolesAll DEF Systems
<1>5. Summaries(Limited(ms)) = <<>>
  <2>1. {"summary"} \subseteq SystemRoles /\ \A i \in 1..Len(ms) : ms[i].role \notin {"summary"}
    BY <1>3 DEF SystemRoles
  <2> QED
    BY <1>1, <2>1, LimitedSystems, OfRolesAll DEF Summaries
<1> QED
  BY <1>1, <1>2, <1>4, <1>5, LimitedWhole

LEMMA LimitedOpen ==
  ASSUME Inv, ConversationInv, run.phase \in ToolPhases, NEW ms \in Seq(Said), Open(ms)
  PROVE  Open(Limited(ms))
<1>1. CASE run.exchange \in interrupted
  BY <1>1, SaidLimited DEF Open
<1>2. CASE run.exchange \notin interrupted
  <2> DEFINE a == Answer
             b == <<a>>
  <2>1. PICK f \in Seq(Shaped) : ms = f \o <<a>> /\ WholeBut(f, interrupted)
    BY <1>2 DEF Open
  <2>2. a \in Shaped /\ a \in Messages /\ a.role = "assistant"
    BY AtCalls
  <2> HIDE DEF a
  <2>3. a.role \in Roles \ SystemRoles /\ a.role # "tool" /\ MaxCalls \in Nat
    BY <2>2, BoundsAssumption DEF Roles, SystemRoles
  <2>4. /\ b \in Seq(Shaped) /\ Len(b) = 1 /\ Len(b) >= 1 /\ Len(b) <= MaxCalls + 1
        /\ b[1].role # "tool" /\ \A i \in 1..Len(b) : b[i].role \in Roles \ SystemRoles
    BY <2>2, <2>3
  <2>5. Systems(f) = <<>>
    <3>1. SystemRoles \in SUBSET SystemRoles
      OBVIOUS
    <3>2. OfRoles(f \o <<a>>, SystemRoles) = OfRoles(f, SystemRoles)
      BY <2>1, <2>2, <2>3, <3>1, CountsApart
    <3> QED
      BY <2>1, <3>2, SaidLimited DEF Systems
  <2>6. Len(Systems(f)) + MaxCalls + 1 <= MaxMessages
    <3>1. MaxIterations \in Nat /\ MaxCalls \in Nat /\ MaxMessages \in Nat /\ Len(<<>>) = 0
      BY BoundsAssumption, MessagesAssumption
    <3> QED
      BY <2>5, <3>1, MessagesAssumption
  <2> HIDE DEF b
  <2>7. PICK g \in Seq(Shaped) : Limited(f \o b) = g \o b /\ WholeBut(g, interrupted)
    BY <2>1, <2>4, <2>6, LimitedBlock
  <2> QED
    BY <1>2, <2>1, <2>7 DEF Open, a, b
<1> QED
  BY <1>1, <1>2

\* The prompts and summaries are few, whatever is torn.
LEMMA PromptedFew ==
  ASSUME NEW ms \in Seq(Shaped), Len(Summaries(ms)) <= 1
  PROVE  /\ Prompted(ms) \in Seq(Shaped)
         /\ Len(Prompts(Prompted(ms))) <= 1 /\ Len(Summaries(Prompted(ms))) <= 1
<1>1. \A i \in 1..Len(ms) : ms[i] \in Messages
  BY ShapedMessages
<1>2. WholeBut(ms, 0..MaxExchanges)
  BY <1>1 DEF WholeBut, Messages
<1> QED
  BY <1>2, PromptedTalk DEF Talk

\* The runtime is replaced, for the same session, for another, or for none.
LEMMA ReplaceTalk ==
  ASSUME Inv, ConversationInv, SessionsFormed, ReplaceRuntime
  PROVE  ConversationInv'
<1>1. UNCHANGED <<run, request, tasks, question, lingering>>
  BY DEF ReplaceRuntime
<1>2. /\ memory \in Seq(Shaped) /\ Len(Summaries(memory)) <= 1 /\ stored \in Seq(Said)
      /\ aside \in Seq(Said) /\ interrupted \in SUBSET (1..MaxExchanges)
  BY DEF ConversationInv, MemoryFormed, OtherTypes, SessionsFormed
<1>3. CASE memory' = Prompted(memory) /\ UNCHANGED <<stored, interrupted>>
  <2>1. /\ memory' \in Seq(Shaped) /\ Len(Prompts(memory')) <= 1
        /\ Len(Summaries(memory')) <= 1
    BY <1>2, <1>3, PromptedFew
  <2>2. ASSUME run.phase \in ToolPhases PROVE Open(memory)' /\ Open(stored)'
    <3>1. Open(Prompted(memory)) /\ Open(stored)
      BY <1>2, <2>2, PromptedOpen, AtCalls
    <3> QED
      BY <1>1, <1>3, <3>1 DEF Open, Answer
  <2>3. ASSUME run.phase \notin ToolPhases
        PROVE  WholeBut(memory', interrupted') /\ WholeBut(stored', interrupted')
    <3>1. WholeBut(memory, interrupted) /\ WholeBut(stored, interrupted)
      BY <2>3 DEF ConversationInv, MemoryFormed
    <3> QED
      BY <1>2, <1>3, <3>1, PromptedTalk DEF Talk
  <2> QED
    BY <1>1, <1>2, <1>3, <2>1, <2>2, <2>3, MemoryReplaced
<1>4. ASSUME stored' \in Seq(Said), memory' = Prompted(Limited(stored'))
      PROVE  /\ memory' \in Seq(Shaped) /\ Len(Prompts(memory')) <= 1
             /\ Len(Summaries(memory')) <= 1
             /\ \A torn : WholeBut(stored', torn) => WholeBut(memory', torn)
  <2> DEFINE ms == Limited(stored')
  <2>1. /\ ms \in Seq(Shaped) /\ Summaries(ms) = <<>> /\ Len(<<>>) = 0
        /\ \A torn : WholeBut(stored', torn) => WholeBut(ms, torn)
    BY <1>4, SaidLimited
  <2>2. memory' = Prompted(ms)
    BY <1>4
  <2> HIDE DEF ms
  <2>3. \A torn : WholeBut(ms, torn) => WholeBut(Prompted(ms), torn)
    BY <2>1, PromptedTalk DEF Talk
  <2> QED
    BY <2>1, <2>2, <2>3, PromptedFew
<1>5. CASE SetSession(FALSE) /\ UNCHANGED interrupted
  <2>1. stored' = stored /\ memory' = Prompted(Limited(stored))
    BY <1>5 DEF SetSession
  <2>2. ASSUME run.phase \in ToolPhases PROVE Open(memory)' /\ Open(stored)'
    <3>1. Open(stored) /\ Open(Limited(stored))
      BY <1>2, <2>2, AtCalls, LimitedOpen
    <3>2. /\ Limited(stored) \in Seq(Shaped) /\ Len(Summaries(Limited(stored))) <= 1
      <4>1. Len(<<>>) <= 1
        OBVIOUS
      <4> QED
        BY <1>2, <4>1, SaidLimited
    <3>3. Open(Prompted(Limited(stored)))
      BY <2>2, <3>1, <3>2, PromptedOpen
    <3> QED
      BY <1>1, <1>5, <2>1, <3>1, <3>3 DEF Open, Answer
  <2>3. run.phase \notin ToolPhases => WholeBut(stored', interrupted')
    BY <1>5, <2>1 DEF ConversationInv, MemoryFormed
  <2> QED
    BY <1>1, <1>2, <1>4, <1>5, <2>1, <2>2, <2>3, MemoryReplaced
<1>6. CASE SetSession(TRUE) /\ Interrupts
  <2>1. stored' = aside /\ memory' = Prompted(Limited(stored'))
    BY <1>6 DEF SetSession
  <2>2. /\ interrupted \subseteq interrupted' /\ interrupted' \in SUBSET (1..MaxExchanges)
        /\ run.phase \in ToolPhases => run.exchange \in interrupted'
    BY <1>6, InterruptedWhole
  <2>3. WholeBut(stored', interrupted')
    BY <2>1, <2>2, WholeMore DEF SessionsFormed
  <2>4. stored' \in Seq(Said)
    BY <1>2, <2>1
  <2>5. WholeBut(memory', interrupted')
    BY <1>4, <2>1, <2>3, <2>4
  <2>6. run.phase \in ToolPhases => Open(memory)' /\ Open(stored)'
    BY <1>1, <2>2, <2>3, <2>5 DEF Open
  <2> QED
    BY <1>1, <1>4, <2>1, <2>2, <2>3, <2>4, <2>5, <2>6, MemoryReplaced
<1>7. \/ memory' = Prompted(memory) /\ UNCHANGED <<stored, interrupted>>
      \/ SetSession(FALSE) /\ UNCHANGED interrupted
      \/ SetSession(TRUE) /\ Interrupts
  <2>1. CASE memory' = Prompted(memory) /\ UNCHANGED <<stored, interrupted>>
    BY <2>1
  <2>2. ASSUME NEW other \in BOOLEAN, SetSession(other),
               IF other THEN Interrupts ELSE UNCHANGED interrupted
        PROVE  \/ SetSession(FALSE) /\ UNCHANGED interrupted
               \/ SetSession(TRUE) /\ Interrupts
    <3>1. CASE other
      <4>1. other = TRUE
        BY <3>1
      <4> QED
        BY <2>2, <4>1
    <3>2. CASE ~other
      <4>1. other = FALSE
        BY <3>2
      <4> QED
        BY <2>2, <4>1
    <3> QED
      BY <3>1, <3>2
  <2> QED
    BY <2>1, <2>2 DEF ReplaceRuntime
<1> QED
  BY <1>3, <1>5, <1>6, <1>7

LEMMA CrashTalk ==
  ASSUME Inv, ConversationInv, SessionsFormed, Crash
  PROVE  ConversationInv'
<1> DEFINE torn == interrupted'
           ms == Limited(stored')
<1>1. /\ memory' = Prompted(ms) /\ Interrupts /\ run' = Idle /\ request' = <<>>
      /\ question' = [c \in Calls |-> "none"] /\ lingering' = {}
      /\ stored' = stored \/ stored' = aside
      /\ UNCHANGED tasks
  BY DEF Crash, StreamOver, SetSession
<1>2. interrupted \subseteq torn /\ torn \in SUBSET (1..MaxExchanges) /\ WholeBut(stored, torn)
  BY <1>1, InterruptedWhole
<1>3. stored' \in Seq(Said) /\ WholeBut(stored', torn)
  <2>1. stored \in Seq(Said) /\ aside \in Seq(Said) /\ WholeBut(aside, interrupted)
    BY DEF ConversationInv, MemoryFormed, SessionsFormed
  <2>2. WholeBut(aside, torn)
    BY <1>2, <2>1, WholeMore
  <2> QED
    BY <1>1, <1>2, <2>1, <2>2
<1> HIDE DEF torn
<1>4. ms \in Seq(Shaped) /\ WholeBut(ms, torn) /\ Summaries(ms) = <<>> /\ Len(<<>>) = 0
  BY <1>3, SaidLimited
<1> HIDE DEF ms
<1>5. Talk(memory', torn, 1)
  BY <1>1, <1>4, PromptedTalk
<1>6. run'.phase = "idle" /\ run'.results = <<>> /\ run'.phase \notin ToolPhases
  BY <1>1 DEF Idle, ToolPhases, CallPhases
<1>7. OtherTypes'
  BY <1>1, <1>2 DEF ConversationInv, OtherTypes, torn
<1>8. request' \in Seq(Shaped)
  BY <1>1
<1> QED
  BY <1>3, <1>5, <1>6, <1>7, <1>8, OutsideTalk DEF Talk, torn

-----------------------------------------------------------------------------
(* The conversation is as it should be, always.                            *)

LEMMA InitConversation == Init => ConversationInv
<1> SUFFICES ASSUME Init PROVE ConversationInv
  OBVIOUS
<1>1. /\ run.phase = "idle" /\ run.results = <<>>
      /\ memory = <<Plain("system")>> /\ stored = <<>> /\ request = <<>>
      /\ tasks = "none" /\ question = [c \in Calls |-> "none"]
      /\ lingering = {} /\ interrupted = {}
  BY DEF Init, Idle
<1> DEFINE p == Plain("system")
<1>2. p \in Shaped /\ p \in Messages /\ p.role = "system" /\ \A t : Block(<<p>>, t)
  BY PlainShaped
<1> HIDE DEF p
<1>3. <<p>> \in Seq(Shaped) /\ <<p>> \in Seq(Messages) /\ Len(<<>>) = 0
  BY <1>2
<1>4. /\ WholeBut(<<>>, interrupted) /\ WholeBut(<<p>>, interrupted)
      /\ Summaries(<<p>>) = <<>> /\ memory = <<p>>
      /\ stored \in Seq(Said) /\ request \in Seq(Shaped)
  <2>1. WholeBut(<<>>, interrupted) /\ WholeBut(<<p>>, interrupted)
    BY <1>2, <1>3, EmptyWhole, BlockWhole
  <2>2. Summaries(<<p>>) = <<>>
    BY <1>2, OneOf DEF Summaries
  <2>3. memory = <<p>> /\ stored \in Seq(Said) /\ request \in Seq(Shaped)
    BY <1>1 DEF p
  <2> QED
    BY <2>1, <2>2, <2>3
<1>5. MemoryFormed
  <2>1. run.phase \notin ToolPhases
    BY <1>1 DEF ToolPhases, CallPhases
  <2> QED
    BY <1>1, <1>3, <1>4, <2>1 DEF MemoryFormed
<1>6. RequestFormed
  BY <1>1, <1>4 DEF RequestFormed
<1>7. InOrder /\ OtherTypes
  BY <1>1 DEF InOrder, OtherTypes
<1> QED
  BY <1>5, <1>6, <1>7 DEF ConversationInv

LEMMA NextConversation ==
  Inv /\ ConversationInv /\ SessionsFormed /\ [Next]_vars => ConversationInv'
<1> SUFFICES ASSUME Inv, ConversationInv, SessionsFormed, [Next]_vars PROVE ConversationInv'
  OBVIOUS
<1>1. CASE StartRun BY <1>1, StartRunTalk
<1>2. CASE Iterate BY <1>2, IterateTalk
<1>3. CASE Compacted BY <1>3, CompactedTalk
<1>4. CASE StreamFails \/ StreamRetries BY <1>4, StreamTalk
<1>5. CASE StreamAnswers BY <1>5, StreamAnswersTalk
<1>6. CASE \E n \in 1..MaxCalls : StreamCalls(n) BY <1>6, StreamCallsTalk
<1>7. CASE SkipCall BY <1>7, SkipCallTalk
<1>8. CASE \E kind \in Kinds : CallTool(kind) BY <1>8, CallToolTalk
<1>9. CASE Supervised BY <1>9, SupervisedTalk
<1>10. CASE \E c \in Calls : \E yes \in BOOLEAN : SubmitAnswer(c, yes)
  BY <1>10, QuestionTalk DEF SubmitAnswer
<1>11. CASE \E c \in Calls : QuestionExpires(c)
  <2>1. PICK c \in Calls : QuestionOver(c, FALSE)
    BY <1>11 DEF QuestionExpires
  <2> QED
    BY <2>1, QuestionTalk
<1>12. CASE \E c \in Calls : QuestionAges(c) \/ ToolLingers(c) BY <1>12, ApartTalk
<1>13. CASE ToolEnds \/ ToolTimesOut BY <1>13, ToolTalk
<1>14. CASE StoreResults BY <1>14, StoreResultsTalk
<1>15. CASE Retired BY <1>15, RetiredTalk
<1>16. CASE Consent BY <1>16, ConsentTalk
<1>17. CASE ReplaceRuntime BY <1>17, ReplaceTalk
<1>18. CASE Clear BY <1>18, ClearTalk
<1>19. CASE Crash BY <1>19, CrashTalk
<1>20. CASE UNCHANGED vars
  <2>1. UNCHANGED <<run, conversation, tasks, question, lingering, interrupted>>
    BY <1>20 DEF vars, history
  <2>2. OtherTypes'
    BY <2>1, OthersSame
  <2> QED
    BY <2>1, <2>2, TalkUnchanged
<1> QED
  BY <1>1, <1>2, <1>3, <1>4, <1>5, <1>6, <1>7, <1>8, <1>9, <1>10, <1>11, <1>12, <1>13,
     <1>14, <1>15, <1>16, <1>17, <1>18, <1>19, <1>20 DEF Next

\* The other session's rows are whole throughout.
LEMMA SessionsSame ==
  ASSUME SessionsFormed, UNCHANGED <<sessions, interrupted, scene>>
  PROVE  SessionsFormed'
  BY DEF SessionsFormed, sessions

LEMMA NextSessions ==
  Inv /\ ConversationInv /\ SessionsFormed /\ [Next]_vars => SessionsFormed'
<1> SUFFICES ASSUME Inv, ConversationInv, SessionsFormed, [Next]_vars PROVE SessionsFormed'
  OBVIOUS
<1>1. /\ stored \in Seq(Said) /\ aside \in Seq(Said) /\ WholeBut(aside, interrupted)
      /\ bound \in BOOLEAN /\ mixed \in BOOLEAN /\ replaced \in 0..scene.replacements
  BY DEF SessionsFormed, ConversationInv, MemoryFormed
<1>2. ASSUME Interrupts
      PROVE  WholeBut(stored, interrupted') /\ WholeBut(aside, interrupted')
  BY <1>1, <1>2, InterruptedWhole, WholeMore
<1>3. CASE ReplaceRuntime
  <2>1. scene.replacements \in Nat
    BY ScenesAssumption DEF Scene, Inv, Types, ControlTypes
  <2>2. scene' = scene /\ replaced' \in 0..scene.replacements
    <3>1. replaced < scene.replacements /\ replaced' = replaced + 1 /\ scene' = scene
      BY <1>3 DEF ReplaceRuntime
    <3> QED
      BY <1>1, <2>1, <3>1
  <2>3. bound' \in BOOLEAN /\ mixed' \in BOOLEAN
    BY <1>1, <1>3 DEF ReplaceRuntime, SetSession
  <2>4. aside' \in Seq(Said) /\ WholeBut(aside', interrupted')
    <3>1. \/ UNCHANGED <<aside, interrupted>>
          \/ aside' = stored /\ Interrupts
      BY <1>3 DEF ReplaceRuntime, SetSession
    <3> QED
      BY <1>1, <1>2, <3>1
  <2> QED
    BY <2>2, <2>3, <2>4 DEF SessionsFormed
<1>4. CASE Clear
  <2>1. UNCHANGED <<aside, bound, mixed, replaced, scene>> /\ Interrupts
    BY <1>4 DEF Clear, sessions
  <2> QED
    BY <1>1, <1>2, <2>1 DEF SessionsFormed
<1>5. CASE Crash
  <2>1. /\ bound' = TRUE /\ mixed' = FALSE /\ UNCHANGED <<replaced, scene>> /\ Interrupts
        /\ aside' = stored \/ aside' = aside
    BY <1>5 DEF Crash, SetSession
  <2> QED
    BY <1>1, <1>2, <2>1 DEF SessionsFormed
<1>6. CASE StartRun \/ Iterate \/ Compacted \/ StreamFails \/ StreamRetries \/ StreamAnswers
  BY <1>6, SessionsSame
     DEF StartRun, Iterate, Compacted, StreamFails, StreamRetries, StreamAnswers, conversation,
         history
<1>7. CASE \E n \in 1..MaxCalls : StreamCalls(n)
  BY <1>7, SessionsSame DEF StreamCalls, history
<1>8. CASE SkipCall \/ (\E kind \in Kinds : CallTool(kind)) \/ Supervised
  BY <1>8, SessionsSame DEF SkipCall, CallTool, Supervised, conversation, history
<1>9. CASE \E c \in Calls : \/ \E yes \in BOOLEAN : SubmitAnswer(c, yes)
                            \/ QuestionExpires(c)
  <2>1. PICK c \in Calls : \E yes \in BOOLEAN : QuestionOver(c, yes)
    BY <1>9 DEF SubmitAnswer, QuestionExpires
  <2> QED
    BY <2>1, SessionsSame DEF QuestionOver, conversation
<1>10. CASE \E c \in Calls : QuestionAges(c) \/ ToolLingers(c)
  BY <1>10, SessionsSame DEF QuestionAges, ToolLingers, conversation, history
<1>11. CASE ToolEnds \/ ToolTimesOut \/ StoreResults \/ Retired \/ Consent
  BY <1>11, SessionsSame
     DEF ToolEnds, ToolTimesOut, StoreResults, Retired, Consent, conversation, history
<1>12. CASE UNCHANGED vars
  BY <1>12, SessionsSame DEF vars, conversation, history
<1> QED
  BY <1>3, <1>4, <1>5, <1>6, <1>7, <1>8, <1>9, <1>10, <1>11, <1>12 DEF Next

LEMMA InitSessions == Init => SessionsFormed
<1> SUFFICES ASSUME Init PROVE SessionsFormed
  OBVIOUS
<1>1. /\ scene \in Scenes /\ aside = <<>> /\ bound = TRUE /\ mixed = FALSE /\ replaced = 0
  BY DEF Init
<1>2. scene.replacements \in Nat
  BY <1>1, ScenesAssumption DEF Scene
<1>3. aside \in Seq(Said) /\ WholeBut(aside, interrupted)
  BY <1>1, EmptyWhole
<1>4. 0 \in 0..scene.replacements
  BY <1>2
<1>5. bound \in BOOLEAN /\ mixed \in BOOLEAN /\ replaced \in 0..scene.replacements
  BY <1>1, <1>4
<1> QED
  BY <1>3, <1>5 DEF SessionsFormed

\* All of it, always.
AllFormed == Inv /\ ConversationInv /\ SessionsFormed

LEMMA AllFormedHolds == Spec => []AllFormed
<1>1. Init => AllFormed
  BY InitInv, InitConversation, InitSessions DEF AllFormed
<1>2. AllFormed /\ [Next]_vars => AllFormed'
  BY NextInv, NextConversation, NextSessions DEF AllFormed
<1> QED
  BY <1>1, <1>2, PTL DEF Spec

\* Every variable keeps its type: the messages of the memory, of the request and of the
\* sessions' rows, the run, the questions, the sessions and the history
\* (agent.ts:122-411, memory.ts:158-343).
THEOREM TypeOKHolds == Spec => []TypeOK
<1>1. AllFormed => TypeOK
  <2> SUFFICES ASSUME AllFormed PROVE TypeOK
    OBVIOUS
  <2>1. memory \in Seq(Messages) /\ request \in Seq(Messages)
    BY ShapedMessages DEF AllFormed, ConversationInv, MemoryFormed, RequestFormed
  <2>2. stored \in Seq(Messages) /\ aside \in Seq(Messages)
    BY SaidShaped, SeqSubset DEF AllFormed, ConversationInv, MemoryFormed, SessionsFormed
  <2>3. bound \in BOOLEAN /\ mixed \in BOOLEAN /\ replaced \in 0..scene.replacements
    BY DEF AllFormed, SessionsFormed
  <2>4. ControlTypes /\ OtherTypes
    BY DEF AllFormed, Inv, Types, ConversationInv
  <2> QED
    BY <2>1, <2>2, <2>3, <2>4 DEF ControlTypes, RunRecord, OtherTypes, TypeOK
<1> QED
  BY AllFormedHolds, <1>1, PTL

\* What the model is sent are whole exchanges, through refusals, time-outs, compaction,
\* the message limit, restarts and runtimes replaced under the run: only an exchange during
\* which the memory was cleared, lost or given another session may be torn
\* (agent.ts:209-364, memory.ts:144-343, index.ts:505-541).
THEOREM ExchangesWholeHolds == Spec => []ExchangesWhole
<1>1. AllFormed => ExchangesWhole
  <2> SUFFICES ASSUME AllFormed, run.phase = "streaming" PROVE Whole(request)
    BY DEF ExchangesWhole
  <2>1. request \in Seq(Messages) /\ WholeBut(request, interrupted)
    BY ShapedMessages DEF AllFormed, ConversationInv, RequestFormed
  <2> QED
    BY <2>1, WholeIsWholeBut
<1> QED
  BY AllFormedHolds, <1>1, PTL

\* Whenever no calls are under way, what is remembered and what is stored are whole exchanges,
\* so that a turn, a compaction, a restart or a new runtime finds nothing half answered; and
\* so are, at any time, the rows of the session the agent is not bound to. The rows hold
\* no system message (agent.ts:36-45, 330-367, memory.ts:144-184).
AtRestWhole ==
  /\ run.phase \notin ToolPhases => Whole(memory) /\ Whole(stored)
  /\ Whole(aside)
  /\ \A ms \in {stored, aside} : \A i \in 1..Len(ms) : ms[i].role \notin SystemRoles

\* Between the calls of one answer and those of the next, memory and rows are whole, and so
\* are the rows that a run left when its runtime was given another session
\* (agent.ts:330-367, index.ts:505-541).
THEOREM AtRestWholeHolds == Spec => []AtRestWhole
<1>1. AllFormed => AtRestWhole
  <2> SUFFICES ASSUME AllFormed PROVE AtRestWhole
    OBVIOUS
  <2>1. memory \in Seq(Shaped) /\ stored \in Seq(Said) /\ aside \in Seq(Said)
    BY DEF AllFormed, ConversationInv, MemoryFormed, SessionsFormed
  <2>2. memory \in Seq(Messages)
    BY <2>1, ShapedMessages
  <2>3. stored \in Seq(Messages) /\ aside \in Seq(Messages)
    BY <2>1, SaidShaped, SeqSubset
  <2>4. run.phase \notin ToolPhases => Whole(memory) /\ Whole(stored)
    BY <2>2, <2>3, WholeIsWholeBut DEF AllFormed, ConversationInv, MemoryFormed
  <2>5. Whole(aside)
    BY <2>3, WholeIsWholeBut DEF AllFormed, SessionsFormed
  <2>6. \A ms \in {stored, aside} : \A i \in 1..Len(ms) : ms[i] \in Said
    BY <2>1
  <2> QED
    BY <2>4, <2>5, <2>6 DEF AtRestWhole, Said
<1> QED
  BY AllFormedHolds, <1>1, PTL

-----------------------------------------------------------------------------
(* The conversation, remembered and stored.                                *)

\* Unless a summary of another session may be remembered: so is what a compaction read.
RememberedInv ==
  ~mixed => /\ EndOf(Others(memory), stored)
            /\ run.phase = "compacting" => EndOf(Others(request), stored)

LEMMA MemoryTypes ==
  ASSUME AllFormed
  PROVE  /\ memory \in Seq(Messages) /\ request \in Seq(Messages)
         /\ stored \in Seq(Messages) /\ aside \in Seq(Messages)
         /\ stored \in Seq(Said) /\ aside \in Seq(Said) /\ run \in RunRecord
  BY ShapedMessages, SaidShaped, SeqSubset
     DEF AllFormed, ConversationInv, MemoryFormed, RequestFormed, SessionsFormed, Inv, Types,
         ControlTypes

LEMMA RememberedSame ==
  ASSUME RememberedInv, UNCHANGED <<memory, stored, mixed>>,
         run'.phase = "compacting" => run.phase = "compacting" /\ request' = request
  PROVE  RememberedInv'
  BY DEF RememberedInv

\* A step that leaves the conversation alone does not begin a compaction.
LEMMA CallsRemembered ==
  ASSUME AllFormed, RememberedInv, UNCHANGED <<memory, stored, request, mixed>>,
         \/ UNCHANGED run
         \/ run' = Skipped \/ run' = Ended \/ run' = Idle
         \/ \E kind \in Kinds : run' = Answered(kind)
         \/ \E phase \in Phases \ {"compacting"} :
              \/ run' = [run EXCEPT !.phase = phase]
              \/ \E kind \in Kinds : run' = [run EXCEPT !.phase = phase, !.kind = kind]
  PROVE  RememberedInv'
<1>1. run \in RunRecord
  BY MemoryTypes
<1>2. UNCHANGED run \/ run'.phase # "compacting"
  <2>1. CASE run' = Skipped \/ run' = Ended
    BY <1>1, <2>1 DEF Skipped, Ended, RunRecord
  <2>2. CASE run' = Idle
    BY <2>2 DEF Idle
  <2>3. CASE \E kind \in Kinds : run' = Answered(kind)
    BY <1>1, <2>3 DEF Answered, RunRecord
  <2>4. CASE \E phase \in Phases \ {"compacting"} : run' = [run EXCEPT !.phase = phase]
    BY <1>1, <2>4 DEF RunRecord
  <2>5. CASE \E phase \in Phases \ {"compacting"}, kind \in Kinds :
               run' = [run EXCEPT !.phase = phase, !.kind = kind]
    BY <1>1, <2>5 DEF RunRecord
  <2> QED
    BY <2>1, <2>2, <2>3, <2>4, <2>5
<1> QED
  BY <1>2, RememberedSame

\* The rows of a session, loaded, are their own end.
LEMMA LoadedOthers ==
  ASSUME NEW s \in Seq(Said)
  PROVE  EndOf(Others(Prompted(Limited(s))), s)
<1>1. s \in Seq(Messages) /\ \A i \in 1..Len(s) : s[i] \in Said
  BY SaidShaped, SeqSubset
<1>2. \A i \in 1..Len(s) : s[i].role \in Roles \ SystemRoles
  BY <1>1 DEF Said
<1>3. Others(s) = s
  BY <1>1, <1>2, OfRolesAll DEF Others
<1> QED
  BY <1>1, <1>3, LimitedOthers, PromptedOthers

LEMMA StartRemembered ==
  ASSUME AllFormed, RememberedInv, StartRun
  PROVE  RememberedInv'
<1> DEFINE p == Plain("user")
<1>1. /\ run' = [Idle EXCEPT !.phase = "iterating"] /\ mixed' = mixed
      /\ memory' = Prompted(Added(memory, p)) /\ stored' = Append(stored, p)
  BY DEF StartRun, sessions
<1>2. p \in Messages /\ p.role \notin SystemRoles
  BY PlainShaped DEF SystemRoles
<1> HIDE DEF p
<1>3. ASSUME ~mixed PROVE EndOf(Others(memory'), stored')
  BY <1>1, <1>2, <1>3, MemoryTypes, AddedOthers, PromptedOthers DEF RememberedInv
<1>4. run'.phase # "compacting"
  BY <1>1 DEF Idle
<1> QED
  BY <1>1, <1>3, <1>4 DEF RememberedInv

\* What is handed to the model.
LEMMA RequestedRemembered ==
  ASSUME AllFormed, RememberedInv, UNCHANGED mixed, NEW ms \in Seq(Messages),
         ~mixed => EndOf(Others(ms), stored), Requested(Guided(ms))
  PROVE  RememberedInv'
<1>1. memory' = Guided(ms) /\ stored' = stored
  BY DEF Requested
<1>2. run'.phase # "compacting"
  BY MemoryTypes DEF Requested, RunRecord
<1> QED
  BY <1>1, <1>2, GuidedOthers DEF RememberedInv

LEMMA IterateRemembered ==
  ASSUME AllFormed, RememberedInv, Iterate
  PROVE  RememberedInv'
<1>1. mixed' = mixed /\ run \in RunRecord
  BY MemoryTypes DEF Iterate, sessions
<1>2. CASE run' = Ended /\ UNCHANGED messages
  <2>1. UNCHANGED <<memory, stored, request, mixed>>
    BY <1>1, <1>2 DEF messages
  <2> QED
    BY <1>2, <2>1, CallsRemembered
<1>3. CASE request' = memory /\ UNCHANGED <<memory, stored>>
  BY <1>1, <1>3 DEF RememberedInv
<1>4. CASE Requested(Guided(memory))
  BY <1>1, <1>4, MemoryTypes, RequestedRemembered DEF RememberedInv
<1> QED
  BY <1>2, <1>3, <1>4 DEF Iterate

LEMMA CompactedRemembered ==
  ASSUME AllFormed, RememberedInv, Compacted
  PROVE  RememberedInv'
<1>1. mixed' = mixed /\ run.phase = "compacting" /\ request \in Seq(Messages)
  BY MemoryTypes DEF Compacted, sessions
<1>2. PICK ms \in {Summarised(request)} \cup Fallbacks(request) : Requested(Guided(ms))
  BY DEF Compacted
<1>3. ms \in Seq(Messages) /\ EndOf(Others(ms), Others(request)) /\ Others(ms) \in Seq(Messages)
  BY <1>1, CompactedOthers, OthersType
<1>4. ~mixed => EndOf(Others(ms), stored)
  BY <1>1, <1>3, EndOfEnd DEF RememberedInv
<1> QED
  BY <1>1, <1>2, <1>3, <1>4, RequestedRemembered

LEMMA AnswerRemembered ==
  ASSUME AllFormed, RememberedInv, UNCHANGED mixed, run'.phase # "compacting",
         NEW m \in Messages, m.role \notin SystemRoles,
         memory' = Added(memory, m), stored' = Append(stored, m)
  PROVE  RememberedInv'
  BY MemoryTypes, AddedOthers DEF RememberedInv

\* A text, or an answer with calls.
LEMMA StreamRemembered ==
  ASSUME AllFormed, RememberedInv, StreamAnswers \/ \E n \in 1..MaxCalls : StreamCalls(n)
  PROVE  RememberedInv'
<1>1. run \in RunRecord /\ scene \in Scenes /\ exchanges \in Nat
  BY ExchangesType DEF AllFormed, Inv, Types, ControlTypes
<1>2. CASE StreamAnswers
  <2> DEFINE p == Plain("assistant")
  <2>1. /\ mixed' = mixed /\ memory' = Added(memory, p) /\ stored' = Append(stored, p)
        /\ run' = NextIteration \/ run' = Ended
    BY <1>2 DEF StreamAnswers, sessions
  <2>2. p \in Messages /\ p.role \notin SystemRoles
    BY PlainShaped DEF SystemRoles
  <2> HIDE DEF p
  <2>3. run'.phase # "compacting"
    BY <1>1, <2>1 DEF NextIteration, Ended, Idle, RunRecord
  <2> QED
    BY <2>1, <2>2, <2>3, AnswerRemembered
<1>3. ASSUME NEW n \in 1..MaxCalls, StreamCalls(n) PROVE RememberedInv'
  <2> DEFINE e == exchanges + 1
             a == Message("assistant", e, n, 0, 0)
  <2>1. /\ mixed' = mixed /\ memory' = Added(memory, a) /\ stored' = Append(stored, a)
        /\ run' = [run EXCEPT !.phase = "calling", !.exchange = a.exchange, !.calls = n,
                              !.next = 1]
        /\ exchanges < scene.exchanges
    BY <1>3 DEF StreamCalls, sessions
  <2>2. e \in 0..MaxExchanges /\ n \in 0..MaxCalls
    BY <1>1, <2>1, ScenesAssumption, BoundsAssumption DEF Scene
  <2> HIDE DEF e
  <2>3. a \in Messages /\ a.role \notin SystemRoles
    BY <2>2, AnswerShaped DEF SystemRoles
  <2> HIDE DEF a
  <2>4. run'.phase # "compacting"
    BY <1>1, <2>1 DEF RunRecord
  <2> QED
    BY <2>1, <2>3, <2>4, AnswerRemembered
<1> QED
  BY <1>2, <1>3

\* The results, remembered one after the other and stored.
LEMMA StoreRemembered ==
  ASSUME AllFormed, RememberedInv, StoreResults
  PROVE  RememberedInv'
<1> DEFINE n == Len(run.results)
           ts == ToolMessages
           R == Remembering
<1>1. /\ run.phase = "calling" /\ run.next > run.calls
      /\ memory' = R[n] /\ stored' = stored \o ts /\ mixed' = mixed /\ run' = NextIteration
  BY DEF StoreResults, sessions
<1>2. ts \in Seq(Said) /\ n = run.calls /\ Len(ts) = n
  <2>1. run.phase = "calling" /\ run.next > run.calls
    BY <1>1
  <2> QED
    BY <2>1, ResultMessages DEF AllFormed
<1>3. /\ ts \in Seq(Shaped) /\ ts \in Seq(Messages) /\ n \in Nat
      /\ \A i \in 1..n : ts[i] \in Messages /\ ts[i].role \notin SystemRoles
  <2>1. ts \in Seq(Shaped) /\ ts \in Seq(Messages)
    BY <1>2, SaidShaped, SeqSubset
  <2>2. \A i \in 1..Len(ts) : ts[i] \in Said
    BY <1>2
  <2> HIDE DEF ts, n
  <2>3. n \in Nat
    BY <1>2, <2>1
  <2> QED
    BY <1>2, <2>1, <2>2, <2>3, SaidShaped DEF Said
<1>4. /\ R \in [0..n -> Seq(Shaped)] /\ R[0] = memory
      /\ \A k \in 1..n : R[k] = Added(R[k - 1], ts[k])
  <2>1. memory \in Seq(Shaped)
    BY DEF AllFormed, ConversationInv, MemoryFormed
  <2> QED
    BY <1>2, <1>3, <2>1, RememberingIs
<1>5. run'.phase # "compacting"
  BY <1>1 DEF NextIteration, Idle
<1>6. stored \in Seq(Messages)
  BY MemoryTypes
<1> HIDE DEF n, ts, R
<1> DEFINE part(k) == SubSeq(ts, 1, k)
           N == {k \in Nat : k <= n => EndOf(Others(R[k]), stored \o part(k))}
<1>7. ASSUME ~mixed PROVE EndOf(Others(R[n]), stored \o ts)
  <2>1. 0 \in N
    <3>1. part(0) = <<>> /\ stored \o <<>> = stored
      BY <1>3, <1>6
    <3> QED
      BY <1>4, <1>7, <3>1 DEF RememberedInv
  <2>2. ASSUME NEW k \in Nat, k \in N PROVE k + 1 \in N
    <3> SUFFICES ASSUME k + 1 <= n PROVE EndOf(Others(R[k + 1]), stored \o part(k + 1))
      OBVIOUS
    <3> DEFINE m == ts[k + 1]
    <3>1. k + 1 \in 1..n /\ k + 1 - 1 = k /\ k \in 0..n /\ k <= n
      BY <1>3
    <3>2. R[k + 1] = Added(R[k], m) /\ m \in Messages /\ m.role \notin SystemRoles
      BY <1>3, <1>4, <3>1
    <3>3. R[k] \in Seq(Messages) /\ EndOf(Others(R[k]), stored \o part(k))
      <4>1. R[k] \in Seq(Shaped)
        BY <1>4, <3>1
      <4> QED
        BY <2>2, <3>1, <4>1, ShapedMessages
    <3>4. part(k + 1) = Append(part(k), m) /\ part(k) \in Seq(Messages)
      <4>1. /\ part(k) \in Seq(Messages) /\ Len(part(k)) = k
            /\ \A i \in 1..k : part(k)[i] = ts[i]
        BY <1>2, <1>3, <3>1
      <4>2. /\ part(k + 1) \in Seq(Messages) /\ Len(part(k + 1)) = k + 1
            /\ \A i \in 1..(k + 1) : part(k + 1)[i] = ts[i]
        BY <1>2, <1>3, <3>1
      <4> HIDE DEF part
      <4> DEFINE x == Append(part(k), m)
      <4>3. /\ x \in Seq(Messages) /\ Len(x) = k + 1 /\ x[k + 1] = m
            /\ \A i \in 1..k : x[i] = part(k)[i]
        BY <3>2, <4>1
      <4>4. \A i \in 1..(k + 1) : x[i] = ts[i]
        <5>1. \A i \in 1..(k + 1) : i \in 1..k \/ i = k + 1
          OBVIOUS
        <5> HIDE DEF x
        <5> QED
          BY <4>1, <4>3, <5>1
      <4> HIDE DEF x, m
      <4>5. part(k + 1) = x
        BY <4>2, <4>3, <4>4, SeqEqual
      <4> QED
        BY <4>1, <4>5 DEF x
    <3> HIDE DEF part, m
    <3>5. stored \o Append(part(k), m) = Append(stored \o part(k), m)
      BY <1>6, <3>2, <3>4
    <3>6. EndOf(Others(Added(R[k], m)), Append(stored \o part(k), m))
      BY <3>2, <3>3, AddedOthers
    <3> QED
      BY <3>2, <3>4, <3>5, <3>6
  <2> HIDE DEF N
  <2>3. n \in N
    BY <1>3, <2>1, <2>2, SetInduction
  <2>4. part(n) = ts
    BY <1>2, <1>3, SubSeqFull
  <2> HIDE DEF part
  <2>5. EndOf(Others(R[n]), stored \o part(n))
    BY <1>3, <2>3 DEF N
  <2> QED
    BY <2>4, <2>5
<1> QED
  BY <1>1, <1>5, <1>7 DEF RememberedInv

\* The memory is cleared, or given a session by a new agent or a restart.
LEMMA OutsideRemembered ==
  ASSUME AllFormed, RememberedInv, ReplaceRuntime \/ Clear \/ Crash
  PROVE  RememberedInv'
<1>1. ASSUME NEW other \in BOOLEAN, SetSession(other) PROVE EndOf(Others(memory'), stored')
  <2>1. memory' = Prompted(Limited(stored')) /\ stored' \in Seq(Said)
    BY <1>1, MemoryTypes DEF SetSession
  <2> QED
    BY <2>1, LoadedOthers
<1>2. CASE ReplaceRuntime
  <2>0. run' = run /\ request' = request
    BY <1>2 DEF ReplaceRuntime
  <2>1. ASSUME NEW other \in BOOLEAN, SetSession(other),
               mixed' = (run.phase = "compacting" /\ (mixed \/ other))
        PROVE  RememberedInv'
    <3>1. EndOf(Others(memory'), stored')
      BY <1>1, <2>1
    <3>2. ASSUME ~mixed', run.phase = "compacting" PROVE EndOf(Others(request'), stored')
      <4>1. ~mixed /\ stored' = stored
        BY <2>1, <3>2 DEF SetSession
      <4> QED
        BY <2>0, <3>2, <4>1 DEF RememberedInv
    <3> QED
      BY <2>0, <3>1, <3>2 DEF RememberedInv
  <2>2. CASE memory' = Prompted(memory) /\ UNCHANGED <<stored, mixed>>
    <3>1. Others(memory') = Others(memory)
      BY <2>2, MemoryTypes, PromptedOthers
    <3> QED
      BY <2>0, <2>2, <3>1 DEF RememberedInv
  <2> QED
    BY <1>2, <2>1, <2>2 DEF ReplaceRuntime
<1>3. CASE Clear
  <2>1. memory' = <<Plain("system")>> /\ UNCHANGED <<run, request, stored, mixed>>
    BY <1>3 DEF Clear, sessions
  <2>2. Others(<<Plain("system")>>) = <<>>
    BY PlainShaped, OneOf DEF Others, SystemRoles
  <2>3. EndOf(<<>>, stored)
    BY MemoryTypes, EndOfSame
  <2> QED
    BY <2>1, <2>2, <2>3 DEF RememberedInv
<1>4. CASE Crash
  <2>1. run'.phase # "compacting"
    BY <1>4 DEF Crash, Idle
  <2>2. EndOf(Others(memory'), stored')
    BY <1>1, <1>4 DEF Crash
  <2> QED
    BY <2>1, <2>2 DEF RememberedInv
<1> QED
  BY <1>2, <1>3, <1>4

LEMMA NextRemembered == AllFormed /\ RememberedInv /\ [Next]_vars => RememberedInv'
<1> SUFFICES ASSUME AllFormed, RememberedInv, [Next]_vars PROVE RememberedInv'
  OBVIOUS
<1>0. run.kind \in Kinds
  BY MemoryTypes DEF RunRecord
<1>1. CASE StartRun BY <1>1, StartRemembered
<1>2. CASE Iterate BY <1>2, IterateRemembered
<1>3. CASE Compacted BY <1>3, CompactedRemembered
<1>4. CASE StreamFails \/ StreamRetries
  <2>1. UNCHANGED <<memory, stored, mixed>>
    BY <1>4 DEF StreamFails, StreamRetries, conversation, messages, sessions
  <2>2. run'.phase # "compacting"
    BY <1>4, MemoryTypes DEF StreamFails, StreamRetries, Ended, RunRecord
  <2> QED
    BY <2>1, <2>2, RememberedSame
<1>5. CASE StreamAnswers \/ \E n \in 1..MaxCalls : StreamCalls(n) BY <1>5, StreamRemembered
<1>6. CASE StoreResults BY <1>6, StoreRemembered
<1>7. CASE ReplaceRuntime \/ Clear \/ Crash BY <1>7, OutsideRemembered
<1>8. CASE SkipCall \/ (\E kind \in Kinds : CallTool(kind)) \/ Supervised
  <2>1. UNCHANGED <<memory, stored, request, mixed>>
    BY <1>8 DEF SkipCall, CallTool, Supervised, conversation, messages, sessions
  <2>2. \/ run' = Skipped
        \/ \E phase \in {"supervising", "asking", "consenting", "executing"} :
             \E kind \in Kinds : run' = [run EXCEPT !.phase = phase, !.kind = kind]
    BY <1>0, <1>8 DEF SkipCall, CallTool, Supervised, AskUser, Execute
  <2> QED
    BY <2>1, <2>2, CallsRemembered DEF Phases
<1>9. CASE \E c \in Calls : \/ \E yes \in BOOLEAN : SubmitAnswer(c, yes)
                            \/ QuestionExpires(c)
  <2>1. PICK c \in Calls : \E yes \in BOOLEAN : QuestionOver(c, yes)
    BY <1>9 DEF SubmitAnswer, QuestionExpires
  <2>2. UNCHANGED <<memory, stored, request, mixed>>
    BY <2>1 DEF QuestionOver, conversation, messages, sessions
  <2>3. \/ UNCHANGED run \/ run' = Skipped \/ run' = Answered(run.kind)
        \/ run' = [run EXCEPT !.phase = "executing", !.kind = run.kind]
    BY <2>1 DEF QuestionOver, Execute
  <2> QED
    BY <1>0, <2>2, <2>3, CallsRemembered DEF Phases
<1>10. CASE \E c \in Calls : QuestionAges(c) \/ ToolLingers(c)
  <2>1. UNCHANGED <<run, memory, stored, request, mixed>>
    BY <1>10 DEF QuestionAges, ToolLingers, conversation, messages, sessions
  <2> QED
    BY <2>1, CallsRemembered
<1>11. CASE ToolEnds \/ ToolTimesOut \/ Retired \/ Consent
  <2>1. UNCHANGED <<memory, stored, request, mixed>>
    BY <1>11 DEF ToolEnds, ToolTimesOut, Retired, Consent, conversation, messages, sessions
  <2>2. \/ UNCHANGED run \/ run' = Skipped \/ run' = Answered(run.kind) \/ run' = Idle
        \/ run' = [run EXCEPT !.phase = "executing"]
    BY <1>11 DEF ToolEnds, ToolTimesOut, Retired, Consent
  <2> QED
    BY <1>0, <2>1, <2>2, CallsRemembered DEF Phases
<1>12. CASE UNCHANGED vars
  <2>1. UNCHANGED <<run, memory, stored, request, mixed>>
    BY <1>12 DEF vars, conversation, messages, sessions
  <2> QED
    BY <2>1, CallsRemembered
<1> QED
  BY <1>1, <1>2, <1>3, <1>4, <1>5, <1>6, <1>7, <1>8, <1>9, <1>10, <1>11, <1>12 DEF Next

\* The memory invents, repeats and loses nothing of the conversation: it is the end of the
\* rows of the session it is bound to, however often it was compacted, cut at its limit,
\* cleared, or loaded for a new agent; but for a summary of another session, which a compaction
\* may write over it (memory.ts:192-343, agent.ts:39-46).
THEOREM RememberedAsStoredHolds == Spec => []RememberedAsStored
<1>1. Init => RememberedInv
  <2> SUFFICES ASSUME Init PROVE RememberedInv
    OBVIOUS
  <2>1. memory = <<Plain("system")>> /\ stored = <<>> /\ run.phase = "idle"
    BY DEF Init, Idle
  <2>2. Others(<<Plain("system")>>) = <<>>
    BY PlainShaped, OneOf DEF Others, SystemRoles
  <2>3. <<>> \in Seq(Messages)
    OBVIOUS
  <2> QED
    BY <2>1, <2>2, <2>3, EndOfSame DEF RememberedInv
<1>2. AllFormed /\ RememberedInv => RememberedAsStored
  <2> SUFFICES ASSUME AllFormed, RememberedInv, ~mixed
               PROVE  IsSuffix(Others(memory), stored)
    BY DEF RememberedAsStored
  <2> DEFINE e == Others(memory)
  <2>1. e \in Seq(Messages) /\ stored \in Seq(Messages)
    BY MemoryTypes, OthersType
  <2>2. PICK p \in Seq(Messages) : stored = p \o e
    BY DEF RememberedInv, EndOf
  <2> HIDE DEF e
  <2>3. /\ Len(stored) = Len(p) + Len(e) /\ Len(p) \in Nat /\ Len(e) \in Nat
        /\ \A i \in 1..Len(e) : stored[Len(p) + i] = e[i]
    BY <2>1, <2>2, ConcatAt
  <2>4. ASSUME NEW i \in 1..Len(e) PROVE e[Len(e) - i + 1] = stored[Len(stored) - i + 1]
    <3> DEFINE j == Len(e) - i + 1
    <3>1. j \in 1..Len(e) /\ Len(stored) - i + 1 = Len(p) + j
      BY <2>3
    <3> HIDE DEF j
    <3>2. stored[Len(p) + j] = e[j]
      BY <2>3, <3>1
    <3> QED
      BY <3>1, <3>2 DEF j
  <2>5. Len(e) <= Len(stored)
    BY <2>3
  <2> QED
    BY <2>1, <2>4, <2>5, SuffixIs DEF e
<1>3. AllFormed /\ RememberedInv /\ [Next]_vars => RememberedInv'
  BY NextRemembered
<1> QED
  BY AllFormedHolds, <1>1, <1>2, <1>3, PTL DEF Spec

=============================================================================
