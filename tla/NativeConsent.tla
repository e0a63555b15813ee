---------------------------- MODULE NativeConsent ----------------------------
(***************************************************************************)
(* The confirmation of a process an agent wants to start.  The ledger of   *)
(* src/native-process-consent.ts turns a request into a challenge and asks *)
(* the handler that is registered; the handler shows a dialog of Electron's*)
(* main process.  In a packaged application the server runs in that        *)
(* process and the dialog is the handler; otherwise the server is a child  *)
(* process and the handler is one end of a pair of pipes                   *)
(* (src/native-process-consent-transport.ts), whose other end opens the    *)
(* dialog.  Either end gives up for good on a time-out, a malformed or     *)
(* unexpected frame or a closed pipe, and every later request is denied.   *)
(*                                                                         *)
(* Abstracted: framing and authentication never fail between the two       *)
(* programs themselves, so that frames differ only in kind, call and       *)
(* decision; the sequence numbers are the order of the pipes; the digest   *)
(* of the arguments is part of the call.  Of the clock, only "older than   *)
(* fifteen seconds" is kept.  Every limit is fifteen seconds and the       *)
(* ledger's starts first: a timer fires only for a call that is late.      *)
(* The code that runs when an answer arrives, up to the return of          *)
(* requestNativeProcessConsent, is one step.                               *)
(***************************************************************************)
EXTENDS Naturals, Sequences

CONSTANTS
  Calls,           \* tool calls that ask for a process
  MaxGeneration,   \* bound of the model: invalidations
  None

ASSUME NoneIsNoCall == None \notin Calls
ASSUME MaxGenerationAssumption == MaxGeneration \in Nat

VARIABLES
  gate,       \* how the server runs, whether a handler is registered, generation
  entry,      \* the ledger: pending, and what became of each request
  child,      \* the server's end: its state and its pending call
  parent,     \* Electron's end: its state and the call being decided
  toChild,    \* frames on the way to the server
  toParent,   \* frames on the way to Electron
  dialog      \* the call the open dialog shows

consentVars == <<gate, entry, child, parent, toChild, toParent, dialog>>

pipes == <<child, parent, toChild, toParent>>

Decisions == {"approve", "deny"}

Frame(kind, call, decision) == [kind |-> kind, call |-> call, decision |-> decision]

Frames ==
  [kind : {"hello", "ready", "prepare", "decision"}, call : Calls \cup {None},
   decision : Decisions \cup {None}]

Ends == [state : {"fresh", "ready", "failed"}, call : Calls \cup {None}]

Entries ==
  [state : {"none", "pending", "withdrawn", "granted", "refused"},
   generation : 0..MaxGeneration, late : BOOLEAN]

ConsentTypeOK ==
  /\ gate \in [mode : {"packaged", "child"}, handler : BOOLEAN,
               generation : 0..MaxGeneration]
  /\ entry \in [Calls -> Entries]
  /\ child \in Ends
  /\ parent \in Ends
  /\ toChild \in Seq(Frames)
  /\ toParent \in Seq(Frames)
  /\ dialog \in Calls \cup {None}

Fresh == [state |-> "fresh", call |-> None]

\* A request that has not been made, or is over, is not in the ledger.
Over(state) == [state |-> state, generation |-> 0, late |-> FALSE]

\* The packaged server registers the dialog before anything can ask; a child
\* registers its end of the pipes once the handshake is over.
ConsentInit ==
  /\ gate \in {[mode |-> "packaged", handler |-> TRUE, generation |-> 0],
               [mode |-> "child", handler |-> FALSE, generation |-> 0]}
  /\ entry = [c \in Calls |-> Over("none")]
  /\ child = Fresh
  /\ parent = Fresh
  /\ toChild = IF gate.mode = "child" THEN <<Frame("hello", None, None)>> ELSE <<>>
  /\ toParent = <<>>
  /\ dialog = None

-----------------------------------------------------------------------------
(* The ledger.                                                             *)

\* The request is answered by its handler.  Fault: whether consent was
\* withdrawn meanwhile is not looked at.
GrantedStale(c, decision, current) ==
  /\ decision = "approve"
  /\ ~entry[c].late
  /\ current

\* requestNativeProcessConsent after its await; current is validateCurrent.
Granted(c, decision, current) ==
  /\ entry[c].state = "pending"
  /\ decision = "approve"
  /\ entry[c].generation = gate.generation
  /\ ~entry[c].late
  /\ current

Settled(c, decision, current) ==
  [entry EXCEPT ![c] = Over(IF Granted(c, decision, current) THEN "granted" ELSE "refused")]

\* A request whose handler is the pipes' end, which denies at once when it has
\* failed or has a request pending.
AskThroughPipes(c) ==
  IF child.state = "ready" /\ child.call = None
    THEN /\ entry' = [entry EXCEPT ![c] =
              [state |-> "pending", generation |-> gate.generation, late |-> FALSE]]
         /\ child' = [child EXCEPT !.call = c]
         /\ toParent' = IF parent.state = "failed" THEN toParent
                          ELSE Append(toParent, Frame("prepare", c, None))
         /\ UNCHANGED <<gate, parent, toChild, dialog>>
    ELSE /\ entry' = [entry EXCEPT ![c] = Over("refused")]
         /\ UNCHANGED <<gate, pipes, dialog>>

\* requestNativeProcessConsent up to its await; a run asks for one call at a time.
RequestConsent(c) ==
  /\ entry[c].state = "none"
  /\ \/ /\ ~gate.handler
        /\ entry' = [entry EXCEPT ![c] = Over("refused")]
        /\ UNCHANGED <<gate, pipes, dialog>>
     \/ /\ gate.handler /\ gate.mode = "child"
        /\ AskThroughPipes(c)
     \/ /\ gate.handler /\ gate.mode = "packaged"
        /\ dialog = None
        /\ entry' = [entry EXCEPT ![c] =
             [state |-> "pending", generation |-> gate.generation, late |-> FALSE]]
        /\ dialog' = c
        /\ UNCHANGED <<gate, pipes>>

Withdrawn ==
  [c \in Calls |-> IF entry[c].state = "pending"
                     THEN [entry[c] EXCEPT !.state = "withdrawn"] ELSE entry[c]]

\* invalidateNativeProcessConsent: the window was navigated, hidden or closed, the
\* runtime was replaced, a session was selected.
Invalidate ==
  /\ gate.generation < MaxGeneration
  /\ gate' = [gate EXCEPT !.generation = @ + 1]
  /\ entry' = Withdrawn
  /\ UNCHANGED <<pipes, dialog>>

\* The handler is taken back when the server stops, and the server's end of
\* the pipes is closed, which denies its pending request.
Unregister ==
  /\ gate.handler /\ gate.generation < MaxGeneration
  /\ gate' = [gate EXCEPT !.handler = FALSE, !.generation = @ + 1]
  /\ entry' = [c \in Calls |-> IF c = child.call
                               THEN Over("refused")
                               ELSE Withdrawn[c]]
  /\ IF gate.mode = "child"
       THEN child' = [state |-> "failed", call |-> None] /\ toChild' = <<>>
       ELSE UNCHANGED <<child, toChild>>
  /\ UNCHANGED <<parent, toParent, dialog>>

\* Fifteen seconds have passed since the request.
TimePasses(c) ==
  /\ entry[c].state \in {"pending", "withdrawn"} /\ ~entry[c].late
  /\ entry' = [entry EXCEPT ![c].late = TRUE]
  /\ UNCHANGED <<gate, pipes, dialog>>

-----------------------------------------------------------------------------
(* The pipes.  A failing end destroys both: frames on the way to it are     *)
(* lost, what it has sent may still be read.                               *)

\* Fault: the pending request is forgotten.
ChildFailsSilently(current) ==
  /\ child' = [state |-> "failed", call |-> None]
  /\ toChild' = <<>>
  /\ UNCHANGED <<gate, entry, parent, toParent, dialog>>

\* fail() of the server's end answers its pending request with a denial.
ChildFails(current) ==
  /\ child' = [state |-> "failed", call |-> None]
  /\ toChild' = <<>>
  /\ entry' = IF child.call = None THEN entry
                ELSE Settled(child.call, "deny", current)
  /\ UNCHANGED <<gate, parent, toParent, dialog>>

\* fail() of Electron's end; a dialog that is open stays open.
ParentFails ==
  /\ parent' = [state |-> "failed", call |-> None]
  /\ toParent' = <<>>
  /\ UNCHANGED <<gate, entry, child, toChild, dialog>>

\* The hello frame: the child answers and registers its handler.
ChildGreets ==
  /\ child.state = "fresh"
  /\ toChild # <<>> /\ Head(toChild).kind = "hello"
  /\ child' = [child EXCEPT !.state = "ready"]
  /\ toChild' = Tail(toChild)
  /\ toParent' = IF parent.state = "failed" THEN toParent
                   ELSE Append(toParent, Frame("ready", None, None))
  /\ gate' = [gate EXCEPT !.handler = TRUE]
  /\ UNCHANGED <<entry, parent, dialog>>

\* A decision must be for the pending request, or the end fails.
ChildReceives(current) ==
  /\ child.state = "ready"
  /\ toChild # <<>>
  /\ LET frame == Head(toChild) IN
       IF frame.kind = "decision" /\ child.call # None /\ frame.call = child.call
         THEN /\ child' = [child EXCEPT !.call = None]
              /\ toChild' = Tail(toChild)
              /\ entry' = Settled(frame.call, frame.decision, current)
              /\ UNCHANGED <<gate, parent, toParent, dialog>>
         ELSE ChildFails(current)

ParentGreets ==
  /\ parent.state = "fresh"
  /\ toParent # <<>> /\ Head(toParent).kind = "ready"
  /\ parent' = [parent EXCEPT !.state = "ready"]
  /\ toParent' = Tail(toParent)
  /\ UNCHANGED <<gate, entry, child, toChild, dialog>>

\* Frames are handled one after the other: the next waits for the decision.
ParentReceives ==
  /\ parent.state = "ready" /\ parent.call = None
  /\ toParent # <<>> /\ Head(toParent).kind = "prepare"
  /\ parent' = [parent EXCEPT !.call = Head(toParent).call]
  /\ dialog' = Head(toParent).call
  /\ toParent' = Tail(toParent)
  /\ UNCHANGED <<gate, entry, child, toChild>>

\* handleNativeProcessConsent returns: what the user chose, or a denial when
\* the window is not the one the dialog was opened for, or is not focused.  An
\* end that has failed meanwhile forgets the answer.
DialogCloses(decision, current) ==
  /\ dialog # None
  /\ dialog' = None
  /\ \/ /\ gate.mode = "packaged"
        /\ entry' = Settled(dialog, decision, current)
        /\ UNCHANGED <<gate, pipes>>
     \/ /\ gate.mode = "child" /\ parent.call = dialog
        /\ parent' = [parent EXCEPT !.call = None]
        /\ toChild' = IF child.state = "failed" THEN toChild
                        ELSE Append(toChild, Frame("decision", dialog, decision))
        /\ UNCHANGED <<gate, entry, child, toParent>>
     \/ /\ gate.mode = "child" /\ parent.call # dialog
        /\ UNCHANGED <<gate, entry, pipes>>

\* The handshake or a decision takes fifteen seconds, the other end has closed
\* the pipes, or the end is closed on purpose.
ChildGivesUp(current) ==
  /\ gate.mode = "child" /\ child.state # "failed"
  /\ \/ child.state = "fresh"
     \/ child.call # None /\ entry[child.call].late
     \/ parent.state = "failed"
  /\ ChildFails(current)

ParentGivesUp ==
  /\ gate.mode = "child" /\ parent.state # "failed"
  /\ \/ parent.state = "fresh"
     \/ parent.call # None /\ entry[parent.call].late
     \/ child.state = "failed"
  /\ ParentFails

\* The steps nobody asks for; current: validateCurrent would agree.
ConsentStep(current) ==
  \/ \E c \in Calls : TimePasses(c)
  \/ ChildGreets
  \/ ChildReceives(current)
  \/ ParentGreets
  \/ ParentReceives
  \/ ChildGivesUp(current)
  \/ ParentGivesUp
=============================================================================
